-------------------------- MODULE KillSwitchControl --------------------------
(***************************************************************************)
(* The kill switch inside the service: the /control endpoints of           *)
(* src/app/main.py, which call it and then the mutation executor's own     *)
(* freeze() or unfreeze(), and the command line of kill_switch.py, which   *)
(* builds a second KillSwitch in a process of its own and shares only the  *)
(* two files with the service.                                             *)
(***************************************************************************)
EXTENDS KillSwitch

VARIABLES
    execState,      \* MutationExecutor.current_state
    endpoint,       \* what the running endpoint still has to do in the executor
    cli             \* the next step of the command-line process

ctlVars == <<execState, endpoint, cli>>
vars == <<ksVars, ctlVars>>

CtlInit ==
    /\ Init
    /\ execState = "running"
    /\ endpoint = "none"
    /\ cli = "idle"

\* The event loop is free: no endpoint is between two of its calls.
Idle == Quiet /\ endpoint = "none"

-----------------------------------------------------------------------------
(* The endpoints.  freeze() and unfreeze() refuse by returning FALSE, and    *)
(* freeze_system and unfreeze_system do not look at what they returned.      *)

Refused == ksState = "emergency_stop" /\ UNCHANGED ksVars

ApiFreeze ==
    /\ Idle
    /\ Freeze \/ Refused
    /\ endpoint' = "freeze"
    /\ UNCHANGED <<execState, cli>>

ApiUnfreeze ==
    /\ Idle
    /\ Unfreeze \/ Refused
    /\ endpoint' = "unfreeze"
    /\ UNCHANGED <<execState, cli>>

ApiEmergencyStop ==
    /\ Idle
    /\ EmergencyStop
    /\ endpoint' = "freeze"
    /\ UNCHANGED <<execState, cli>>

ApiEmergencyReset ==
    /\ Idle
    /\ ResetEmergency
    /\ UNCHANGED ctlVars

\* mutation_executor.freeze() and unfreeze(), once the kill switch has returned.
ExecutorFreeze ==
    /\ Quiet
    /\ endpoint = "freeze"
    /\ freezeFile' = TRUE
    /\ execState' = "frozen"
    /\ endpoint' = "none"
    /\ UNCHANGED <<ksState, emergencyFile, events, pc, prev, cli>>

ExecutorUnfreeze ==
    /\ Quiet
    /\ endpoint = "unfreeze"
    /\ freezeFile' = FALSE
    /\ execState' = "running"
    /\ endpoint' = "none"
    /\ UNCHANGED <<ksState, emergencyFile, events, pc, prev, cli>>

Service ==
    \/ ApiFreeze \/ ApiUnfreeze \/ ApiEmergencyStop \/ ApiEmergencyReset
    \/ ExecutorFreeze \/ ExecutorUnfreeze
    \/ Progress /\ UNCHANGED ctlVars

\* A new service process; the executor always starts as running.
ServiceBoot ==
    /\ execState' = "running"
    /\ endpoint' = "none"
    /\ UNCHANGED cli

ServiceRestart == Idle /\ Restart /\ ServiceBoot
ServiceCrash   == ~Idle /\ Boot /\ ServiceBoot

Signal == (SignalFreeze \/ SignalUnfreeze) /\ UNCHANGED ctlVars

-----------------------------------------------------------------------------
(* The command line: its own switch takes its state from the files.          *)

CliFreeze    == cli = "idle" /\ FileState # "emergency_stop" /\ cli' = "touch_freeze"
CliUnfreeze  == cli = "idle" /\ FileState # "emergency_stop" /\ cli' = "unlink_freeze"
CliEmergency == cli = "idle" /\ cli' = "touch_emergency"

CliStart ==
    /\ CliFreeze \/ CliUnfreeze \/ CliEmergency
    /\ UNCHANGED <<ksVars, execState, endpoint>>

\* The event it records dies with the process.
CliStep ==
    /\ cli # "idle"
    /\ Perform(cli)
    /\ cli' = IF After(cli) = "record" THEN "idle" ELSE After(cli)
    /\ UNCHANGED <<ksState, events, pc, prev, execState, endpoint>>

Cli == CliStart \/ CliStep

-----------------------------------------------------------------------------
\* The endpoints alone.
ApiSpec == CtlInit /\ [][Service \/ ServiceRestart]_vars

\* Everything at once: signals and crashes between any two steps, too.
CtlNext == Service \/ ServiceRestart \/ ServiceCrash \/ Signal \/ Cli
CtlSpec == CtlInit /\ [][CtlNext]_vars

-----------------------------------------------------------------------------
(* Properties. *)

\* However signals, crashes, the command line and other requests interleave
\* with it, a stop that has reached the disk is left only by a reset, and a
\* reset leads to frozen, never straight to active ("Only human can reset").
StopEndsByReset ==
    [][ksState = "emergency_stop" /\ emergencyFile =>
          \/ ksState' = "emergency_stop"
          \/ ksState' = "frozen" /\ pc'["call"] = "unlink_emergency"]_vars

\* Once the service has answered, an emergency stop blocks mutations: main.py
\* says "full system halt", kill_switch.py "Cannot unfreeze from emergency stop
\* without explicit reset".
StopBlocksMutations == (Idle /\ ksState = "emergency_stop") => freezeFile
=============================================================================
