----------------------------- MODULE KillSwitch -----------------------------
(***************************************************************************)
(* The kill switch of src/app/kill_switch.py: its in-memory state, the     *)
(* FREEZE and EMERGENCY_STOP files it leaves on disk, and its audit trail. *)
(*                                                                         *)
(* A method assigns the state first, then touches or unlinks its files,    *)
(* then records the event.  Each of these is a step of its own, because    *)
(* two things may come between them: a SIGUSR1 / SIGUSR2 handler, which    *)
(* Python runs on the main thread between two bytecodes, and a crash.      *)
(* The event loop never interleaves two methods (none of them awaits), so  *)
(* a method starts only when the previous one has returned.                *)
(***************************************************************************)
EXTENDS Naturals, Sequences

CONSTANT MaxEvents      \* length the audit trail is trimmed to (1000 in the code)

ASSUME MaxEventsAssumption == MaxEvents \in Nat \ {0}

VARIABLES
    ksState,            \* KillSwitch._state
    freezeFile,         \* the FREEZE file exists
    emergencyFile,      \* the EMERGENCY_STOP file exists
    events,             \* KillSwitch._events: the state changes, oldest first
    pc,                 \* per frame: the next step of the method it runs
    prev                \* per frame: the local variable "previous"

ksVars == <<ksState, freezeFile, emergencyFile, events, pc, prev>>

States == {"active", "frozen", "emergency_stop", "maintenance"}

\* The main thread runs either a caller's method or, above it, a signal handler.
Frames == {"call", "handler"}
Steps  == {"idle", "touch_emergency", "touch_freeze",
           "unlink_freeze", "unlink_emergency", "record"}

\* Wrong on purpose, to show what the properties notice; likewise every
\* definition below that is marked "Wrong".
FileStateSwapped == IF freezeFile THEN "frozen"
                    ELSE IF emergencyFile THEN "emergency_stop" ELSE "active"

\* What __init__ concludes from the files it finds.
FileState == IF emergencyFile THEN "emergency_stop"
             ELSE IF freezeFile THEN "frozen" ELSE "active"

Quiet == \A f \in Frames : pc[f] = "idle"

TypeOK ==
    /\ ksState \in States
    /\ freezeFile \in BOOLEAN
    /\ emergencyFile \in BOOLEAN
    /\ events \in Seq([from : States, to : States])
    /\ Len(events) <= MaxEvents
    /\ pc \in [Frames -> Steps]
    /\ prev \in [Frames -> States]

Init ==
    /\ ksState = "active"
    /\ freezeFile = FALSE
    /\ emergencyFile = FALSE
    /\ events = <<>>
    /\ pc = [f \in Frames |-> "idle"]
    /\ prev = [f \in Frames |-> "active"]

-----------------------------------------------------------------------------
(* The state transitions. *)

\* previous = self._state; self._state = s; the next step of the method is st.
Enter(f, s, st) ==
    /\ prev' = [prev EXCEPT ![f] = ksState]
    /\ ksState' = s
    /\ pc' = [pc EXCEPT ![f] = st]
    /\ UNCHANGED <<freezeFile, emergencyFile, events>>

\* Wrong: freezes whatever the state.
FreezeAnyway(f) == Enter(f, "frozen", "touch_freeze")

FreezeIn(f)   == ksState # "emergency_stop" /\ Enter(f, "frozen", "touch_freeze")
UnfreezeIn(f) == ksState # "emergency_stop" /\ Enter(f, "active", "unlink_freeze")

Freeze   == Quiet /\ FreezeIn("call")
Unfreeze == Quiet /\ UnfreezeIn("call")

\* Wrong: leaves the EMERGENCY_STOP file out.
EmergencyStopInMemory == Quiet /\ Enter("call", "emergency_stop", "touch_freeze")

EmergencyStop == Quiet /\ Enter("call", "emergency_stop", "touch_emergency")

\* Wrong: leaves the EMERGENCY_STOP file behind.
ResetInMemory ==
    /\ Quiet
    /\ ksState = "emergency_stop"
    /\ Enter("call", "frozen", "record")

\* Only with a confirmation token of 8 characters; any other call changes nothing.
ResetEmergency ==
    /\ Quiet
    /\ ksState = "emergency_stop"
    /\ Enter("call", "frozen", "unlink_emergency")

EnterMaintenance ==
    /\ Quiet
    /\ ksState # "emergency_stop"
    /\ Enter("call", "maintenance", "touch_freeze")

ExitMaintenance ==
    /\ Quiet
    /\ ksState = "maintenance"
    /\ Enter("call", "active", "unlink_freeze")

\* The frame on top of the stack runs; the one below waits for it.
Runs(f) == pc[f] # "idle" /\ (f = "call" => pc["handler"] = "idle")

\* What a step of a method does to the files, and the step after it.
Perform(step) ==
    /\ freezeFile' = CASE step = "touch_freeze"  -> TRUE
                       [] step = "unlink_freeze" -> FALSE
                       [] OTHER -> freezeFile
    /\ emergencyFile' = CASE step = "touch_emergency"  -> TRUE
                          [] step = "unlink_emergency" -> FALSE
                          [] OTHER -> emergencyFile

\* Wrong: an emergency stop leaves no FREEZE file.
AfterStopOnly(step) == "record"

After(step) == IF step = "touch_emergency" THEN "touch_freeze" ELSE "record"

FileStep(f) ==
    /\ Runs(f)
    /\ pc[f] # "record"
    /\ Perform(pc[f])
    /\ pc' = [pc EXCEPT ![f] = After(@)]
    /\ UNCHANGED <<ksState, events, prev>>

\* Wrong: one too many; the oldest instead of the newest.
TrimLate(s)   == IF Len(s) > MaxEvents + 1 THEN Tail(s) ELSE s
TrimNewest(s) == IF Len(s) > MaxEvents THEN SubSeq(s, 1, MaxEvents) ELSE s

\* self._events[-1000:]
Trim(s) == IF Len(s) > MaxEvents THEN Tail(s) ELSE s

\* The event pairs the local "previous" with self._state as it is by now.
RecordEvent(f) ==
    /\ Runs(f)
    /\ pc[f] = "record"
    /\ events' = Trim(Append(events, [from |-> prev[f], to |-> ksState]))
    /\ pc' = [pc EXCEPT ![f] = "idle"]
    /\ prev' = [prev EXCEPT ![f] = "active"]
    /\ UNCHANGED <<ksState, freezeFile, emergencyFile>>

\* A new process: __init__ reads the files, the audit trail starts empty.
Boot ==
    /\ ksState' = FileState
    /\ events' = <<>>
    /\ pc' = [f \in Frames |-> "idle"]
    /\ prev' = [f \in Frames |-> "active"]
    /\ UNCHANGED <<freezeFile, emergencyFile>>

\* A shutdown lets the running method finish.  (A crash does not: see
\* ServiceCrash of KillSwitchControl.)
Restart == Quiet /\ Boot

\* SIGUSR1 and SIGUSR2.  Bound: a handler is not itself interrupted by another.
SignalFreeze   == pc["handler"] = "idle" /\ FreezeIn("handler")
SignalUnfreeze == pc["handler"] = "idle" /\ UnfreezeIn("handler")

Method == Freeze \/ Unfreeze \/ EmergencyStop \/ ResetEmergency
          \/ EnterMaintenance \/ ExitMaintenance
Progress == \E f \in Frames : FileStep(f) \/ RecordEvent(f)

\* The class as its callers use it: one method at a time, restarts between them.
Next == Method \/ Progress \/ Restart
Spec == Init /\ [][Next]_ksVars

\* The class with the signals that may come between two steps of a method.
SignalSpec == Init /\ [][Next \/ SignalFreeze \/ SignalUnfreeze]_ksVars

-----------------------------------------------------------------------------
(* Properties. *)

\* When no method is under way, a state that blocks mutations is backed by the
\* FREEZE file, the only thing the mutation executor looks at: kill_switch.py
\* calls the states frozen, emergency stop and maintenance "mutations blocked".
FrozenOnDisk == (Quiet /\ ksState # "active") => freezeFile

\* Once emergency_stop() has written its file, the stop is on disk for as long
\* as it is in memory, so that no restart can lose it.
EmergencyOnDisk ==
    (ksState = "emergency_stop" /\ pc["call"] # "touch_emergency") => emergencyFile

\* Conversely a quiet switch that is not stopped has left no EMERGENCY_STOP
\* file behind, so that no restart brings back a stop a human has reset.
ResetIsDurable == (Quiet /\ ksState # "emergency_stop") => ~emergencyFile

\* A restart finds the switch in a state as strict as the one it left: whatever
\* blocked mutations before still blocks them (maintenance comes back frozen).
RestartKeepsBlocking ==
    [][Restart => /\ (ksState = "active") <=> (ksState' = "active")
                  /\ (ksState = "emergency_stop") <=> (ksState' = "emergency_stop")]_ksVars

\* The audit trail is a chain: each event starts in the state the previous one
\* ended in, and the last one ends in the current state ("Audit trail of all
\* state changes"), through trimming as well.
AuditChain ==
    /\ \A i \in 1..(Len(events) - 1) : events[i].to = events[i + 1].from
    /\ (Quiet /\ events # <<>>) => events[Len(events)].to = ksState
=============================================================================
