-------------------------- MODULE KillSwitchProofs --------------------------
(***************************************************************************)
(* Theorems about the kill switch by itself, for every length of its audit *)
(* trail; and, in the last part, that an emergency stop that has reached   *)
(* the disk holds against requests, signals, crashes and the command line, *)
(* in any interleaving.                                                    *)
(***************************************************************************)
EXTENDS KillSwitchControl, TLAPS

\* The inductive invariant: no handler runs, what the next step of a method
\* will do agrees with the state the method has assigned, and the two files say
\* what the state says except for the step that is about to write them.
Inv ==
    /\ TypeOK
    /\ pc["handler"] = "idle"
    /\ pc["call"] = "touch_emergency" => ksState = "emergency_stop"
    /\ pc["call"] = "touch_freeze"    => ksState # "active"
    /\ pc["call"] = "unlink_freeze"   => ksState = "active"
    /\ pc["call"] = "unlink_emergency" => ksState = "frozen"
    /\ (ksState # "active" /\ pc["call"] \in {"idle", "record", "unlink_emergency"})
          => freezeFile
    /\ (ksState = "active" /\ pc["call"] \in {"idle", "record"}) => ~freezeFile
    /\ (ksState = "emergency_stop" /\ pc["call"] # "touch_emergency") => emergencyFile
    /\ (ksState # "emergency_stop" /\ pc["call"] # "unlink_emergency") => ~emergencyFile

\* Trimming keeps the trail a sequence of events no longer than MaxEvents.
LEMMA TrimType ==
    ASSUME NEW S, NEW s \in Seq(S), Len(s) <= MaxEvents, NEW e \in S
    PROVE  /\ Trim(Append(s, e)) \in Seq(S)
           /\ Len(Trim(Append(s, e))) <= MaxEvents
<1> DEFINE t == Append(s, e)
<1>1. t \in Seq(S) /\ t # <<>> /\ Len(t) = Len(s) + 1
  OBVIOUS
<1>2. Tail(t) \in Seq(S) /\ Len(Tail(t)) = Len(t) - 1
  BY <1>1
<1> HIDE DEF t
<1>3. Len(s) \in Nat /\ MaxEvents \in Nat
  BY MaxEventsAssumption
<1> QED BY <1>1, <1>2, <1>3 DEF Trim, t

\* The service boots into a state of the invariant.
LEMMA InvInit == Init => Inv
<1> SUFFICES ASSUME Init PROVE Inv OBVIOUS
<1>1. events \in Seq([from : States, to : States]) /\ Len(events) <= MaxEvents
  <2>1. events = <<>> BY DEF Init
  <2>2. Len(<<>>) <= MaxEvents BY MaxEventsAssumption
  <2> QED BY <2>1, <2>2
<1> QED BY <1>1 DEF Init, Inv, TypeOK, States, Frames, Steps

\* A method assigns a state and goes to its first file step.
LEMMA InvMethod == Inv /\ Method => Inv'
<1> SUFFICES ASSUME Inv, Method PROVE Inv' OBVIOUS
<1> USE DEF Inv, TypeOK, States, Frames, Steps, Quiet, Enter
<1>1. CASE Freeze           BY <1>1 DEF Freeze, FreezeIn
<1>2. CASE Unfreeze         BY <1>2 DEF Unfreeze, UnfreezeIn
<1>3. CASE EmergencyStop    BY <1>3 DEF EmergencyStop
<1>4. CASE ResetEmergency   BY <1>4 DEF ResetEmergency
<1>5. CASE EnterMaintenance BY <1>5 DEF EnterMaintenance
<1>6. CASE ExitMaintenance  BY <1>6 DEF ExitMaintenance
<1> QED BY <1>1, <1>2, <1>3, <1>4, <1>5, <1>6 DEF Method

\* The file steps and the audit record of a method.
LEMMA InvProgress == Inv /\ Progress => Inv'
<1> SUFFICES ASSUME Inv, NEW f \in Frames, FileStep(f) \/ RecordEvent(f) PROVE Inv'
  BY DEF Progress
<1>1. f = "call"
  BY DEF FileStep, RecordEvent, Runs, Inv, Frames
<1>2. CASE FileStep(f)
  BY <1>1, <1>2 DEF FileStep, Runs, Perform, After, Inv, TypeOK, Frames, States, Steps
<1>3. CASE RecordEvent(f)
  <2>1. [from |-> prev[f], to |-> ksState] \in [from : States, to : States]
    BY DEF Inv, TypeOK
  <2>2. events' \in Seq([from : States, to : States]) /\ Len(events') <= MaxEvents
    BY <1>3, <2>1, TrimType DEF RecordEvent, Inv, TypeOK
  <2> QED
    BY <1>1, <1>3, <2>2 DEF RecordEvent, Runs, Inv, TypeOK, Frames, States, Steps
<1> QED BY <1>2, <1>3

\* A restart finds the files in agreement with the state it reads from them.
LEMMA InvRestart == Inv /\ Restart => Inv'
BY MaxEventsAssumption
   DEF Inv, TypeOK, Restart, Boot, FileState, Quiet, Frames, States, Steps

\* Every step keeps the invariant.
LEMMA InvNext == Inv /\ [Next]_ksVars => Inv'
<1>1. Inv /\ UNCHANGED ksVars => Inv'
  BY DEF Inv, TypeOK, ksVars
<1> QED BY <1>1, InvMethod, InvProgress, InvRestart DEF Next

\* The inductive invariant of the kill switch holds between and inside all its methods.
THEOREM Invariance == Spec => []Inv
BY InvInit, InvNext, PTL DEF Spec

\* Type correctness of kill_switch.py's state, files and audit trail.
THEOREM TypeCorrect == Spec => []TypeOK
<1>1. Inv => TypeOK BY DEF Inv
<1> QED BY <1>1, Invariance, PTL

\* Whenever a method of the kill switch has returned, a state that blocks
\* mutations is backed by the FREEZE file.
THEOREM FrozenIsOnDisk == Spec => []FrozenOnDisk
<1>1. Inv => FrozenOnDisk BY DEF Inv, FrozenOnDisk, Quiet, Frames
<1> QED BY <1>1, Invariance, PTL

\* Once its file has been written, an emergency stop in memory is on disk too.
THEOREM EmergencyIsOnDisk == Spec => []EmergencyOnDisk
<1>1. Inv => EmergencyOnDisk
  BY DEF Inv, EmergencyOnDisk, Quiet, Frames
<1> QED BY <1>1, Invariance, PTL

\* Between two calls no other state has the EMERGENCY_STOP file: a stop that has
\* been reset does not come back with a restart.
THEOREM ResetLasts == Spec => []ResetIsDurable
<1>1. Inv => ResetIsDurable
  BY DEF Inv, ResetIsDurable, Quiet, Frames
<1> QED BY <1>1, Invariance, PTL

\* A restart between two calls never makes the switch more or less strict.
THEOREM RestartIsFaithful == Spec => RestartKeepsBlocking
<1>1. Inv /\ [Next]_ksVars =>
        [Restart => /\ (ksState = "active") <=> (ksState' = "active")
                    /\ (ksState = "emergency_stop") <=> (ksState' = "emergency_stop")]_ksVars
  BY DEF Inv, TypeOK, States, Frames, Restart, Boot, FileState, Quiet
<1> QED BY <1>1, Invariance, PTL DEF Spec, RestartKeepsBlocking

-----------------------------------------------------------------------------
(* The audit trail. *)

\* The last event ends in the current state, or, while a method runs, in the
\* state it has found; that is the one its own event will start with.
ChainInv ==
    /\ \A i \in 1..(Len(events) - 1) : events[i].to = events[i + 1].from
    /\ events # <<>> => events[Len(events)].to =
                            IF pc["call"] = "idle" THEN ksState ELSE prev["call"]

\* An event that starts where the last one ended continues the chain, and
\* trimming does not break it.
LEMMA TrimKeepsChain ==
    ASSUME NEW S, NEW s \in Seq(S), NEW e \in S,
           \A i \in 1..(Len(s) - 1) : s[i].to = s[i + 1].from,
           s # <<>> => s[Len(s)].to = e.from,
           NEW t, t = Trim(Append(s, e))
    PROVE  /\ t # <<>> /\ t[Len(t)] = e
           /\ \A i \in 1..(Len(t) - 1) : t[i].to = t[i + 1].from
<1> DEFINE a == Append(s, e)
           n == Len(s)
<1>1. /\ n \in Nat /\ a \in Seq(S) /\ Len(a) = n + 1 /\ a[n + 1] = e
      /\ \A i \in 1..n : a[i] = s[i]
      /\ n # 0 => s # <<>>
  OBVIOUS
<1> HIDE DEF a
<1>2. \A i \in 1..n : a[i].to = a[i + 1].from
  <2> TAKE i \in 1..n
  <2>1. CASE i = n
    BY <1>1, <2>1
  <2>2. CASE i # n
    <3>1. i \in 1..(n - 1) /\ i + 1 \in 1..n
      BY <1>1, <2>2
    <3> QED
      BY <1>1, <3>1
  <2> QED
    BY <2>1, <2>2
<1>3. CASE t = a
  BY <1>1, <1>2, <1>3
<1>4. CASE t = Tail(a) /\ n > 0
  <2>1. Len(t) = n /\ \A i \in 1..n : t[i] = a[i + 1]
    BY <1>1, <1>4
  <2>2. t # <<>> /\ t[n] = e
    BY <1>1, <1>4, <2>1
  <2>3. \A i \in 1..(n - 1) : t[i].to = t[i + 1].from
    <3> TAKE i \in 1..(n - 1)
    <3>1. i \in 1..n /\ i + 1 \in 1..n
      BY <1>1
    <3>2. t[i] = a[i + 1] /\ t[i + 1] = a[i + 1 + 1]
      BY <2>1, <3>1
    <3> QED
      BY <1>2, <3>1, <3>2
  <2> QED
    BY <2>1, <2>2, <2>3
<1>5. t = a \/ (t = Tail(a) /\ n > 0)
  BY <1>1, MaxEventsAssumption DEF Trim, a
<1> QED
  BY <1>3, <1>4, <1>5

\* Every step keeps the audit trail a chain.
LEMMA ChainStep == Inv /\ ChainInv /\ [Next]_ksVars => ChainInv'
<1> SUFFICES ASSUME Inv, ChainInv, [Next]_ksVars PROVE ChainInv'
  OBVIOUS
<1>1. CASE Method
  <2>1. UNCHANGED events /\ pc["call"] = "idle" /\ pc'["call"] # "idle"
        /\ prev'["call"] = ksState
    BY <1>1 DEF Method, Freeze, Unfreeze, FreezeIn, UnfreezeIn, EmergencyStop,
       ResetEmergency, EnterMaintenance, ExitMaintenance, Enter, Quiet, Frames, Inv, TypeOK
  <2> QED
    BY <2>1 DEF ChainInv
<1>2. ASSUME NEW f \in Frames, FileStep(f) PROVE ChainInv'
  <2>1. f = "call" /\ UNCHANGED <<events, prev>> /\ pc["call"] # "idle" /\ pc'["call"] # "idle"
    BY <1>2 DEF FileStep, Runs, After, Inv, TypeOK, Frames
  <2> QED
    BY <2>1 DEF ChainInv
<1>3. ASSUME NEW f \in Frames, RecordEvent(f) PROVE ChainInv'
  <2> DEFINE e == [from |-> prev["call"], to |-> ksState]
             S == [from : States, to : States]
  <2>1. /\ f = "call" /\ events' = Trim(Append(events, e)) /\ UNCHANGED ksState
        /\ pc["call"] = "record" /\ pc'["call"] = "idle"
    BY <1>3 DEF RecordEvent, Runs, Inv, TypeOK, Frames
  <2>2. /\ events \in Seq(S) /\ e \in S
        /\ e.from = prev["call"] /\ e.to = ksState
    BY DEF Inv, TypeOK, Frames
  <2> HIDE DEF e, S
  <2>3. /\ \A i \in 1..(Len(events) - 1) : events[i].to = events[i + 1].from
        /\ events # <<>> => events[Len(events)].to = e.from
    BY <2>1, <2>2 DEF ChainInv
  <2>4. /\ events' # <<>> /\ events'[Len(events')] = e
        /\ \A i \in 1..(Len(events') - 1) : events'[i].to = events'[i + 1].from
    BY <2>1, <2>2, <2>3, TrimKeepsChain
  <2> QED
    BY <2>1, <2>2, <2>4 DEF ChainInv
<1>4. CASE Restart
  BY <1>4 DEF Restart, Boot, ChainInv
<1>5. CASE UNCHANGED ksVars
  BY <1>5 DEF ksVars, ChainInv
<1> QED
  BY <1>1, <1>2, <1>3, <1>4, <1>5 DEF Next, Progress

\* The audit trail is a chain of states that ends in the current one, for any
\* bound on its length.
THEOREM AuditTrailIsChain == Spec => []AuditChain
<1>1. Init => ChainInv
  BY DEF Init, ChainInv
<1>2. Inv /\ ChainInv => AuditChain
  BY DEF ChainInv, AuditChain, Quiet, Frames
<1> QED
  BY <1>1, <1>2, ChainStep, Invariance, PTL DEF Spec

-----------------------------------------------------------------------------
(* The switch under the endpoints, signals, crashes and the command line. *)

\* Only emergency_stop() and reset_emergency() write the EMERGENCY_STOP file,
\* neither runs as a signal handler, the command line has no reset, and a reset
\* has left the stopped state before it unlinks the file.
StopInv ==
    /\ ksState \in States
    /\ pc \in [Frames -> Steps]
    /\ pc["handler"] \in {"idle", "touch_freeze", "unlink_freeze", "record"}
    /\ pc["call"] = "unlink_emergency" => ksState # "emergency_stop"
    /\ EmergencyOnDisk
    /\ cli # "unlink_emergency"

\* The service boots into a state of the invariant.
LEMMA StopInvInit == CtlInit => StopInv
BY DEF CtlInit, Init, StopInv, EmergencyOnDisk, States, Frames, Steps

\* Methods of the kill switch, called or run as a signal handler.
LEMMA StopInvMethod ==
    ASSUME StopInv, Method \/ SignalFreeze \/ SignalUnfreeze, UNCHANGED cli
    PROVE  StopInv'
<1> USE DEF StopInv, EmergencyOnDisk, States, Frames, Steps, Quiet, Enter
<1>1. CASE Freeze \/ SignalFreeze
  BY <1>1 DEF Freeze, SignalFreeze, FreezeIn
<1>2. CASE Unfreeze \/ SignalUnfreeze
  BY <1>2 DEF Unfreeze, SignalUnfreeze, UnfreezeIn
<1>3. CASE EmergencyStop    BY <1>3 DEF EmergencyStop
<1>4. CASE ResetEmergency   BY <1>4 DEF ResetEmergency
<1>5. CASE EnterMaintenance BY <1>5 DEF EnterMaintenance
<1>6. CASE ExitMaintenance  BY <1>6 DEF ExitMaintenance
<1> QED BY <1>1, <1>2, <1>3, <1>4, <1>5, <1>6 DEF Method

\* The step of a method keeps it, in the main thread or in a handler.
LEMMA StopInvProgress == ASSUME StopInv, Progress, UNCHANGED cli PROVE StopInv'
<1> SUFFICES ASSUME NEW f \in Frames, FileStep(f) \/ RecordEvent(f) PROVE StopInv'
  BY DEF Progress
<1> USE DEF StopInv, EmergencyOnDisk, States, Frames, Steps, Runs
<1>1. CASE FileStep(f)    BY <1>1 DEF FileStep, Perform, After
<1>2. CASE RecordEvent(f) BY <1>2 DEF RecordEvent
<1> QED BY <1>1, <1>2

\* Every step keeps it.
LEMMA StopInvNext == ASSUME StopInv, [CtlNext]_vars PROVE StopInv'
<1> USE DEF StopInv, EmergencyOnDisk
<1>1. CASE Service
  <2>1. CASE ApiFreeze \/ ApiUnfreeze \/ ApiEmergencyStop \/ ApiEmergencyReset
    <3>1. (Method \/ UNCHANGED ksVars) /\ UNCHANGED cli
      BY <2>1 DEF ApiFreeze, ApiUnfreeze, ApiEmergencyStop, ApiEmergencyReset,
                  Refused, Method, ctlVars
    <3>2. CASE UNCHANGED ksVars BY <3>1, <3>2 DEF ksVars
    <3> QED BY <3>1, <3>2, StopInvMethod
  <2>2. CASE ExecutorFreeze   BY <2>2 DEF ExecutorFreeze
  <2>3. CASE ExecutorUnfreeze BY <2>3 DEF ExecutorUnfreeze
  <2>4. CASE Progress /\ UNCHANGED ctlVars
    BY <2>4, StopInvProgress DEF ctlVars
  <2> QED BY <1>1, <2>1, <2>2, <2>3, <2>4 DEF Service
<1>2. CASE ServiceRestart \/ ServiceCrash
  BY <1>2 DEF ServiceRestart, ServiceCrash, Restart, Boot, ServiceBoot,
              FileState, States, Frames, Steps
<1>3. CASE Signal
  BY <1>3, StopInvMethod DEF Signal, ctlVars
<1>4. CASE Cli
  <2>1. CASE CliStart
    BY <2>1 DEF CliStart, CliFreeze, CliUnfreeze, CliEmergency, ksVars
  <2>2. CASE CliStep
    BY <2>2 DEF CliStep, Perform, After
  <2> QED BY <1>4, <2>1, <2>2 DEF Cli
<1>5. CASE UNCHANGED vars
  BY <1>5 DEF vars, ksVars, ctlVars
<1> QED BY <1>1, <1>2, <1>3, <1>4, <1>5 DEF CtlNext

\* The invariant holds with signals, crashes, endpoints and the command line interleaved.
THEOREM StopInvariance == CtlSpec => []StopInv
BY StopInvInit, StopInvNext, PTL DEF CtlSpec

\* The kill switch's stop survives whatever happens to the service.
THEOREM StopIsOnDisk == CtlSpec => []EmergencyOnDisk
<1>1. StopInv => EmergencyOnDisk BY DEF StopInv
<1> QED BY <1>1, StopInvariance, PTL

\* The only way out of a stop on disk is reset_emergency(), and it leads to frozen.
THEOREM OnlyResetEndsStop == CtlSpec => StopEndsByReset
<1> DEFINE Stays == ksState = "emergency_stop" /\ emergencyFile =>
                       \/ ksState' = "emergency_stop"
                       \/ ksState' = "frozen" /\ pc'["call"] = "unlink_emergency"
<1>1. ASSUME StopInv, CtlNext PROVE Stays
  <2> SUFFICES ASSUME ksState = "emergency_stop", emergencyFile,
                      ksState' # "emergency_stop"
               PROVE  ksState' = "frozen" /\ pc'["call"] = "unlink_emergency"
    OBVIOUS
  <2>1. CASE Service
    <3>1. ApiEmergencyReset
      BY <2>1 DEF Service, ApiFreeze, ApiUnfreeze, ApiEmergencyStop, ExecutorFreeze,
                  ExecutorUnfreeze, Refused, Freeze, FreezeIn, Unfreeze, UnfreezeIn,
                  EmergencyStop, Enter, Progress, FileStep, RecordEvent, ksVars
    <3>2. Enter("call", "frozen", "unlink_emergency")
      BY <3>1 DEF ApiEmergencyReset, ResetEmergency
    <3>3. pc \in [Frames -> Steps] /\ "call" \in Frames
      BY <1>1 DEF StopInv, Frames
    <3> QED BY <3>2, <3>3 DEF Enter
  <2>2. ~(ServiceRestart \/ ServiceCrash)
    BY DEF ServiceRestart, ServiceCrash, Restart, Boot, FileState
  <2>3. ~(Signal \/ Cli)
    BY DEF Signal, SignalFreeze, SignalUnfreeze, FreezeIn, UnfreezeIn,
           Cli, CliStart, CliStep, ksVars
  <2> QED BY <1>1, <2>1, <2>2, <2>3 DEF CtlNext
<1>2. StopInv /\ [CtlNext]_vars => [Stays]_vars
  BY <1>1
<1> QED BY <1>2, StopInvariance, PTL DEF CtlSpec, StopEndsByReset
=============================================================================
