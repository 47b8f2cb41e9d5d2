-------------------------- MODULE MutationExecutor --------------------------
(***************************************************************************)
(* MutationExecutor.execute() of src/app/mutation_executor.py: concurrent  *)
(* requests on one event loop, serialised by the mutation lock, each with  *)
(* a snapshot to go back to.                                               *)
(*                                                                         *)
(* A coroutine is a sequence of turns between the awaits that really       *)
(* suspend it: the state-hash request of propose_mutation, the poll of the *)
(* lock, the requests of check_all_invariants and the commit request.  One *)
(* action is one turn, so nothing of this process comes inside it.         *)
(***************************************************************************)
EXTENDS SnapshotEngine

CONSTANT NoOne

Mutations == Changes    \* a mutation is the change it makes to the runtime

ASSUME NoOneAssumption == NoOne \notin Mutations

VARIABLES
    freeze,             \* the FREEZE file exists
    pc,                 \* where each request is
    lock,               \* who holds the flock on mutation.lock
    active,             \* self.active_mutation
    snap,               \* the local variable snapshot_id of each request
    result,             \* MutationResult.status
    recorded,           \* what the capability engine was told about the request
    operated            \* history: the changes an operator has put in or out

vars == <<runtime, store, freeze, pc, lock, active, snap, result, recorded, operated>>
local == <<snap, result, recorded>>

Points   == {"new", "governance", "lock", "checks", "commit", "done", "lost"}
Statuses == {"none", "rejected", "pending_approval", "success", "rolled_back", "failed"}
Records  == {"none", "success", "failure", "rollback"}

TypeOK ==
    /\ runtime \subseteq Changes
    /\ StoreType(store)
    /\ freeze \in BOOLEAN
    /\ pc \in [Mutations -> Points]
    /\ lock \in Mutations \cup {NoOne}
    /\ active \in Mutations \cup {NoOne}
    /\ snap \in [Mutations -> Ids \cup {NoId}]
    /\ result \in [Mutations -> Statuses]
    /\ recorded \in [Mutations -> Records]
    /\ operated \subseteq Mutations

Init ==
    /\ runtime = {}
    /\ store = EmptyStore
    /\ freeze = FALSE
    /\ pc = [m \in Mutations |-> "new"]
    /\ lock = NoOne
    /\ active = NoOne
    /\ snap = [m \in Mutations |-> NoId]
    /\ result = [m \in Mutations |-> "none"]
    /\ recorded = [m \in Mutations |-> "none"]
    /\ operated = {}

-----------------------------------------------------------------------------
(* Before the lock. *)

\* Return a status, and what is recorded on the way.
Return(m, status, record) ==
    /\ pc' = [pc EXCEPT ![m] = "done"]
    /\ result' = [result EXCEPT ![m] = status]
    /\ recorded' = [recorded EXCEPT ![m] = record]

\* _check_freeze() at the door, and nowhere else.
RefuseFrozen(m) ==
    /\ pc[m] = "new"
    /\ freeze
    /\ Return(m, "rejected", "none")
    /\ UNCHANGED <<runtime, store, freeze, lock, active, snap>>

\* check_capability() refuses: unknown agent, trust, path or budget.
RefuseCapability(m) ==
    /\ pc[m] = "new"
    /\ ~freeze
    /\ Return(m, "rejected", "none")
    /\ UNCHANGED <<runtime, store, freeze, lock, active, snap>>

Propose(m) ==
    /\ pc[m] = "new"
    /\ ~freeze
    /\ pc' = [pc EXCEPT ![m] = "governance"]
    /\ UNCHANGED <<runtime, store, freeze, lock, active, local>>

GovernanceRejects(m) ==
    /\ pc[m] = "governance"
    /\ Return(m, "rejected", "failure")
    /\ UNCHANGED <<runtime, store, freeze, lock, active, snap>>

GovernanceDefers(m) ==
    /\ pc[m] = "governance"
    /\ Return(m, "pending_approval", "none")
    /\ UNCHANGED <<runtime, store, freeze, lock, active, snap>>

\* The first try for the lock follows without an await.  This step changes only
\* the pc of m, so whatever comes between it and the try might as well come
\* before it.
GovernanceApproves(m) ==
    /\ pc[m] = "governance"
    /\ pc' = [pc EXCEPT ![m] = "lock"]
    /\ UNCHANGED <<runtime, store, freeze, lock, active, local>>

\* Wrong on purpose, like the other definitions marked "Wrong": the waiter that
\* gives up also takes the lock away from its holder.
LockTimeoutUnlocks(m) ==
    /\ pc[m] = "lock"
    /\ lock # NoOne
    /\ Return(m, "failed", "failure")
    /\ active' = NoOne
    /\ lock' = NoOne
    /\ UNCHANGED <<runtime, store, freeze, snap>>

\* TimeoutError after 30 s of polling; "finally" clears active_mutation even
\* though it is the holder's.
LockTimeout(m) ==
    /\ pc[m] = "lock"
    /\ lock # NoOne
    /\ Return(m, "failed", "failure")
    /\ active' = NoOne
    /\ UNCHANGED <<runtime, store, freeze, lock, snap>>

-----------------------------------------------------------------------------
(* Under the lock. *)

\* The end of every turn that leaves the "async with" block.
Unlock == lock' = NoOne /\ active' = NoOne

\* Wrong: marks the snapshot and records the rollback, but restores nothing.
RestoredNothing(m, st, id) ==
    /\ Exists(st, id)
    /\ runtime' = runtime
    /\ store' = Marked(st, id, "FAIL")
    /\ Return(m, "rolled_back", "rollback")

\* The exception handler with a snapshot: restore it, mark it, record the
\* rollback; the status is "rolled_back" whether or not that succeeded.
Restored(m, st, id) ==
    /\ Exists(st, id)
    /\ runtime' = st.dirs[id].content
    /\ store' = Marked(st, id, "FAIL")
    /\ Return(m, "rolled_back", "rollback")

\* restore_snapshot() raises, because the directory of the snapshot is gone or
\* because the copy fails half-way: the error is logged and nothing recorded.
NotRestored(m, st, id, rt) ==
    /\ runtime' \in IF Exists(st, id) THEN Torn(st.dirs[id].content, rt) ELSE {rt}
    /\ store' = st
    /\ Return(m, "rolled_back", "none")

Rollback(m, st, id, rt) ==
    /\ Restored(m, st, id) \/ NotRestored(m, st, id, rt)
    /\ snap' = [snap EXCEPT ![m] = id]
    /\ Unlock
    /\ UNCHANGED freeze

\* Wrong: changes the runtime first and takes the snapshot then.
ApplyThenSnapshot(m) ==
    /\ pc[m] = "lock"
    /\ lock = NoOne
    /\ lock' = m
    /\ active' = m
    /\ store' = Created(store, runtime \cup {m})
    /\ snap' = [snap EXCEPT ![m] = GenerateId(store)]
    /\ runtime' = runtime \cup {m}
    /\ pc' = [pc EXCEPT ![m] = "checks"]
    /\ UNCHANGED <<freeze, result, recorded>>

\* The first turn with the lock: snapshot, preconditions and the change itself.
\* The change succeeds, ...
Apply(m) ==
    /\ pc[m] = "lock"
    /\ lock = NoOne
    /\ lock' = m
    /\ active' = m
    /\ store' = Created(store, runtime)
    /\ snap' = [snap EXCEPT ![m] = GenerateId(store)]
    /\ runtime' = runtime \cup {m}
    /\ pc' = [pc EXCEPT ![m] = "checks"]
    /\ UNCHANGED <<freeze, result, recorded>>

\* ... or a precondition or the write fails, the latter with part of it done, ...
ApplyFails(m) ==
    /\ pc[m] = "lock"
    /\ lock = NoOne
    /\ \E rt \in {runtime, runtime \cup {m}} :
          Rollback(m, Created(store, runtime), GenerateId(store), rt)

\* ... or there is no snapshot: nothing was changed and nothing is rolled back.
SnapshotFails(m) ==
    /\ pc[m] = "lock"
    /\ lock = NoOne
    /\ store' \in TornCreations(store, runtime)
    /\ Return(m, "failed", "failure")
    /\ Unlock
    /\ UNCHANGED <<runtime, freeze, snap>>

\* Invariants, postconditions, reload and health check, then mark_health PASS.
ChecksPass(m) ==
    /\ pc[m] = "checks"
    /\ store' = Marked(store, snap[m], "PASS")
    /\ pc' = [pc EXCEPT ![m] = "commit"]
    /\ UNCHANGED <<runtime, freeze, lock, active, local>>

ChecksFail(m) ==
    /\ pc[m] = "checks"
    /\ Rollback(m, store, snap[m], runtime)

\* commit_to_hash_sphere() has returned, TRUE or FALSE: execute() does not look.
Commit(m) ==
    /\ pc[m] = "commit"
    /\ Return(m, "success", "success")
    /\ Unlock
    /\ UNCHANGED <<runtime, store, freeze, snap>>

\* Wrong: goes back to the checks for as long as the success cannot be recorded.
CommitRetries(m) ==
    /\ pc[m] = "commit"
    /\ pc' = [pc EXCEPT ![m] = "checks"]
    /\ UNCHANGED <<runtime, store, freeze, lock, active, local>>

\* record_success() cannot save capabilities.json and raises.
CommitFails(m) ==
    /\ pc[m] = "commit"
    /\ Rollback(m, store, snap[m], runtime)

-----------------------------------------------------------------------------
(* The environment. *)

\* The /control endpoints, a signal or the command line.
ToggleFreeze ==
    /\ freeze' = ~freeze
    /\ UNCHANGED <<runtime, store, pc, lock, active, local, operated>>

InProgress(m) == pc[m] \in {"checks", "commit"}

Difference(a, b) == (a \ b) \cup (b \ a)

\* What a mutation in progress would get wrong if it went back now, after its
\* snapshot was copied over.
Overwritten(st) ==
    UNION {Difference(st.dirs[snap[m]].content, runtime \ {m}) :
              m \in {x \in Mutations : /\ InProgress(x) /\ snap[x] = GenerateId(store)
                                      /\ Exists(st, snap[x])}}

\* POST /snapshots/create does not take the lock: with a full index it copies
\* over the snapshot that has the number used again, whoever needs it.
ManualCreate ==
    /\ store' \in {Created(store, runtime)} \cup TornCreations(store, runtime)
    /\ operated' = operated \cup Overwritten(store')
    /\ UNCHANGED <<runtime, freeze, pc, lock, active, local>>

\* POST /snapshots/{id}/restore does not either; the copy may fail half-way.
ManualRestore ==
    /\ \E id \in DOMAIN store.dirs :
          runtime' \in Torn(store.dirs[id].content, runtime)
    /\ operated' = operated \cup Difference(runtime', runtime)
    /\ UNCHANGED <<store, freeze, pc, lock, active, local>>

\* The process dies and is started again: requests in progress are gone, the
\* flock is released with its file descriptor, the disk stays.
Crash ==
    /\ pc' = [m \in Mutations |->
                 IF pc[m] \in {"new", "done"} THEN pc[m] ELSE "lost"]
    /\ lock' = NoOne
    /\ active' = NoOne
    /\ UNCHANGED <<runtime, store, freeze, local, operated>>

Turn(m) ==
    /\ \/ RefuseFrozen(m) \/ RefuseCapability(m) \/ Propose(m)
       \/ GovernanceRejects(m) \/ GovernanceDefers(m) \/ GovernanceApproves(m)
       \/ LockTimeout(m) \/ Apply(m) \/ ApplyFails(m) \/ SnapshotFails(m)
       \/ ChecksPass(m) \/ ChecksFail(m) \/ Commit(m) \/ CommitFails(m)
    /\ UNCHANGED operated

Next ==
    \/ \E m \in Mutations : Turn(m)
    \/ ToggleFreeze \/ ManualCreate \/ ManualRestore \/ Crash

\* Requests time out (httpx after 10 s, the lock after 30 s), so a request that
\* has been let in always takes its next turn; nobody has to send one.
Admitted(m) == pc[m] # "new" /\ Turn(m)

Spec == /\ Init /\ [][Next]_vars
        /\ \A m \in Mutations : WF_vars(Admitted(m))

-----------------------------------------------------------------------------
(* Properties. *)

\* A refusal or a failure is never in the runtime.  Unless an operator had a hand
\* in it, a reported success is, and so stays while later mutations are applied
\* and rolled back; a recorded rollback is not.
AllOrNothing ==
    \A m \in Mutations :
        /\ result[m] \in {"rejected", "pending_approval", "failed"} => m \notin runtime
        /\ result[m] = "success" /\ m \notin operated => m \in runtime
        /\ recorded[m] = "rollback" /\ m \notin operated => m \notin runtime

\* From the change to the verdict, the snapshot to go back to is the runtime
\* without the change ("Pre-mutation snapshot creation"), but for what an
\* operator put in or out; and it is there until the cleanup has come to it, or
\* the index holds nothing but the number that is used again and again: from
\* then on, a creation deletes its own directory.
RollbackPoint ==
    \A m \in Mutations : InProgress(m) =>
        /\ Exists(store, snap[m]) =>
              store.dirs[snap[m]].content \ operated = runtime \ (operated \cup {m})
        /\ Head(store.index) <= snap[m] /\ Head(store.index) <= MaxSnapshots =>
              Exists(store, snap[m])

\* What mutation_executor.py promises: "If any step fails -> instant rollback".
\* A rollback that is recorded leaves the runtime without the change.  An
\* operator who takes a snapshot meanwhile, with the index full, breaks it.
RollbackUndoes ==
    [][\A m \in Mutations :
          recorded'[m] = "rollback" /\ recorded[m] # "rollback" => m \notin runtime']_vars

\* /status never names a mutation that is not running: active_mutation is the
\* holder of the lock, or nothing (a waiter that times out clears it).
ActiveIsHolder ==
    /\ active # NoOne => active = lock
    /\ \A m \in Mutations : InProgress(m) <=> lock = m

\* A request that is let in is answered, unless the process dies.
Answered == \A m \in Mutations : pc[m] = "governance" ~> pc[m] \in {"done", "lost"}

\* Whatever a crash leaves half done, an operator can undo: some snapshot on
\* disk is older than the change and was not marked as failed, as long as that
\* of the mutation has a number of its own and has not been cleaned up.
HalfDoneIsRecoverable ==
    \A m \in runtime :
        (pc[m] = "lost" /\ snap[m] \in Head(store.index) .. MaxSnapshots) =>
            \E id \in DOMAIN store.dirs :
                m \notin store.dirs[id].content /\ store.dirs[id].health # "FAIL"
=============================================================================
