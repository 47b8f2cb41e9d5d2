--------------------------- MODULE AgentAuthority ---------------------------
(***************************************************************************)
(* What an agent may do: the capability engine, the governance engine and  *)
(* the physics bridge under concurrent mutations.  A request is in         *)
(* execute() of src/app/mutation_executor.py: it waits for the state hash  *)
(* of propose_mutation(), or it has been approved and runs.  The lock and  *)
(* the snapshots are MutationExecutor's; here each running request ends in *)
(* any of the ways they allow.                                             *)
(*                                                                         *)
(* capabilities.json is rewritten in place.  A crash can cut it short, and *)
(* then the service does not start again: _load_state() raises.  A save is *)
(* assumed to succeed otherwise.                                           *)
(***************************************************************************)
EXTENDS GovernanceEngine, PhysicsBridge

CONSTANTS
    Requests,           \* the calls of execute() that can be in progress at once
    Kinds,              \* the mutations agents ask for
    NoKind

ASSUME AuthorityAssumption ==
    /\ IsFiniteSet(Requests)
    /\ Kinds \subseteq MutationKind
    /\ NoKind \notin Kinds

VARIABLES pc, kind

requestVars == <<pc, kind>>
vars == <<engineVars, pending, requestVars>>

TypeOK ==
    /\ EngineType
    /\ pending \subseteq Requests
    /\ pc \in [Requests -> {"idle", "governance", "running"}]
    /\ kind \in [Requests -> Kinds \cup {NoKind}]
    /\ \A m \in Requests : pc[m] = "idle" <=> kind[m] = NoKind

Init ==
    /\ EngineInit
    /\ pending = {}
    /\ pc = [m \in Requests |-> "idle"]
    /\ kind = [m \in Requests |-> NoKind]

-----------------------------------------------------------------------------
(* A request.  One that is refused at the door leaves no trace. *)

Enter(m, k) ==
    /\ pc[m] = "idle"
    /\ \E r, b \in Rounding : CheckCapability(k, r, b)
    /\ pc' = [pc EXCEPT ![m] = "governance"]
    /\ kind' = [kind EXCEPT ![m] = k]
    /\ UNCHANGED <<engineVars, pending>>

Leave(m) ==
    /\ pc' = [pc EXCEPT ![m] = "idle"]
    /\ kind' = [kind EXCEPT ![m] = NoKind]

\* A rejection is recorded like a failure of the mutation itself.
GovernanceRejects(m) ==
    /\ pc[m] = "governance"
    /\ Verdict(kind[m]) = "rejected"
    /\ RecordFailure(kind[m])
    /\ Leave(m)
    /\ UNCHANGED pending

GovernanceDefers(m) ==
    /\ pc[m] = "governance"
    /\ Verdict(kind[m]) = "pending_human"
    /\ pending' = pending \cup {m}
    /\ Leave(m)
    /\ UNCHANGED engineVars

GovernanceApproves(m) ==
    /\ pc[m] = "governance"
    /\ Verdict(kind[m]) = "approved"
    /\ pc' = [pc EXCEPT ![m] = "running"]
    /\ UNCHANGED <<engineVars, pending, kind>>

\* The cost was computed at the door from the same mutation.
Succeeds(m) ==
    /\ pc[m] = "running"
    /\ RecordSuccess(kind[m])
    /\ Leave(m)
    /\ UNCHANGED pending

\* No lock, no snapshot (record_failure), or rolled back (record_rollback).
Fails(m) ==
    /\ pc[m] = "running"
    /\ RecordFailure(kind[m])
    /\ Leave(m)
    /\ UNCHANGED pending

\* The rollback raises: the error is logged and nothing recorded.
NotRolledBack(m) ==
    /\ pc[m] = "running"
    /\ Leave(m)
    /\ UNCHANGED <<engineVars, pending>>

-----------------------------------------------------------------------------
(* The endpoints and the process. *)

Register(a, capabilities) ==
    /\ RegisterAgent(a, capabilities)
    /\ UNCHANGED <<pending, requestVars>>

Decide(m) ==
    /\ DecidePending(m)
    /\ UNCHANGED <<engineVars, requestVars>>

ResetBudgets ==
    /\ ResetDailyBudgets
    /\ UNCHANGED <<pending, requestVars>>

Evaluate(s) ==
    /\ ExecuteActions(s)
    /\ UNCHANGED <<pending, requestVars>>

\* The requests and the pending approvals are gone.
Forget ==
    /\ pending' = {}
    /\ pc' = [m \in Requests |-> "idle"]
    /\ kind' = [m \in Requests |-> NoKind]

Crash == LoadState /\ Forget

CrashInSave ==
    /\ saved' = [saved EXCEPT !.ok = FALSE]
    /\ Forget
    /\ UNCHANGED <<manifests, trust, spent>>

Request(m) ==
    \/ \E k \in Kinds : Enter(m, k)
    \/ GovernanceRejects(m) \/ GovernanceDefers(m) \/ GovernanceApproves(m)
    \/ Succeeds(m) \/ Fails(m) \/ NotRolledBack(m)

Endpoint ==
    \/ \E a \in Agents, capabilities \in (SUBSET Capabilities) \ {{}} :
          Register(a, capabilities)
    \/ \E m \in Requests : Decide(m)
    \/ ResetBudgets
    \/ \E s \in Measurement : Evaluate(s)

Next ==
    /\ saved.ok
    /\ (\E m \in Requests : Request(m)) \/ Endpoint \/ Crash \/ CrashInSave

Spec == Init /\ [][Next]_vars

-----------------------------------------------------------------------------
(* Properties. *)

Using(a, c) == {m \in Requests :
                   pc[m] # "idle" /\ kind[m].agent = a /\ kind[m].capability = c}
InProgress(a) == {m \in Requests : pc[m] # "idle" /\ kind[m].agent = a}

\* Whatever changes the engine, its file holds the same: a crash that leaves the
\* file whole loses no manifest, no decay of trust and no spending.
Durable ==
    saved.ok => /\ saved.manifests = manifests
                /\ saved.trust = trust
                /\ saved.spent = spent

\* An agent overspends its daily budget by what the mutations that were let in
\* together can cost, and not by more.
OverspendBounded ==
    \A a \in Agents :
        spent[a] + MaxCost * Cardinality(InProgress(a))
            <= DailyBudget + MaxCost * Cardinality(Requests)

\* What a capability can still come to: each request in progress may earn 0.01.
Potential(a, c) == trust[a][c] + Cardinality(Using(a, c))

\* A disabled capability comes back only through requests that were let in
\* before; if these cannot lift it to 0.5 it is lost for good.  Neither a
\* restart nor a new registration gives it back ("never expand autonomously").
StaysDisabled ==
    [][\A a \in Agents, c \in Capabilities :
          c \in manifests[a] /\ Potential(a, c) < 50 =>
              c \in manifests'[a] /\ Potential(a, c)' < 50]_vars

\* What runs has passed what both engines check, as of its turn: its target is
\* out of the core and the forbidden paths, its agent holds the capability, and
\* if it touches more than two services, or a strict profile asks, it carries a
\* token.  Nothing is said of what no engine looks at: the source and the
\* destination of a move (mutation_executor.py:313-315).
RunsChecked ==
    \A m \in Requests : pc[m] = "running" =>
        /\ kind[m].capability \in manifests[kind[m].agent]
        /\ kind[m].path \in {"none", "runtime"} /\ ~kind[m].core
        /\ kind[m].confidence >= 60
        /\ \/ kind[m].token
           \/ /\ Cardinality(BlastRadius(kind[m])) <= 2
              /\ Strict => kind[m].capability \notin HighRisk
=============================================================================
