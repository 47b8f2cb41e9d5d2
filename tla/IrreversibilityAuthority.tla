---------------------- MODULE IrreversibilityAuthority ----------------------
(***************************************************************************)
(* src/app/irreversibility_authority.py over the gate and the epochs: the  *)
(* complete flow, the separate requests and executions, and the endpoints  *)
(* of main.py that manage epochs and clean up.                             *)
(*                                                                         *)
(* A flow that needs a quorum opens a proposal and fails in the same call, *)
(* since nobody can have voted on it yet; the proposal is one of           *)
(* QuorumAuthority's, which nothing else of this module touches.           *)
(***************************************************************************)
EXTENDS PreAuthGate

CONSTANT QuorumTypes    \* the types with quorum_required > 1

VARIABLES
    total,              \* total_requests
    succeeded,          \* successful_executions
    failed              \* failed_executions

countVars == <<total, succeeded, failed>>
vars == <<epochVars, gateVars, countVars>>

TypeOK ==
    /\ EpochTypeOK
    /\ GateTypeOK
    /\ total \in Nat /\ succeeded \in Nat /\ failed \in Nat

Init == EpochInit /\ GateInit /\ total = 0 /\ succeeded = 0 /\ failed = 0

-----------------------------------------------------------------------------
(* The complete flow.  There is an action for each way it returns, with the    *)
(* counters that path increments; its exception handler is not among them,     *)
(* since what it guards catches its own exceptions.  In the first turn:        *)

\* The validation of the effect fails.
InvalidEffect(x) ==
    /\ Refuse(x, "flow")
    /\ total' = total + 1
    /\ failed' = failed + 1
    /\ UNCHANGED succeeded

\* The proposal is not accepted.  A caller may ask for a quorum for any type.
ProposalFails(x) ==
    /\ Refuse(x, "flow")
    /\ total' = total + 1
    /\ failed' = failed + 1
    /\ UNCHANGED succeeded

\* It is, and nobody has voted on it.
NotApproved(x) ==
    /\ Refuse(x, "flow")
    /\ total' = total + 1
    /\ failed' = failed + 1
    /\ UNCHANGED succeeded

\* The gate refuses before it awaits the physics check.
NotAuthorized(x) ==
    /\ Refuse(x, "flow")
    /\ total' = total + 1
    /\ failed' = failed + 1
    /\ UNCHANGED succeeded

\* It does not return yet.
ExecuteIrreversibleEffect(x, type) ==
    /\ type \notin QuorumTypes
    /\ AwaitPhysics(x, "flow", type) \/ GrantAtOnce(x, "flow", type)
    /\ total' = total + 1
    /\ UNCHANGED <<succeeded, failed>>

(* In a later turn: *)

IsFlow(x) == call[x].kind = "flow"

FlowGoesOn(x) ==
    /\ IsFlow(x)
    /\ GrantChecked(x) \/ (RecheckPasses(x) /\ CanCommitEffect(TypeOf(call[x].token)))
    /\ UNCHANGED countVars

\* The gate refuses after the physics check.
FlowNotAuthorized(x) ==
    /\ IsFlow(x)
    /\ RefuseChecked(x)
    /\ failed' = failed + 1
    /\ UNCHANGED <<total, succeeded>>

FlowSucceeds(x) ==
    /\ IsFlow(x)
    /\ EffectDone(x)
    /\ succeeded' = succeeded + 1
    /\ UNCHANGED <<total, failed>>

\* Wrong: a result that is not a success is logged and not counted.
FlowFailsUncounted(x) ==
    /\ IsFlow(x)
    /\ \/ RecheckPasses(x) /\ ~CanCommitEffect(TypeOf(call[x].token))
       \/ RecheckBlocks(x)
       \/ EffectRaises(x)
    /\ UNCHANGED countVars

\* The epoch, the second physics check, or the effect itself.
FlowFails(x) ==
    /\ IsFlow(x)
    /\ \/ RecheckPasses(x) /\ ~CanCommitEffect(TypeOf(call[x].token))
       \/ RecheckBlocks(x)
       \/ EffectRaises(x)
    /\ failed' = failed + 1
    /\ UNCHANGED <<total, succeeded>>

CompleteFlow(x) ==
    \/ InvalidEffect(x) \/ ProposalFails(x) \/ NotApproved(x) \/ NotAuthorized(x)
    \/ \E type \in Types : ExecuteIrreversibleEffect(x, type)
    \/ FlowGoesOn(x) \/ FlowNotAuthorized(x) \/ FlowSucceeds(x) \/ FlowFails(x)

-----------------------------------------------------------------------------
(* The separate requests and executions, which are not counted. *)

RequestEffectAuthorization(x, type) ==
    /\ \/ Refuse(x, "request")
       \/ AwaitPhysics(x, "request", type)
       \/ GrantAtOnce(x, "request", type)
    /\ UNCHANGED countVars

\* With the token of an earlier request.
ExecuteWithAuthorization(x, t) ==
    /\ auth[t].status # "none"
    /\ InvalidToken(x, t) \/ ExecuteExpired(x, t) \/ Execute(x, t)
    /\ UNCHANGED countVars

\* The turns after an await.
AwaitReturns(x) ==
    /\ ~IsFlow(x)
    /\ \/ GrantChecked(x) \/ RefuseChecked(x)
       \/ RecheckPasses(x) \/ RecheckBlocks(x)
       \/ EffectDone(x) \/ EffectRaises(x)
    /\ UNCHANGED countVars

Turn(x) ==
    \/ CompleteFlow(x)
    \/ \E type \in Types : RequestEffectAuthorization(x, type)
    \/ \E t \in Calls : ExecuteWithAuthorization(x, t)
    \/ AwaitReturns(x)

\* Requests first, then epochs (then proposals, in QuorumAuthority).
CleanupExpiredResources ==
    /\ CleanupAuthorizations
    /\ CleanupEpochs
    /\ UNCHANGED call

Managed ==
    /\ \/ (CreateEpoch \/ CloseEpoch \/ EpochLapses) /\ UNCHANGED gateVars
       \/ CleanupExpiredResources
       \/ \E t \in Calls : CancelAuthorization(t) \/ AuthorizationLapses(t)
    /\ UNCHANGED countVars

Next == Managed \/ \E x \in Calls : Turn(x)

Spec == Init /\ [][Next]_vars

-----------------------------------------------------------------------------
(* Properties. *)

\* A request is in the table exactly as long as it is pending; one that is not
\* has been filed.  Calls that work on the same request at once, a cancel or a
\* cleanup among them, may file it again, but never bring it back.
PendingIsOpen ==
    \A t \in Calls :
        /\ t \in pending <=> auth[t].status = "pending"
        /\ filed[t] > 0 <=> auth[t].status \notin {"none", "pending"}

\* What is recorded in the epochs has been executed: no type has more records,
\* over all epochs, than successful calls.
RecordedWasExecuted ==
    \A type \in Types :
        Cardinality({e \in DOMAIN epochs :
                        \E i \in DOMAIN epochs[e].effects : epochs[e].effects[i] = type})
            <= Cardinality({x \in Calls : call[x].answer = "succeeded"
                                          /\ call[x].type = type})

\* The commit into the epoch is refused, and nobody is told.
Overtaken(e) ==
    \/ epochs[e].status = "closed" \/ epochs[e].late
    \/ Len(epochs[e].effects) >= MaxEffects

\* The converse, "Step 6: Record in epoch", holds with an exception: what has been
\* executed is recorded, whatever is cancelled or cleaned up meanwhile, unless
\* some epoch was closed, replaced or filled, or has run out of its time.
RecordedUnlessOvertaken ==
    (\A e \in DOMAIN epochs : ~Overtaken(e)) =>
        \A x \in Calls : call[x].answer = "succeeded" =>
            \E e \in DOMAIN epochs :
                \E i \in DOMAIN epochs[e].effects : epochs[e].effects[i] = call[x].type

Flows == {x \in Calls : IsFlow(x)}

\* The statistics are the truth about the flows that have come in, on whichever
\* way each of them returned: how many there were, how many of them were
\* answered with a success, and how many without.
CountersAddUp ==
    /\ total = Cardinality(Flows)
    /\ succeeded = Cardinality({x \in Flows : call[x].answer = "succeeded"})
    /\ failed = Cardinality({x \in Flows : call[x].pc = "done"
                                          /\ call[x].answer # "succeeded"})
=============================================================================
