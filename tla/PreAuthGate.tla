---------------------------- MODULE PreAuthGate ----------------------------
(***************************************************************************)
(* The pre-authorization gate of src/app/pre_auth_gate.py.  A request for  *)
(* an effect that needs a physics check awaits the physics service; an     *)
(* execution awaits it again, and then the effect itself.  A call is a     *)
(* sequence of turns between these awaits; one action is one turn.         *)
(*                                                                         *)
(* A token is named by the call whose request it was granted to.  The      *)
(* history is a count for each token: nothing reads it but the statistics, *)
(* and its trimming (to 10000) is left out.                                *)
(***************************************************************************)
EXTENDS EpochAuthority, FiniteSets

CONSTANTS
    Calls,              \* bound: the calls in a behaviour
    Checked,            \* the types with physics_check_required
    MaxPending,         \* max_pending_requests (1000)
    NoToken

ASSUME GateAssumption ==
    Checked \subseteq Types /\ NoToken \notin Calls /\ IsFiniteSet(Calls)

VARIABLES
    auth,               \* every AuthorizationRequest object, by its token
    pending,            \* pending_authorizations: the tokens
    filed,              \* authorization_history: how often each token is in it
    call                \* the calls of the gate

gateVars == <<auth, pending, filed, call>>

AuthStatuses == {"none", "pending", "rejected", "expired", "executed", "cancelled"}
Kinds        == {"none", "request", "execute", "flow"}
Points       == {"new", "request", "recheck", "effect", "done"}
Answers      == {"none", "granted", "refused", "failed", "succeeded"}

GateTypeOK ==
    /\ auth \in [Calls -> [status : AuthStatuses, late : BOOLEAN]]
    /\ pending \subseteq Calls
    /\ filed \in [Calls -> Nat]
    /\ call \in [Calls -> [kind : Kinds, pc : Points, type : Types \cup {"none"},
                           token : Calls \cup {NoToken}, answer : Answers]]

GateInit ==
    /\ auth = [t \in Calls |-> [status |-> "none", late |-> FALSE]]
    /\ pending = {}
    /\ filed = [t \in Calls |-> 0]
    /\ call = [x \in Calls |-> [kind |-> "none", pc |-> "new", type |-> "none",
                                token |-> NoToken, answer |-> "none"]]

-----------------------------------------------------------------------------
(* Parts of the turns. *)

\* Call x returns.
Answer(x, a) == call' = [call EXCEPT ![x].pc = "done", ![x].answer = a]

New(x, kind, type, token) ==
    [call EXCEPT ![x] = [kind |-> kind, pc |-> "new", type |-> type,
                         token |-> token, answer |-> "none"]]

\* Wrong: files the request and leaves it pending.
SettleNot(t, status) ==
    /\ auth' = [auth EXCEPT ![t].status = status]
    /\ filed' = [filed EXCEPT ![t] = @ + 1]
    /\ UNCHANGED pending

\* The new status, then _move_to_history(): out of the pending ones, if it is
\* still among them, and into the history, even if it is there already.
Settle(t, status) ==
    /\ auth' = [auth EXCEPT ![t].status = status]
    /\ filed' = [filed EXCEPT ![t] = @ + 1]
    /\ pending' = pending \ {t}

CanRequest(type) == CanCommitEffect(type) /\ Cardinality(pending) < MaxPending

-----------------------------------------------------------------------------
(* request_authorization, for a call of kind "request" or "flow".  A flow goes *)
(* on with execute_effect in the same turn, up to its first await; what it has *)
(* checked in this turn holds there.                                           *)

\* Validation, the epoch, the limit on pending requests.
Refuse(x, kind) ==
    /\ call[x].pc = "new"
    /\ call' = [New(x, kind, "none", NoToken) EXCEPT ![x].pc = "done",
                                                     ![x].answer = "refused"]
    /\ UNCHANGED <<epochVars, auth, pending, filed>>

AwaitPhysics(x, kind, type) ==
    /\ call[x].pc = "new"
    /\ type \in Checked
    /\ CanRequest(type)
    /\ call' = [New(x, kind, type, NoToken) EXCEPT ![x].pc = "request"]
    /\ UNCHANGED <<epochVars, auth, pending, filed>>

\* Neither the epoch nor the limit is looked at again after the physics check.
Granted(x, kind, type) ==
    /\ auth' = [auth EXCEPT ![x].status = "pending"]
    /\ pending' = pending \cup {x}
    /\ call' = [New(x, kind, type, x) EXCEPT
                   ![x].pc = IF kind = "request" THEN "done"
                             ELSE IF type \in Checked THEN "recheck" ELSE "effect",
                   ![x].answer = IF kind = "request" THEN "granted" ELSE "none"]
    /\ UNCHANGED <<epochVars, filed>>

GrantAtOnce(x, kind, type) ==
    /\ call[x].pc = "new"
    /\ type \notin Checked
    /\ CanRequest(type)
    /\ Granted(x, kind, type)

\* Nothing critical, or no answer from the physics service.
GrantChecked(x) ==
    /\ call[x].pc = "request"
    /\ Granted(x, call[x].kind, call[x].type)

RefuseChecked(x) ==
    /\ call[x].pc = "request"
    /\ Answer(x, "refused")
    /\ UNCHANGED <<epochVars, auth, pending, filed>>

-----------------------------------------------------------------------------
(* execute_effect *)

TypeOf(t) == call[t].type

\* An unknown token, or one that is no longer pending.
InvalidToken(x, t) ==
    /\ call[x].pc = "new"
    /\ t \notin pending
    /\ call' = [New(x, "execute", TypeOf(t), t) EXCEPT ![x].pc = "done",
                                                       ![x].answer = "failed"]
    /\ UNCHANGED <<epochVars, auth, pending, filed>>

ExecuteExpired(x, t) ==
    /\ call[x].pc = "new"
    /\ t \in pending
    /\ auth[t].late
    /\ call' = [New(x, "execute", TypeOf(t), t) EXCEPT ![x].pc = "done",
                                                       ![x].answer = "failed"]
    /\ Settle(t, "expired")
    /\ UNCHANGED epochVars

\* The last look at the epoch; then the effect is awaited, or refused.
StartEffect(x, t, next) ==
    \/ /\ CanCommitEffect(TypeOf(t))
       /\ call' = [next EXCEPT ![x].pc = "effect"]
       /\ UNCHANGED <<auth, pending, filed>>
    \/ /\ ~CanCommitEffect(TypeOf(t))
       /\ call' = [next EXCEPT ![x].pc = "done", ![x].answer = "failed"]
       /\ Settle(t, "rejected")

Execute(x, t) ==
    /\ call[x].pc = "new"
    /\ t \in pending
    /\ ~auth[t].late
    /\ LET next == New(x, "execute", TypeOf(t), t)
       IN  IF TypeOf(t) \in Checked
           THEN call' = [next EXCEPT ![x].pc = "recheck"] /\ UNCHANGED <<auth, pending, filed>>
           ELSE StartEffect(x, t, next)
    /\ UNCHANGED epochVars

\* After the second physics check; whether the request is still pending, or has
\* expired meanwhile, is not looked at again.
RecheckPasses(x) ==
    /\ call[x].pc = "recheck"
    /\ StartEffect(x, call[x].token, call)
    /\ UNCHANGED epochVars

RecheckBlocks(x) ==
    /\ call[x].pc = "recheck"
    /\ Answer(x, "failed")
    /\ Settle(call[x].token, "rejected")
    /\ UNCHANGED epochVars

\* Wrong: records the effect only if its request has not been settled meanwhile.
EffectDoneIfPending(x) ==
    /\ call[x].pc = "effect"
    /\ IF call[x].token \in pending THEN CommitEffect(call[x].type)
       ELSE UNCHANGED epochVars
    /\ Settle(call[x].token, "executed")
    /\ Answer(x, "succeeded")

\* What commit_effect() returns is not looked at.
EffectDone(x) ==
    /\ call[x].pc = "effect"
    /\ CommitEffect(call[x].type)
    /\ Settle(call[x].token, "executed")
    /\ Answer(x, "succeeded")

\* Wrong: records an effect that raised.
EffectRaisesRecorded(x) ==
    /\ call[x].pc = "effect"
    /\ CommitEffect(call[x].type)
    /\ Settle(call[x].token, "rejected")
    /\ Answer(x, "failed")

EffectRaises(x) ==
    /\ call[x].pc = "effect"
    /\ Settle(call[x].token, "rejected")
    /\ Answer(x, "failed")
    /\ UNCHANGED epochVars

-----------------------------------------------------------------------------
(* Beside the calls. *)

CancelAuthorization(t) ==
    /\ t \in pending
    /\ Settle(t, "cancelled")
    /\ UNCHANGED <<epochVars, call>>

\* cleanup_expired_authorizations()
CleanupAuthorizations ==
    LET expired == {t \in pending : auth[t].late}
    IN  /\ auth' = [t \in Calls |-> IF t \in expired
                                    THEN [auth[t] EXCEPT !.status = "expired"]
                                    ELSE auth[t]]
        /\ filed' = [t \in Calls |-> IF t \in expired THEN filed[t] + 1 ELSE filed[t]]
        /\ pending' = pending \ expired

\* The time to live of a request passes; it depends on the type and the caller.
AuthorizationLapses(t) ==
    /\ t \in pending
    /\ ~auth[t].late
    /\ auth' = [auth EXCEPT ![t].late = TRUE]
    /\ UNCHANGED <<epochVars, pending, filed, call>>
=============================================================================
