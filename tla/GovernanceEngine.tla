-------------------------- MODULE GovernanceEngine --------------------------
(***************************************************************************)
(* The governance rules of src/app/governance_engine.py and the capability *)
(* grammar of src/app/capability_enforcer.py they start with.              *)
(*                                                                         *)
(* The grammar is a file whose place is configured.  The one of the        *)
(* repository, config/capability_grammar.yaml, has no entry for any        *)
(* CapabilityType: with it every mutation is rejected.                     *)
(***************************************************************************)
EXTENDS CapabilityEngine, FiniteSets

CONSTANTS
    Grammar,            \* capabilities of the grammar file, by name
    Strict              \* compliance profile is EU_AI_ACT or SOC2

Requirements ==
    {"snapshot", "invariant_pass", "governance_approval", "human_confirmation",
     "code_visualizer_analysis", "rate_limit_check", "confidence"}

ASSUME GrammarAssumption ==
    /\ DOMAIN Grammar \subseteq Capabilities
    /\ \A c \in DOMAIN Grammar :
          Grammar[c] \in [requires : SUBSET Requirements, confidence : 0..100,
                          allowed : SUBSET Paths, denied : SUBSET Paths]
    /\ Strict \in BOOLEAN

VARIABLE pending        \* pending_approvals

-----------------------------------------------------------------------------
(* capability_enforcer.py *)

\* The context of propose_mutation has a snapshot and a passed invariant check,
\* whatever the truth, and mentions no approval of any kind.
RequirementMet(requirement, k) ==
    \/ requirement \in {"snapshot", "invariant_pass", "rate_limit_check"}
    \/ requirement = "confidence" /\ k.confidence >= Grammar[k.capability].confidence

EnforcerAllows(k) ==
    /\ k.capability \in DOMAIN Grammar
    /\ \A requirement \in Grammar[k.capability].requires : RequirementMet(requirement, k)
    /\ k.path \in Grammar[k.capability].allowed \ Grammar[k.capability].denied

-----------------------------------------------------------------------------
(* governance_engine.py *)

Services == Words \ {"config", "route"}

BlastRadius(k) ==
    LET affected == (k.names \cap Services)
                        \cup (IF "config" \in k.names THEN {"gateway", "auth"} ELSE {})
                        \cup (IF "route" \in k.names THEN {"gateway"} ELSE {})
    IN  IF affected = {} THEN {"unknown"} ELSE affected

Rejected(k) == ~EnforcerAllows(k) \/ k.confidence < 60 \/ k.core

\* Wrong: asks for the profile only.
NeedsHumanStrict(k) == ~k.token /\ Strict /\ k.capability \in HighRisk

\* Any token will do: nothing compares it with one that was handed out.
NeedsHuman(k) ==
    /\ ~k.token
    /\ Cardinality(BlastRadius(k)) > 2 \/ (Strict /\ k.capability \in HighRisk)

Verdict(k) ==
    IF Rejected(k) THEN "rejected"
    ELSE IF NeedsHuman(k) THEN "pending_human" ELSE "approved"

\* approve_pending() and reject_pending() take the mutation off the list.  The
\* approved object gets its token and is dropped: the agent must submit again.
DecidePending(m) ==
    /\ m \in pending
    /\ pending' = pending \ {m}
=============================================================================
