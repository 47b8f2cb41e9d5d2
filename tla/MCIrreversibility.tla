------------------------- MODULE MCIrreversibility -------------------------
(***************************************************************************)
(* IrreversibilityAuthority for TLC, with the registry of EffectBoundary:  *)
(* a type of each treatment (a quorum and a physics check, a physics check *)
(* only, neither).  Calls are interchangeable.                             *)
(***************************************************************************)
EXTENDS IrreversibilityAuthority, EffectBoundary, TLC

MCTypes       == {"economic_payment", "external_api_call", "network_broadcast"}
MCChecked     == {id \in MCTypes : RequiresPhysicsCheck(id)}
MCQuorumTypes == {id \in MCTypes : GetQuorumRequired(id) > 1}

\* Each of them has a payload that passes the validation, and an incomplete
\* or unknown one is refused (Refuse of the gate).
ASSUME Validated ==
    /\ \A id \in MCTypes : Valid(id, RequiredFields(Effects[id].effect_type))
    /\ ~Valid("economic_payment", {"amount"})
    /\ ~Valid("none", {})

CallSymmetry == Permutations(Calls)
=============================================================================
