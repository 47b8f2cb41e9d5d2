--------------------------- MODULE EffectBoundary ---------------------------
(***************************************************************************)
(* The registry of src/app/effect_boundary.py.  Nothing registers an       *)
(* effect after the registry has been built, so it is the table of the     *)
(* standard ones.  Only what a decision of the gate or of the authority    *)
(* reads is in it: descriptions, risk levels, timeouts (a request lapses   *)
(* at any time in PreAuthGate) and rollback_possible, which nobody asks    *)
(* for, are left out.                                                      *)
(***************************************************************************)
EXTENDS Integers

EffectTypes == {"external_api", "economic", "state", "network",
                "filesystem", "database", "blockchain", "identity"}

\* IrreversibleEffect; pre-authorization and an epoch are required throughout.
Effect(type, quorum, physics) ==
    [effect_type                |-> type,
     pre_authorization_required |-> TRUE,
     requires_epoch             |-> TRUE,
     quorum_required            |-> quorum,
     physics_check_required     |-> physics]

\* _register_standard_effects()
Effects ==
    [external_api_call      |-> Effect("external_api", 1, TRUE),
     economic_payment       |-> Effect("economic",     2, TRUE),
     state_commit           |-> Effect("state",        1, TRUE),
     network_broadcast      |-> Effect("network",      1, FALSE),
     filesystem_write       |-> Effect("filesystem",   1, FALSE),
     database_write         |-> Effect("database",     1, FALSE),
     blockchain_transaction |-> Effect("blockchain",   3, TRUE),
     identity_issuance      |-> Effect("identity",     2, TRUE)]

Known(id) == id \in DOMAIN Effects

\* An unknown effect is taken for the strictest, with the quorum of one.
RequiresPreAuth(id)      == Known(id) => Effects[id].pre_authorization_required
RequiresEpoch(id)        == Known(id) => Effects[id].requires_epoch
RequiresPhysicsCheck(id) == Known(id) => Effects[id].physics_check_required
GetQuorumRequired(id)    == IF Known(id) THEN Effects[id].quorum_required ELSE 1

\* The fields a payload must have.
RequiredFields(type) ==
    CASE type = "external_api" -> {"url", "method"}
      [] type = "economic"     -> {"amount", "recipient"}
      [] type = "state"        -> {"state_key", "state_value"}
      [] OTHER                 -> {}

\* validate_effect_request(), for a payload with these fields
Valid(id, fields) == Known(id) /\ RequiredFields(Effects[id].effect_type) \subseteq fields

\* The steps "is pre-authorization required" and "is an epoch required" of the
\* gate go one way only, which is why PreAuthGate has no other.
ASSUME BoundaryAssumption ==
    \A id \in DOMAIN Effects :
        /\ Effects[id].effect_type \in EffectTypes
        /\ RequiresPreAuth(id)
        /\ RequiresEpoch(id)
=============================================================================
