---------------------------- MODULE PhysicsBridge ----------------------------
(***************************************************************************)
(* The rule table of src/app/physics_bridge.py and what executing its      *)
(* actions does to the capability engine.                                  *)
(*                                                                         *)
(* A measurement says whether an emergency stop and a freeze are due and   *)
(* which agents are depleted (value <= 0) or distrusted (trust < 0.3).     *)
(* Stops and freezes are asked for and never happen: the bridge calls      *)
(* trigger_emergency_stop(), which KillSwitch does not have, and freeze()  *)
(* with a metadata argument it does not take.  Both errors are caught.     *)
(***************************************************************************)
EXTENDS CapabilityEngine

Measurement == [depleted : SUBSET Agents, distrusted : SUBSET Agents]

Registered == {a \in Agents : manifests[a] # {}}

\* revoke_agent: all capabilities of the manifest to 0; downgrade_role: one
\* failure each.  The revocations come first in the list of actions.
RevokeThenDowngrade(s, a, c) ==
    LET revoked == IF a \in s.depleted THEN 0 ELSE trust[a][c]
    IN  IF a \in s.distrusted THEN UpdateFailure(revoked) ELSE revoked

\* evaluate_physics_state() and execute_actions(): nothing after the answer of
\* the physics service awaits, so all actions are one turn.
ExecuteActions(s) ==
    /\ (s.depleted \cup s.distrusted) \cap Registered # {}
    /\ trust' = [a \in Agents |-> [c \in Capabilities |->
                    IF c \in manifests[a] THEN RevokeThenDowngrade(s, a, c)
                    ELSE trust[a][c]]]
    /\ UNCHANGED <<manifests, spent>>
    /\ SaveState
=============================================================================
