-------------------------- MODULE MCQuorumAuthority --------------------------
(* QuorumAuthority for TLC: voters are interchangeable. *)
EXTENDS QuorumAuthority, TLC

VoterSymmetry == Permutations(Voters)
=============================================================================
