------------------------------- MODULE Ballot -------------------------------
(***************************************************************************)
(* What src/app/quorum_authority.py promises: ballots that are opened,     *)
(* collect at most one vote of each voter, and close once, with the verdict *)
(* that the votes cast so far give or without one.  No counters, no tables, *)
(* no clock: QuorumAuthority is shown to implement it.                     *)
(***************************************************************************)
EXTENDS Naturals, Sequences, FiniteSets

CONSTANTS
    Voters,             \* everyone who may ever be authorized
    Requirements,       \* votes_required of a proposal
    VetoNum, VetoDen    \* veto_threshold as a fraction (3/10 in the code)

VARIABLE ballots        \* every ballot ever opened, in the order of creation

VoteTypes == {"approve", "veto", "abstain"}
NoVote    == "none"
Outcomes  == {"approved", "vetoed", "expired", "cancelled"}

Cast(votes)       == {v \in Voters : votes[v] # NoVote}
CastAs(votes, t)  == {v \in Voters : votes[v] = t}

\* veto / total >= veto_threshold, in integers
VetoReached(veto, total) == total > 0 /\ veto * VetoDen >= VetoNum * total

\* The verdict of the votes cast so far: the veto is looked at first.
Verdict(votes, required) ==
    IF VetoReached(Cardinality(CastAs(votes, "veto")), Cardinality(Cast(votes)))
    THEN "vetoed"
    ELSE IF Cardinality(CastAs(votes, "approve")) >= required THEN "approved"
    ELSE "pending"

Init == ballots = <<>>

Open(required) ==
    ballots' = Append(ballots, [votes    |-> [v \in Voters |-> NoVote],
                                required |-> required,
                                status   |-> "pending"])

VoteOn(b, v, t) ==
    /\ ballots[b].status = "pending"
    /\ ballots[b].votes[v] = NoVote
    /\ LET votes == [ballots[b].votes EXCEPT ![v] = t]
       IN  ballots' = [ballots EXCEPT ![b] =
                          [votes    |-> votes,
                           required |-> ballots[b].required,
                           status   |-> Verdict(votes, ballots[b].required)]]

\* Without a verdict: the proposer cancels a ballot, or time runs out for some.
Close(S, outcome) ==
    /\ \A b \in S : ballots[b].status = "pending"
    /\ ballots' = [b \in DOMAIN ballots |->
                      IF b \in S THEN [ballots[b] EXCEPT !.status = outcome]
                      ELSE ballots[b]]

Next ==
    \/ \E r \in Requirements : Open(r)
    \/ \E b \in DOMAIN ballots, v \in Voters, t \in VoteTypes : VoteOn(b, v, t)
    \/ \E S \in SUBSET DOMAIN ballots : Close(S, "expired")
    \/ \E b \in DOMAIN ballots : Close({b}, "cancelled")

Spec == Init /\ [][Next]_ballots
=============================================================================
