--------------------------- MODULE QuorumAuthority ---------------------------
(***************************************************************************)
(* The quorum authority of src/app/quorum_authority.py: who may vote, the  *)
(* proposals with their vote counters, the table of active proposals and   *)
(* the bounded history.  None of its methods awaits, so each call is one   *)
(* action; what interleaves are the calls of proposers, voters, whoever    *)
(* manages the voters, cleanup, and the clock.                             *)
(***************************************************************************)
EXTENDS Naturals, Sequences, FiniteSets

CONSTANTS
    Voters,             \* everyone who may ever be authorized
    Requirements,       \* votes_required: min_quorum or what the caller asks
    VetoNum, VetoDen,   \* veto_threshold (3/10)
    MaxProposals,       \* max_proposals (1000), of the table and of the history
    MaxCreated          \* bound: proposals created in a behaviour

ASSUME QuorumAssumption ==
    /\ IsFiniteSet(Voters)
    /\ Requirements \subseteq Nat \ {0}
    /\ VetoNum \in Nat \ {0} /\ VetoDen \in Nat \ {0}
    /\ MaxProposals \in Nat \ {0}

VARIABLES
    authorized,         \* authorized_voters
    proposals,          \* every Proposal object, in the order of creation
    active,             \* active_proposals: the keys
    history,            \* proposal_history
    lapsed              \* the clock: the first "lapsed" proposals are expired

vars == <<authorized, proposals, active, history, lapsed>>

VoteTypes == {"approve", "veto", "abstain"}
NoVote    == "none"
Statuses  == {"pending", "approved", "vetoed", "expired", "cancelled"}

Proposal == [votes    : [Voters -> VoteTypes \cup {NoVote}],
             required : Requirements,
             approve  : Nat, veto : Nat, abstain : Nat,
             status   : Statuses]

TypeOK ==
    /\ authorized \subseteq Voters
    /\ proposals \in Seq(Proposal)
    /\ active \subseteq DOMAIN proposals
    /\ history \in Seq(DOMAIN proposals)
    /\ Len(history) <= MaxProposals
    /\ Cardinality(active) <= MaxProposals
    /\ lapsed \in 0..Len(proposals)

Init ==
    /\ authorized = {}
    /\ proposals = <<>>
    /\ active = {}
    /\ history = <<>>
    /\ lapsed = 0

-----------------------------------------------------------------------------
(* Helpers. *)

IsExpired(id) == id <= lapsed
CanVote(id)   == proposals[id].status = "pending" /\ ~IsExpired(id)

TotalVotes(p) == Cardinality({v \in Voters : p.votes[v] # NoVote})

VetoReached(p) == TotalVotes(p) > 0 /\ p.veto * VetoDen >= VetoNum * TotalVotes(p)

\* Wrong on purpose, like the other definitions marked "Wrong": an abstention
\* counts as an approval.
RecordedAsApproval(p, voter, type) ==
    [p EXCEPT !.votes   = [@ EXCEPT ![voter] = type],
              !.approve = IF type = "veto" THEN @ ELSE @ + 1,
              !.veto    = IF type = "veto" THEN @ + 1 ELSE @]

\* The vote is entered and its counter raised.
Recorded(p, voter, type) ==
    [p EXCEPT !.votes   = [@ EXCEPT ![voter] = type],
              !.approve = IF type = "approve" THEN @ + 1 ELSE @,
              !.veto    = IF type = "veto"    THEN @ + 1 ELSE @,
              !.abstain = IF type = "abstain" THEN @ + 1 ELSE @]

\* The veto is looked at first, then the approvals.
Decision(p) == IF VetoReached(p) THEN "vetoed"
               ELSE IF p.approve >= p.required THEN "approved"
               ELSE "pending"

\* Wrong: keeps one too many.
TrimLate(s) == IF Len(s) > MaxProposals + 1
               THEN SubSeq(s, Len(s) - MaxProposals, Len(s)) ELSE s

\* self.proposal_history[-self.max_proposals:]
Trim(s) == IF Len(s) > MaxProposals
           THEN SubSeq(s, Len(s) - MaxProposals + 1, Len(s)) ELSE s

\* Wrong: leaves the proposals in the table.
CopyToHistory(ids) ==
    /\ active' = active
    /\ history' = Trim(history \o ids)

\* _move_to_history, of one proposal or of several in turn
MoveToHistory(ids) ==
    /\ active' = active \ {ids[i] : i \in DOMAIN ids}
    /\ history' = Trim(history \o ids)

\* The elements of a set of proposals in the order of the table.
Ordered(S) ==
    {q \in [1..Cardinality(S) -> S] :
        /\ \A i, j \in DOMAIN q : i < j => q[i] < q[j]
        /\ \A id \in S : \E i \in DOMAIN q : q[i] = id}

-----------------------------------------------------------------------------
(* The operations. *)

AddAuthorizedVoter(voter) ==
    /\ authorized' = authorized \cup {voter}
    /\ UNCHANGED <<proposals, active, history, lapsed>>

\* The votes a removed voter has cast stay where they are.
RemoveAuthorizedVoter(voter) ==
    /\ authorized' = authorized \ {voter}
    /\ UNCHANGED <<proposals, active, history, lapsed>>

ProposeEffect(proposer, required) ==
    /\ proposer \in authorized
    /\ Cardinality(active) < MaxProposals
    /\ Len(proposals) < MaxCreated
    /\ proposals' = Append(proposals,
                           [votes    |-> [v \in Voters |-> NoVote],
                            required |-> required,
                            approve  |-> 0, veto |-> 0, abstain |-> 0,
                            status   |-> "pending"])
    /\ active' = active \cup {Len(proposals) + 1}
    /\ UNCHANGED <<authorized, history, lapsed>>

\* Wrong: a voter may vote again.
VoteAgain(id, voter, type) ==
    /\ voter \in authorized
    /\ id \in active
    /\ CanVote(id)
    /\ LET p == Recorded(proposals[id], voter, type)
       IN  /\ proposals' = [proposals EXCEPT ![id] = [p EXCEPT !.status = Decision(p)]]
           /\ IF Decision(p) = "pending" THEN UNCHANGED <<active, history>>
              ELSE MoveToHistory(<<id>>)
    /\ UNCHANGED <<authorized, lapsed>>

VoteOnProposal(id, voter, type) ==
    /\ voter \in authorized
    /\ id \in active
    /\ CanVote(id)
    /\ proposals[id].votes[voter] = NoVote
    /\ LET p == Recorded(proposals[id], voter, type)
       IN  /\ proposals' = [proposals EXCEPT ![id] = [p EXCEPT !.status = Decision(p)]]
           /\ IF Decision(p) = "pending" THEN UNCHANGED <<active, history>>
              ELSE MoveToHistory(<<id>>)
    /\ UNCHANGED <<authorized, lapsed>>

CancelProposal(id) ==
    /\ id \in active
    /\ proposals' = [proposals EXCEPT ![id].status = "cancelled"]
    /\ MoveToHistory(<<id>>)
    /\ UNCHANGED <<authorized, lapsed>>

CleanupExpiredProposals ==
    LET expired == {id \in active : IsExpired(id)}
    IN  /\ expired # {}
        /\ proposals' = [id \in DOMAIN proposals |->
                            IF id \in expired
                            THEN [proposals[id] EXCEPT !.status = "expired"]
                            ELSE proposals[id]]
        /\ \E q \in Ordered(expired) : MoveToHistory(q)
        /\ UNCHANGED <<authorized, lapsed>>

\* All proposals get the same time to live, so they expire in order.
TimePasses ==
    /\ lapsed < Len(proposals)
    /\ lapsed' = lapsed + 1
    /\ UNCHANGED <<authorized, proposals, active, history>>

Next ==
    \/ \E v \in Voters : AddAuthorizedVoter(v) \/ RemoveAuthorizedVoter(v)
    \/ \E v \in Voters, r \in Requirements : ProposeEffect(v, r)
    \/ \E id \in active, v \in Voters, t \in VoteTypes : VoteOnProposal(id, v, t)
    \/ \E id \in active : CancelProposal(id)
    \/ CleanupExpiredProposals
    \/ TimePasses

Spec == Init /\ [][Next]_vars

-----------------------------------------------------------------------------
(* Properties. *)

\* What the counters and the tables hide: the ballots of the proposals.
AsBallots == [id \in DOMAIN proposals |-> [votes    |-> proposals[id].votes,
                                           required |-> proposals[id].required,
                                           status   |-> proposals[id].status]]

B == INSTANCE Ballot WITH ballots <- AsBallots

\* Every call of the authority opens, votes on or closes ballots by the rules:
\* one vote per voter even if he is removed and comes back, the verdict the
\* votes give, and nothing after the ballot has closed.
ImplementsBallot == B!Spec

\* The counters are those of the votes, and the status is the one that the
\* votes justify: an active proposal has missed no verdict, an approved or
\* vetoed one has the votes for it.
StatusIsVerdict ==
    \A id \in DOMAIN proposals :
        LET p == proposals[id]
        IN  /\ p.approve = Cardinality(B!CastAs(p.votes, "approve"))
            /\ p.veto    = Cardinality(B!CastAs(p.votes, "veto"))
            /\ p.abstain = Cardinality(B!CastAs(p.votes, "abstain"))
            /\ B!Verdict(p.votes, p.required) =
                  IF p.status \in {"approved", "vetoed"} THEN p.status ELSE "pending"

\* A proposal is in exactly one place: in the table as long as it is pending,
\* then in the history, once; it is dropped from there only when the history
\* is full.
OnePlace ==
    /\ \A id \in DOMAIN proposals : id \in active <=> proposals[id].status = "pending"
    /\ \A i, j \in DOMAIN history : i # j => history[i] # history[j]
    /\ \A i \in DOMAIN history : history[i] \notin active
    /\ (DOMAIN proposals \ active # {history[i] : i \in DOMAIN history}) =>
           Len(history) = MaxProposals
=============================================================================
