------------------------ MODULE QuorumAuthorityProofs ------------------------
(***************************************************************************)
(* Proofs about QuorumAuthority for any voters, threshold and table size:  *)
(* the invariants that the runs check on an instance, and that the         *)
(* authority implements Ballot.                                            *)
(***************************************************************************)
EXTENDS QuorumAuthority, FiniteSetTheorems, TLAPS

Inv == TypeOK /\ StatusIsVerdict /\ OnePlace

Counted(p) ==
    /\ p.approve = Cardinality(B!CastAs(p.votes, "approve"))
    /\ p.veto    = Cardinality(B!CastAs(p.votes, "veto"))
    /\ p.abstain = Cardinality(B!CastAs(p.votes, "abstain"))

Justified(p) ==
    B!Verdict(p.votes, p.required) =
        IF p.status \in {"approved", "vetoed"} THEN p.status ELSE "pending"

-----------------------------------------------------------------------------
(* Lemmas about the operators. *)

\* The cardinality that Ballot speaks of is the one spoken of here.
LEMMA SameCardinality ==
    ASSUME NEW S
    PROVE  B!Cardinality(S) = Cardinality(S)
BY DEF B!Cardinality, Cardinality

\* Any set of votes is finite.
LEMMA CastFinite ==
    ASSUME NEW votes, NEW t
    PROVE  /\ IsFiniteSet(B!CastAs(votes, t))
           /\ Cardinality(B!CastAs(votes, t)) \in Nat
<1>1. IsFiniteSet(Voters)
  BY QuorumAssumption
<1>2. B!CastAs(votes, t) \subseteq Voters
  BY DEF B!CastAs
<1> QED
  BY <1>1, <1>2, FS_Subset, FS_CardinalityType

\* A new vote of type t adds one to the votes of type t, and to no others.
LEMMA OneMoreVote ==
    ASSUME NEW votes \in [Voters -> VoteTypes \cup {NoVote}],
           NEW v \in Voters, votes[v] = NoVote,
           NEW t \in VoteTypes, NEW u \in VoteTypes
    PROVE  Cardinality(B!CastAs([votes EXCEPT ![v] = t], u)) =
               IF u = t THEN Cardinality(B!CastAs(votes, u)) + 1
               ELSE Cardinality(B!CastAs(votes, u))
<1> DEFINE W == [votes EXCEPT ![v] = t]
<1>1. CASE u = t
  <2>1. B!CastAs(W, t) = B!CastAs(votes, t) \cup {v}
    BY DEF B!CastAs
  <2>2. v \notin B!CastAs(votes, t)
    BY DEF B!CastAs, VoteTypes, NoVote
  <2> QED
    BY <1>1, <2>1, <2>2, CastFinite, FS_AddElement
<1>2. CASE u # t
  <2>1. B!CastAs(W, u) = B!CastAs(votes, u)
    BY <1>2 DEF B!CastAs, VoteTypes, NoVote
  <2> QED
    BY <1>2, <2>1
<1> QED
  BY <1>1, <1>2

\* With the right counters the authority decides as the votes demand.
LEMMA DecisionIsVerdict ==
    ASSUME NEW p, Counted(p)
    PROVE  Decision(p) = B!Verdict(p.votes, p.required)
<1>1. Cardinality(B!Cast(p.votes)) = TotalVotes(p)
  BY DEF TotalVotes, NoVote, B!Cast, B!NoVote
<1>2. VetoReached(p) <=> B!VetoReached(p.veto, TotalVotes(p))
  BY DEF VetoReached, B!VetoReached
<1> QED
  BY <1>1, <1>2, SameCardinality DEF Counted, Decision, B!Verdict

\* Entering a vote keeps the type and the counters right.
LEMMA RecordedIsCounted ==
    ASSUME NEW p \in Proposal, Counted(p),
           NEW v \in Voters, p.votes[v] = NoVote, NEW t \in VoteTypes
    PROVE  /\ Recorded(p, v, t) \in Proposal
           /\ Counted(Recorded(p, v, t))
           /\ Recorded(p, v, t).votes = [p.votes EXCEPT ![v] = t]
           /\ Recorded(p, v, t).required = p.required
<1> DEFINE r == Recorded(p, v, t)
<1>1. r.votes = [p.votes EXCEPT ![v] = t] /\ r.required = p.required
  BY DEF Recorded, Proposal
<1>2. /\ r.approve = IF t = "approve" THEN p.approve + 1 ELSE p.approve
      /\ r.veto    = IF t = "veto"    THEN p.veto + 1    ELSE p.veto
      /\ r.abstain = IF t = "abstain" THEN p.abstain + 1 ELSE p.abstain
  BY DEF Recorded, Proposal
<1>3. p.votes \in [Voters -> VoteTypes \cup {NoVote}]
  BY DEF Proposal
<1>6. r.votes \in [Voters -> VoteTypes \cup {NoVote}]
  BY <1>1, <1>3
<1>7. r.approve \in Nat /\ r.veto \in Nat /\ r.abstain \in Nat
  BY <1>2 DEF Proposal
<1>8. r \in Proposal
  <2>1. r = [p EXCEPT !.votes = r.votes, !.approve = r.approve,
                      !.veto = r.veto, !.abstain = r.abstain]
    BY DEF Recorded, Proposal
  <2> HIDE DEF r
  <2> QED
    BY <1>6, <1>7, <2>1 DEF Proposal
<1>4. \A u \in VoteTypes :
        Cardinality(B!CastAs(r.votes, u)) =
            IF u = t THEN Cardinality(B!CastAs(p.votes, u)) + 1
            ELSE Cardinality(B!CastAs(p.votes, u))
  BY <1>1, <1>3, OneMoreVote
<1>5. {"approve", "veto", "abstain"} = VoteTypes
  BY DEF VoteTypes
<1> QED
  BY <1>1, <1>2, <1>4, <1>5, <1>8 DEF Counted

\* Trimming keeps the newest entries: the i-th of the result is "off" further
\* on in the sequence, and nothing is cut off one that fits.
LEMMA TrimKeepsNewest ==
    ASSUME NEW S, NEW s \in Seq(S)
    PROVE  /\ Trim(s) \in Seq(S)
           /\ Len(Trim(s)) <= MaxProposals
           /\ Len(Trim(s)) <= Len(s)
           /\ \A i \in 1..Len(Trim(s)) :
                 /\ i + (Len(s) - Len(Trim(s))) \in 1..Len(s)
                 /\ Trim(s)[i] = s[i + (Len(s) - Len(Trim(s)))]
           /\ Len(s) <= MaxProposals => Trim(s) = s
           /\ Len(s) > MaxProposals => Len(Trim(s)) = MaxProposals
<1>1. MaxProposals \in Nat \ {0} /\ Len(s) \in Nat
  BY QuorumAssumption
<1>2. CASE Len(s) <= MaxProposals
  <2>1. Trim(s) = s
    BY <1>1, <1>2 DEF Trim
  <2>2. \A i \in 1..Len(s) : i + (Len(s) - Len(s)) = i
    BY <1>1
  <2> QED
    BY <1>1, <1>2, <2>1, <2>2
<1>3. CASE Len(s) > MaxProposals
  <2>1. Trim(s) = SubSeq(s, Len(s) - MaxProposals + 1, Len(s))
    BY <1>1, <1>3 DEF Trim
  <2>2. Len(Trim(s)) = MaxProposals
    BY <1>1, <1>3, <2>1
  <2>3. \A i \in 1..MaxProposals :
          /\ i + (Len(s) - MaxProposals) \in 1..Len(s)
          /\ Trim(s)[i] = s[i + (Len(s) - MaxProposals)]
    BY <1>1, <1>3, <2>1
  <2>4. Trim(s) \in Seq(S)
    BY <1>1, <1>3, <2>1
  <2> QED
    BY <1>1, <1>3, <2>2, <2>3, <2>4
<1> QED
  BY <1>1, <1>2, <1>3

-----------------------------------------------------------------------------
(* The invariant.  The three parts are split so that an action has to be    *)
(* examined only for what it can disturb.                                   *)

Closed == DOMAIN proposals \ active
Kept   == {history[i] : i \in DOMAIN history}

\* What moving proposals to the history has to respect: they come out of the
\* table, each once.
Movable(ids) ==
    /\ ids \in Seq(active)
    /\ \A i, j \in DOMAIN ids : i # j => ids[i] # ids[j]

\* Moving keeps the bookkeeping of the table and the history.
LEMMA MoveKeepsPlaces ==
    ASSUME TypeOK, OnePlace, NEW ids, Movable(ids), MoveToHistory(ids),
           Len(proposals') = Len(proposals), proposals' \in Seq(Proposal)
    PROVE  /\ active' \subseteq DOMAIN proposals'
           /\ Cardinality(active') <= MaxProposals
           /\ history' \in Seq(DOMAIN proposals')
           /\ Len(history') <= MaxProposals
           /\ \A i, j \in DOMAIN history' : i # j => history'[i] # history'[j]
           /\ \A i \in DOMAIN history' : history'[i] \notin active'
           /\ Closed' # Kept' => Len(history') = MaxProposals
<1> DEFINE D == DOMAIN proposals
           h == history \o ids
<1>1. D = DOMAIN proposals' /\ D = 1..Len(proposals) /\ Len(proposals) \in Nat
  BY DEF TypeOK
<1>2. active \subseteq D /\ history \in Seq(D) /\ ids \in Seq(D)
  BY DEF TypeOK, Movable
<1>3. h \in Seq(D) /\ Len(h) = Len(history) + Len(ids)
  BY <1>2
<1>4. \A i \in 1..Len(h) : h[i] = IF i <= Len(history) THEN history[i]
                                  ELSE ids[i - Len(history)]
  BY <1>2
<1>5. \A i, j \in 1..Len(h) : i # j => h[i] # h[j]
  <2>1. \A i \in 1..Len(history) : history[i] \notin active
    BY <1>2 DEF OnePlace
  <2>2. \A i \in 1..Len(ids) : ids[i] \in active
    BY DEF Movable
  <2>3. \A i, j \in 1..Len(history) : i # j => history[i] # history[j]
    BY <1>2 DEF OnePlace
  <2>4. \A i, j \in 1..Len(ids) : i # j => ids[i] # ids[j]
    BY <1>2 DEF Movable
  <2>5. SUFFICES ASSUME NEW i \in 1..Len(h), NEW j \in 1..Len(h), i # j
                 PROVE  h[i] # h[j]
    OBVIOUS
  <2>6. CASE i <= Len(history) /\ j <= Len(history)
    BY <1>2, <1>4, <2>3, <2>5, <2>6
  <2>7. CASE i > Len(history) /\ j > Len(history)
    <3>1. i - Len(history) \in 1..Len(ids) /\ j - Len(history) \in 1..Len(ids)
      BY <1>2, <1>3, <2>5, <2>7
    <3>2. h[i] = ids[i - Len(history)] /\ h[j] = ids[j - Len(history)]
      BY <1>2, <1>4, <2>5, <2>7
    <3>3. i - Len(history) # j - Len(history)
      BY <1>2, <2>5
    <3> QED
      BY <2>4, <3>1, <3>2, <3>3
  <2>8. CASE i <= Len(history) /\ j > Len(history)
    <3>1. i \in 1..Len(history) /\ j - Len(history) \in 1..Len(ids)
      BY <1>2, <1>3, <2>5, <2>8
    <3>2. h[i] = history[i] /\ h[j] = ids[j - Len(history)]
      BY <1>2, <1>4, <2>5, <2>8
    <3> QED
      BY <2>1, <2>2, <3>1, <3>2
  <2>9. CASE j <= Len(history) /\ i > Len(history)
    <3>1. j \in 1..Len(history) /\ i - Len(history) \in 1..Len(ids)
      BY <1>2, <1>3, <2>5, <2>9
    <3>2. h[j] = history[j] /\ h[i] = ids[i - Len(history)]
      BY <1>2, <1>4, <2>5, <2>9
    <3> QED
      BY <2>1, <2>2, <3>1, <3>2
  <2> QED
    BY <1>2, <2>5, <2>6, <2>7, <2>8, <2>9
<1>6. history' = Trim(h) /\ active' = active \ {ids[i] : i \in DOMAIN ids}
  BY DEF MoveToHistory
<1> DEFINE off == Len(h) - Len(history')
<1>7. /\ history' \in Seq(D)
      /\ Len(history') <= MaxProposals
      /\ \A i \in 1..Len(history') : i + off \in 1..Len(h) /\ history'[i] = h[i + off]
      /\ Len(h) <= MaxProposals => history' = h
      /\ Len(h) > MaxProposals => Len(history') = MaxProposals
  BY <1>3, <1>6, TrimKeepsNewest
<1>8. \A i \in 1..Len(h) : h[i] \notin active'
  BY <1>2, <1>3, <1>4, <1>6 DEF OnePlace
<1>9. active' \subseteq active /\ Cardinality(active') <= MaxProposals
  <2>4. IsFiniteSet(D)
    BY <1>1, FS_Interval
  <2>1. IsFiniteSet(active)
    BY <1>2, <2>4, FS_Subset
  <2>2. Cardinality(active') <= Cardinality(active)
    BY <1>6, <2>1, FS_Subset
  <2>3. Cardinality(active) \in Nat /\ Cardinality(active') \in Nat
    BY <1>6, <2>1, FS_Subset, FS_CardinalityType
  <2> QED
    BY <1>6, <2>2, <2>3, QuorumAssumption DEF TypeOK
<1>10. Closed' # Kept' => Len(history') = MaxProposals
  <2> SUFFICES ASSUME Len(history') # MaxProposals
               PROVE Closed' = Kept'
    OBVIOUS
  <2>1. history' = h /\ Len(history) < MaxProposals
    BY <1>2, <1>3, <1>7, QuorumAssumption
  <2>2. Closed = Kept
    BY <1>2, <2>1, QuorumAssumption DEF OnePlace, Closed, Kept
  <2>3. Kept' = Kept \cup {ids[i] : i \in DOMAIN ids}
    <3>1. DOMAIN h = 1..Len(h) /\ DOMAIN history = 1..Len(history) /\ DOMAIN ids = 1..Len(ids)
      BY <1>2, <1>3
    <3>2. \A i \in DOMAIN ids : i + Len(history) \in DOMAIN h /\ h[i + Len(history)] = ids[i]
      BY <1>2, <1>3, <1>4, <3>1
    <3>3. \A i \in DOMAIN history : i \in DOMAIN h /\ h[i] = history[i]
      BY <1>2, <1>3, <1>4, <3>1
    <3>4. \A i \in DOMAIN h : i \in DOMAIN history \/ i - Len(history) \in DOMAIN ids
      BY <1>2, <1>3, <3>1
    <3>5. \A i \in DOMAIN h : \/ i \in DOMAIN history /\ h[i] = history[i]
                              \/ /\ i - Len(history) \in DOMAIN ids
                                 /\ h[i] = ids[i - Len(history)]
      BY <1>2, <1>3, <1>4, <3>1, <3>4
    <3>6. Kept' = {h[i] : i \in DOMAIN h}
      BY <2>1 DEF Kept
    <3> HIDE DEF h
    <3>7. ASSUME NEW x \in Kept' PROVE x \in Kept \cup {ids[i] : i \in DOMAIN ids}
      <4>1. PICK i \in DOMAIN h : x = h[i]
        BY <3>6, <3>7
      <4> QED
        BY <3>5, <4>1 DEF Kept
    <3>8. Kept \subseteq Kept'
      BY <3>3, <3>6 DEF Kept
    <3>9. {ids[i] : i \in DOMAIN ids} \subseteq Kept'
      BY <3>2, <3>6
    <3> QED
      BY <3>7, <3>8, <3>9
  <2> QED
    BY <1>1, <1>2, <1>6, <2>2, <2>3 DEF Closed, Movable
<1>11. \A i, j \in DOMAIN history' : i # j => history'[i] # history'[j]
  <2>1. SUFFICES ASSUME NEW i \in 1..Len(history'), NEW j \in 1..Len(history'), i # j
                 PROVE  history'[i] # history'[j]
    BY <1>7
  <2>2. i + off # j + off
    BY <1>3, <1>7, <2>1
  <2> QED
    BY <1>5, <1>7, <2>1, <2>2
<1>12. \A i \in DOMAIN history' : history'[i] \notin active'
  <2>1. DOMAIN history' = 1..Len(history')
    BY <1>7
  <2> QED
    BY <1>7, <1>8, <2>1
<1> QED
  BY <1>1, <1>2, <1>7, <1>9, <1>10, <1>11, <1>12

\* Closing the proposals "ids", one or several, with a status each: what the
\* three operations that move proposals have in common.
LEMMA ClosingKeepsInv ==
    ASSUME Inv, NEW ids, Movable(ids), MoveToHistory(ids),
           authorized' = authorized, lapsed' = lapsed,
           proposals' \in Seq(Proposal), Len(proposals') = Len(proposals),
           \A id \in DOMAIN proposals :
              IF id \in {ids[i] : i \in DOMAIN ids}
              THEN /\ proposals'[id].status # "pending"
                   /\ Counted(proposals'[id]) /\ Justified(proposals'[id])
              ELSE proposals'[id] = proposals[id]
    PROVE  Inv'
<1>1. /\ active' \subseteq DOMAIN proposals'
      /\ Cardinality(active') <= MaxProposals
      /\ history' \in Seq(DOMAIN proposals')
      /\ Len(history') <= MaxProposals
      /\ \A i, j \in DOMAIN history' : i # j => history'[i] # history'[j]
      /\ \A i \in DOMAIN history' : history'[i] \notin active'
      /\ Closed' # Kept' => Len(history') = MaxProposals
  BY MoveKeepsPlaces DEF Inv
<1>2. DOMAIN proposals' = DOMAIN proposals
  BY DEF Inv, TypeOK
<1>3. TypeOK'
  BY <1>1 DEF Inv, TypeOK
<1>4. StatusIsVerdict'
  BY <1>2 DEF Inv, StatusIsVerdict, Counted, Justified
<1>5. \A id \in DOMAIN proposals' : id \in active' <=> proposals'[id].status = "pending"
  BY <1>2 DEF Inv, OnePlace, MoveToHistory
<1>6. OnePlace'
  BY <1>1, <1>5 DEF OnePlace, Closed, Kept
<1> QED
  BY <1>3, <1>4, <1>6 DEF Inv

\* One proposal can be moved to the history as a cleanup moves many.
LEMMA SingleIsMovable ==
    ASSUME NEW id \in active
    PROVE  Movable(<<id>>) /\ {<<id>>[i] : i \in DOMAIN <<id>>} = {id}
<1>1. <<id>> \in Seq(active) /\ DOMAIN <<id>> = {1} /\ <<id>>[1] = id
  OBVIOUS
<1> QED
  BY <1>1 DEF Movable

\* A vote keeps the invariant, with or without a verdict.
LEMMA VoteKeepsInv ==
    ASSUME Inv, NEW id \in active, NEW v \in Voters, NEW t \in VoteTypes,
           VoteOnProposal(id, v, t)
    PROVE  Inv'
<1> DEFINE p == proposals[id]
           r == Recorded(p, v, t)
           d == [r EXCEPT !.status = Decision(r)]
<1>1. p \in Proposal /\ id \in DOMAIN proposals /\ proposals \in Seq(Proposal)
  BY DEF Inv, TypeOK
<1>2. Counted(p) /\ p.votes[v] = NoVote
  BY <1>1 DEF Inv, StatusIsVerdict, Counted, VoteOnProposal
<1>3. r \in Proposal /\ Counted(r)
  BY <1>1, <1>2, RecordedIsCounted
<1>4. Decision(r) \in {"vetoed", "approved", "pending"}
  BY DEF Decision
<1>5. /\ d.votes = r.votes /\ d.required = r.required /\ d.status = Decision(r)
      /\ d.approve = r.approve /\ d.veto = r.veto /\ d.abstain = r.abstain
      /\ d \in Proposal
  <2> HIDE DEF r
  <2> QED
    BY <1>3, <1>4 DEF Proposal, Statuses
<1>6. Counted(d) /\ Justified(d)
  <2>1. Counted(d)
    BY <1>3, <1>5 DEF Counted
  <2>2. Decision(r) = B!Verdict(d.votes, d.required)
    BY <1>3, <1>5, DecisionIsVerdict
  <2> QED
    BY <1>4, <1>5, <2>1, <2>2 DEF Justified
<1>7. /\ proposals' = [proposals EXCEPT ![id] = d]
      /\ authorized' = authorized /\ lapsed' = lapsed
      /\ IF d.status = "pending" THEN active' = active /\ history' = history
         ELSE MoveToHistory(<<id>>)
  BY <1>5 DEF VoteOnProposal
<1> HIDE DEF d
<1>8. /\ proposals' \in Seq(Proposal) /\ Len(proposals') = Len(proposals)
      /\ DOMAIN proposals' = DOMAIN proposals
      /\ proposals'[id] = d
      /\ \A i \in DOMAIN proposals : i # id => proposals'[i] = proposals[i]
  BY <1>1, <1>5, <1>7
<1>9. CASE d.status # "pending"
  BY <1>6, <1>7, <1>8, <1>9, ClosingKeepsInv, SingleIsMovable
<1>10. CASE d.status = "pending"
  <2>1. TypeOK'
    BY <1>7, <1>8, <1>10 DEF Inv, TypeOK
  <2>2. StatusIsVerdict'
    BY <1>6, <1>8 DEF Inv, StatusIsVerdict, Counted, Justified
  <2>3. OnePlace'
    BY <1>7, <1>8, <1>10 DEF Inv, OnePlace
  <2> QED
    BY <2>1, <2>2, <2>3 DEF Inv
<1> QED
  BY <1>9, <1>10

\* What cancelling and expiring do to a proposal of the table.
LEMMA ClosedWithoutVerdict ==
    ASSUME Inv, NEW id \in active, NEW s \in {"expired", "cancelled"}
    PROVE  LET d == [proposals[id] EXCEPT !.status = s]
           IN  d \in Proposal /\ d.status # "pending" /\ Counted(d) /\ Justified(d)
<1> DEFINE p == proposals[id]
           d == [p EXCEPT !.status = s]
<1>1. p \in Proposal /\ p.status = "pending" /\ Counted(p) /\ Justified(p)
  BY DEF Inv, TypeOK, OnePlace, StatusIsVerdict, Counted, Justified
<1>2. /\ d.votes = p.votes /\ d.required = p.required /\ d.status = s
      /\ d.approve = p.approve /\ d.veto = p.veto /\ d.abstain = p.abstain
      /\ d \in Proposal
  BY <1>1 DEF Proposal, Statuses
<1> HIDE DEF d
<1>3. Counted(d) /\ Justified(d)
  BY <1>1, <1>2 DEF Counted, Justified
<1> QED
  BY <1>2, <1>3 DEF d

\* So does cancelling, ...
LEMMA CancelKeepsInv ==
    ASSUME Inv, NEW id \in active, CancelProposal(id)
    PROVE  Inv'
<1> DEFINE d == [proposals[id] EXCEPT !.status = "cancelled"]
<1>1. id \in DOMAIN proposals /\ proposals \in Seq(Proposal)
  BY DEF Inv, TypeOK
<1>2. d \in Proposal /\ d.status # "pending" /\ Counted(d) /\ Justified(d)
  BY ClosedWithoutVerdict
<1>3. /\ proposals' = [proposals EXCEPT ![id] = d] /\ MoveToHistory(<<id>>)
      /\ authorized' = authorized /\ lapsed' = lapsed
  BY DEF CancelProposal
<1> HIDE DEF d
<1>4. /\ proposals' \in Seq(Proposal) /\ Len(proposals') = Len(proposals)
      /\ proposals'[id] = d
      /\ \A i \in DOMAIN proposals : i # id => proposals'[i] = proposals[i]
  BY <1>1, <1>2, <1>3
<1> QED
  BY <1>2, <1>3, <1>4, ClosingKeepsInv, SingleIsMovable

\* ... cleaning up, ...
LEMMA CleanupKeepsInv ==
    ASSUME Inv, CleanupExpiredProposals
    PROVE  Inv'
<1> DEFINE expired == {id \in active : IsExpired(id)}
<1>1. PICK q \in Ordered(expired) : MoveToHistory(q)
  BY DEF CleanupExpiredProposals
<1>2. expired \subseteq active /\ active \subseteq DOMAIN proposals
      /\ proposals \in Seq(Proposal) /\ DOMAIN proposals = 1..Len(proposals)
  BY DEF Inv, TypeOK
<1>3. Cardinality(expired) \in Nat
  <2>1. IsFiniteSet(1..Len(proposals))
    BY <1>2, FS_Interval
  <2> QED
    BY <1>2, <2>1, FS_Subset, FS_CardinalityType
<1>4. /\ q \in [1..Cardinality(expired) -> expired]
      /\ \A i, j \in DOMAIN q : i < j => q[i] < q[j]
      /\ \A id \in expired : \E i \in DOMAIN q : q[i] = id
  BY <1>1 DEF Ordered
<1> HIDE DEF expired
<1>5. Movable(q)
  <2>1. q \in Seq(active)
    BY <1>2, <1>3, <1>4
  <2>2. DOMAIN q \subseteq Nat /\ \A i \in DOMAIN q : q[i] \in Nat
    BY <1>2, <1>3, <1>4
  <2> QED
    BY <1>4, <2>1, <2>2 DEF Movable
<1>6. {q[i] : i \in DOMAIN q} = expired
  <2>1. \A i \in DOMAIN q : q[i] \in expired
    BY <1>4
  <2> QED
    BY <1>4, <2>1
<1>7. /\ proposals' = [id \in DOMAIN proposals |->
                          IF id \in expired THEN [proposals[id] EXCEPT !.status = "expired"]
                          ELSE proposals[id]]
      /\ authorized' = authorized /\ lapsed' = lapsed
  BY DEF CleanupExpiredProposals, expired
<1>8. \A id \in expired :
        LET d == [proposals[id] EXCEPT !.status = "expired"]
        IN  d \in Proposal /\ d.status # "pending" /\ Counted(d) /\ Justified(d)
  BY <1>2, ClosedWithoutVerdict
<1>9. \A id \in DOMAIN proposals :
        IF id \in expired
        THEN /\ proposals'[id].status # "pending" /\ proposals'[id] \in Proposal
             /\ Counted(proposals'[id]) /\ Justified(proposals'[id])
        ELSE proposals'[id] = proposals[id]
  BY <1>7, <1>8
<1>10. proposals' \in Seq(Proposal) /\ Len(proposals') = Len(proposals)
  BY <1>2, <1>7, <1>9
<1> QED
  BY <1>1, <1>5, <1>6, <1>7, <1>9, <1>10, ClosingKeepsInv

\* ... and a proposal.
LEMMA ProposeKeepsInv ==
    ASSUME Inv, NEW v \in Voters, NEW req \in Requirements, ProposeEffect(v, req)
    PROVE  Inv'
<1> DEFINE n == [votes    |-> [u \in Voters |-> NoVote],
                 required |-> req,
                 approve  |-> 0, veto |-> 0, abstain |-> 0,
                 status   |-> "pending"]
           k == Len(proposals) + 1
<1>1. proposals \in Seq(Proposal) /\ DOMAIN proposals = 1..Len(proposals)
      /\ Len(proposals) \in Nat /\ active \subseteq DOMAIN proposals
  BY DEF Inv, TypeOK
<1>2. /\ proposals' = Append(proposals, n) /\ active' = active \cup {k}
      /\ authorized' = authorized /\ history' = history /\ lapsed' = lapsed
      /\ Cardinality(active) < MaxProposals
  BY DEF ProposeEffect
<1>3. n \in Proposal
  BY DEF Proposal, Statuses
<1>4. Counted(n) /\ Justified(n)
  <2>1. \A t \in VoteTypes : B!CastAs(n.votes, t) = {}
    BY DEF B!CastAs, VoteTypes, NoVote
  <2>2. B!Cast(n.votes) = {}
    BY DEF B!Cast, B!NoVote, NoVote
  <2>3. Counted(n)
    BY <2>1, FS_EmptySet DEF Counted, VoteTypes
  <2>4. ~B!VetoReached(0, 0)
    BY DEF B!VetoReached
  <2>5. req \in Nat \ {0}
    BY QuorumAssumption
  <2> QED
    BY <2>1, <2>2, <2>3, <2>4, <2>5, FS_EmptySet, SameCardinality
       DEF Justified, B!Verdict, VoteTypes
<1> HIDE DEF n
<1>5. /\ proposals' \in Seq(Proposal) /\ Len(proposals') = k
      /\ DOMAIN proposals' = DOMAIN proposals \cup {k}
      /\ k \notin DOMAIN proposals
      /\ proposals'[k] = n
      /\ \A i \in DOMAIN proposals : proposals'[i] = proposals[i]
  BY <1>1, <1>2, <1>3
<1>6. Cardinality(active') <= MaxProposals
  <2>1. IsFiniteSet(DOMAIN proposals)
    BY <1>1, FS_Interval
  <2>2. IsFiniteSet(active)
    BY <1>1, <2>1, FS_Subset
  <2>3. Cardinality(active') = Cardinality(active) + 1 /\ Cardinality(active) \in Nat
    BY <1>1, <1>2, <1>5, <2>2, FS_AddElement, FS_CardinalityType
  <2> QED
    BY <1>2, <2>3, QuorumAssumption
<1>7. history' \in Seq(DOMAIN proposals')
  BY <1>2, <1>5 DEF Inv, TypeOK
<1>8. TypeOK'
  BY <1>1, <1>2, <1>5, <1>6, <1>7 DEF Inv, TypeOK
<1>9. StatusIsVerdict'
  BY <1>4, <1>5 DEF Inv, StatusIsVerdict, Counted, Justified
<1>10. n.status = "pending"
  BY DEF n
<1>11. \A i \in DOMAIN history : history[i] \in DOMAIN proposals
  BY DEF Inv, TypeOK
<1>12. OnePlace'
  <2>1. \A id \in DOMAIN proposals' : id \in active' <=> proposals'[id].status = "pending"
    BY <1>1, <1>2, <1>5, <1>10 DEF Inv, OnePlace
  <2>2. \A i \in DOMAIN history' : history'[i] \notin active'
    BY <1>2, <1>5, <1>11 DEF Inv, OnePlace
  <2>3. DOMAIN proposals' \ active' = DOMAIN proposals \ active
    BY <1>1, <1>2, <1>5
  <2> QED
    BY <1>2, <2>1, <2>2, <2>3 DEF Inv, OnePlace
<1> QED
  BY <1>8, <1>9, <1>12 DEF Inv

\* There is no proposal at first.
LEMMA InvInit == Init => Inv
<1> SUFFICES ASSUME Init PROVE Inv
  OBVIOUS
<1>1. DOMAIN proposals = {} /\ DOMAIN history = {} /\ Len(proposals) = 0 /\ Len(history) = 0
  BY DEF Init
<1>2. TypeOK
  BY <1>1, FS_EmptySet, QuorumAssumption DEF Init, TypeOK
<1>3. StatusIsVerdict /\ OnePlace
  BY <1>1 DEF Init, StatusIsVerdict, OnePlace
<1> QED
  BY <1>2, <1>3 DEF Inv

\* Voters who come and go, time that passes: no proposal changes.
LEMMA RestKeepsInv ==
    ASSUME Inv, UNCHANGED <<proposals, active, history>>,
           authorized' \subseteq Voters, lapsed' \in 0..Len(proposals)
    PROVE  Inv'
BY DEF Inv, TypeOK, StatusIsVerdict, OnePlace

\* Every step keeps the invariant.
LEMMA InvNext == Inv /\ [Next]_vars => Inv'
<1> SUFFICES ASSUME Inv, [Next]_vars PROVE Inv'
  OBVIOUS
<1>1. /\ authorized \subseteq Voters /\ lapsed \in 0..Len(proposals)
      /\ Len(proposals) \in Nat
  BY DEF Inv, TypeOK
<1>2. ASSUME NEW v \in Voters, AddAuthorizedVoter(v) \/ RemoveAuthorizedVoter(v)
      PROVE  Inv'
  BY <1>1, <1>2, RestKeepsInv DEF AddAuthorizedVoter, RemoveAuthorizedVoter
<1>3. ASSUME NEW v \in Voters, NEW r \in Requirements, ProposeEffect(v, r)
      PROVE  Inv'
  BY <1>3, ProposeKeepsInv
<1>4. ASSUME NEW id \in active, NEW v \in Voters, NEW t \in VoteTypes,
             VoteOnProposal(id, v, t)
      PROVE  Inv'
  BY <1>4, VoteKeepsInv
<1>5. ASSUME NEW id \in active, CancelProposal(id)
      PROVE  Inv'
  BY <1>5, CancelKeepsInv
<1>6. CASE CleanupExpiredProposals
  BY <1>6, CleanupKeepsInv
<1>7. CASE TimePasses
  BY <1>1, <1>7, RestKeepsInv DEF TimePasses
<1>8. CASE UNCHANGED vars
  BY <1>1, <1>8, RestKeepsInv DEF vars
<1> QED
  BY <1>2, <1>3, <1>4, <1>5, <1>6, <1>7, <1>8 DEF Next

\* Counters, verdicts and places agree in every behaviour of the quorum authority.
THEOREM Invariance == Spec => []Inv
<1> QED
  BY InvInit, InvNext, PTL DEF Spec

\* The types, with the bounds of the table and of the history.
THEOREM TypeCorrect == Spec => []TypeOK
<1>1. Inv => TypeOK
  BY DEF Inv
<1> QED
  BY <1>1, Invariance, PTL

\* Whatever the voters, the threshold and the required numbers: the counters
\* agree with the votes, and the status is the one the votes justify.
THEOREM VerdictCorrect == Spec => []StatusIsVerdict
<1>1. Inv => StatusIsVerdict
  BY DEF Inv
<1> QED
  BY <1>1, Invariance, PTL

\* A proposal is in the table or in the history, once, until a full history
\* drops it.
THEOREM PlaceCorrect == Spec => []OnePlace
<1>1. Inv => OnePlace
  BY DEF Inv
<1> QED
  BY <1>1, Invariance, PTL

-----------------------------------------------------------------------------
(* The authority implements Ballot: each call maps to one step of Ballot or  *)
(* to none.                                                                  *)

\* No proposals are no ballots.
LEMMA RefinesInit == Init => B!Init
<1> SUFFICES ASSUME Init PROVE AsBallots = <<>>
  BY DEF B!Init
<1>1. DOMAIN AsBallots = {}
  BY DEF Init, AsBallots
<1> QED
  BY <1>1 DEF AsBallots, Init

AsBallot(p) == [votes |-> p.votes, required |-> p.required, status |-> p.status]

\* The ballots are the proposals without their counters.
LEMMA AsBallotsType ==
    ASSUME TypeOK
    PROVE  /\ AsBallots \in Seq({AsBallot(p) : p \in Proposal})
           /\ DOMAIN AsBallots = DOMAIN proposals /\ Len(AsBallots) = Len(proposals)
           /\ \A id \in DOMAIN proposals : AsBallots[id] = AsBallot(proposals[id])
<1>1. /\ DOMAIN proposals = 1..Len(proposals) /\ Len(proposals) \in Nat
      /\ \A id \in DOMAIN proposals : proposals[id] \in Proposal
  BY DEF TypeOK
<1>2. AsBallots = [id \in 1..Len(proposals) |-> AsBallot(proposals[id])]
  BY <1>1 DEF AsBallots, AsBallot
<1> QED
  BY <1>1, <1>2

\* A proposal opens a ballot.
LEMMA RefinesPropose ==
    ASSUME Inv, Inv', NEW v \in Voters, NEW req \in Requirements, ProposeEffect(v, req)
    PROVE  B!Open(req)
<1> DEFINE n == [votes    |-> [u \in Voters |-> NoVote],
                 required |-> req,
                 approve  |-> 0, veto |-> 0, abstain |-> 0,
                 status   |-> "pending"]
           b == [votes |-> [u \in Voters |-> B!NoVote], required |-> req,
                 status |-> "pending"]
           k == Len(proposals) + 1
<1>1. /\ proposals \in Seq(Proposal) /\ DOMAIN proposals = 1..Len(proposals)
      /\ Len(proposals) \in Nat
  BY DEF Inv, TypeOK
<1>2. n \in Proposal
  BY DEF Proposal, Statuses
<1>3. AsBallot(n) = b
  BY DEF AsBallot, NoVote, B!NoVote
<1> HIDE DEF n, b
<1>4. proposals' = Append(proposals, n)
  BY DEF ProposeEffect, n
<1>5. /\ DOMAIN proposals' = 1..k
      /\ proposals'[k] = n
      /\ \A i \in DOMAIN proposals : proposals'[i] = proposals[i]
  BY <1>1, <1>2, <1>4
<1>6. /\ AsBallots \in Seq({AsBallot(p) : p \in Proposal})
      /\ Len(AsBallots) = Len(proposals)
      /\ \A id \in DOMAIN proposals : AsBallots[id] = AsBallot(proposals[id])
  BY AsBallotsType DEF Inv
<1>7. AsBallots' = [id \in 1..k |-> AsBallot(proposals'[id])]
  BY <1>5 DEF AsBallots, AsBallot
<1>8. AsBallots' = Append(AsBallots, b)
  <2> DEFINE T == {AsBallot(p) : p \in Proposal}
             a == Append(AsBallots, b)
  <2>1. b \in T
    BY <1>2, <1>3
  <2> HIDE DEF T
  <2>2. /\ a \in Seq(T) /\ Len(a) = k /\ a[k] = b
        /\ \A i \in 1..Len(proposals) : a[i] = AsBallots[i]
    BY <1>1, <1>6, <2>1 DEF T
  <2> HIDE DEF a
  <2>3. a = [i \in 1..k |-> a[i]]
    BY <1>1, <2>2
  <2>4. \A i \in 1..k : a[i] = AsBallot(proposals'[i])
    BY <1>1, <1>3, <1>5, <1>6, <2>2
  <2> QED
    BY <1>7, <2>3, <2>4 DEF a
<1> QED
  BY <1>8 DEF B!Open, b

\* A vote on a proposal is a vote on its ballot, with the same verdict.
LEMMA RefinesVote ==
    ASSUME Inv, NEW id \in active, NEW v \in Voters, NEW t \in VoteTypes,
           VoteOnProposal(id, v, t)
    PROVE  B!VoteOn(id, v, t)
<1> DEFINE p == proposals[id]
           r == Recorded(p, v, t)
           d == [r EXCEPT !.status = Decision(r)]
           w == [p.votes EXCEPT ![v] = t]
<1>1. /\ p \in Proposal /\ id \in DOMAIN proposals /\ proposals \in Seq(Proposal)
      /\ DOMAIN proposals = 1..Len(proposals)
  BY DEF Inv, TypeOK
<1>2. p.status = "pending" /\ p.votes[v] = NoVote /\ Counted(p)
  BY <1>1 DEF VoteOnProposal, CanVote, Inv, StatusIsVerdict, Counted
<1>3. r \in Proposal /\ Counted(r) /\ r.votes = w /\ r.required = p.required
  BY <1>1, <1>2, RecordedIsCounted
<1>4. AsBallot(d) = [votes |-> w, required |-> p.required,
                     status |-> B!Verdict(w, p.required)]
  <2>1. Decision(r) = B!Verdict(w, p.required)
    BY <1>3, DecisionIsVerdict
  <2> HIDE DEF r
  <2> QED
    BY <1>3, <2>1 DEF AsBallot, Proposal
<1>5. proposals' = [proposals EXCEPT ![id] = d]
  BY DEF VoteOnProposal
<1> HIDE DEF d, r
<1>6. /\ DOMAIN proposals' = DOMAIN proposals /\ proposals'[id] = d
      /\ \A i \in DOMAIN proposals : i # id => proposals'[i] = proposals[i]
  BY <1>1, <1>5
<1>7. /\ AsBallots = [i \in DOMAIN proposals |-> AsBallot(proposals[i])]
      /\ AsBallots' = [i \in DOMAIN proposals |-> AsBallot(proposals'[i])]
  BY <1>6 DEF AsBallots, AsBallot
<1>8. AsBallots[id] = [votes |-> p.votes, required |-> p.required, status |-> "pending"]
  BY <1>1, <1>2, <1>7 DEF AsBallot
<1>9. AsBallots' = [AsBallots EXCEPT ![id] = AsBallot(d)]
  BY <1>1, <1>6, <1>7
<1>10. AsBallots' = [AsBallots EXCEPT ![id] =
                        [votes    |-> w,
                         required |-> AsBallots[id].required,
                         status   |-> B!Verdict(w, AsBallots[id].required)]]
  <2>1. AsBallots[id].required = p.required
    BY <1>8
  <2> QED
    BY <1>4, <1>9, <2>1
<1> QED
  BY <1>2, <1>8, <1>10 DEF B!VoteOn, NoVote, B!NoVote

\* Cancelling and cleaning up close a set of ballots.
LEMMA RefinesClose ==
    ASSUME Inv, NEW S \in SUBSET active, NEW s,
           proposals' = [id \in DOMAIN proposals |->
                            IF id \in S THEN [proposals[id] EXCEPT !.status = s]
                            ELSE proposals[id]]
    PROVE  B!Close(S, s)
<1>1. /\ S \subseteq DOMAIN proposals
      /\ \A id \in S : proposals[id].status = "pending"
      /\ \A id \in DOMAIN proposals : proposals[id] \in Proposal
  BY DEF Inv, TypeOK, OnePlace
<1>2. /\ AsBallots = [i \in DOMAIN proposals |-> AsBallot(proposals[i])]
      /\ AsBallots' = [i \in DOMAIN proposals |-> AsBallot(proposals'[i])]
  BY DEF AsBallots, AsBallot
<1>3. \A p \in Proposal : AsBallot([p EXCEPT !.status = s])
                              = [AsBallot(p) EXCEPT !.status = s]
  BY DEF Proposal, AsBallot
<1>4. \A p \in Proposal : AsBallot(p).status = p.status
  BY DEF AsBallot
<1>5. \A id \in DOMAIN proposals :
        AsBallots'[id] = IF id \in S THEN [AsBallots[id] EXCEPT !.status = s]
                         ELSE AsBallots[id]
  BY <1>1, <1>2, <1>3
<1> QED
  BY <1>1, <1>2, <1>4, <1>5 DEF B!Close

\* Every step is a step of Ballot or none.
LEMMA RefinesNext == Inv /\ Inv' /\ [Next]_vars => [B!Next]_AsBallots
<1> SUFFICES ASSUME Inv, Inv', [Next]_vars PROVE [B!Next]_AsBallots
  OBVIOUS
<1>1. /\ DOMAIN AsBallots = DOMAIN proposals /\ active \subseteq DOMAIN proposals
      /\ B!VoteTypes = VoteTypes
  BY DEF AsBallots, Inv, TypeOK, VoteTypes, B!VoteTypes
<1>2. ASSUME UNCHANGED proposals PROVE UNCHANGED AsBallots
  BY <1>2 DEF AsBallots
<1>3. ASSUME NEW v \in Voters, AddAuthorizedVoter(v) \/ RemoveAuthorizedVoter(v)
      PROVE  UNCHANGED AsBallots
  BY <1>2, <1>3 DEF AddAuthorizedVoter, RemoveAuthorizedVoter
<1>4. ASSUME NEW v \in Voters, NEW r \in Requirements, ProposeEffect(v, r)
      PROVE  B!Next
  BY <1>4, RefinesPropose DEF B!Next
<1>5. ASSUME NEW id \in active, NEW v \in Voters, NEW t \in VoteTypes,
             VoteOnProposal(id, v, t)
      PROVE  B!Next
  BY <1>1, <1>5, RefinesVote DEF B!Next
<1>6. ASSUME NEW id \in active, CancelProposal(id)
      PROVE  B!Next
  <2>1. proposals' = [i \in DOMAIN proposals |->
                         IF i \in {id} THEN [proposals[i] EXCEPT !.status = "cancelled"]
                         ELSE proposals[i]]
    BY <1>1, <1>6 DEF CancelProposal, Inv, TypeOK
  <2>2. B!Close({id}, "cancelled")
    BY <2>1, RefinesClose
  <2> QED
    BY <1>1, <2>2 DEF B!Next
<1>7. CASE CleanupExpiredProposals
  <2> DEFINE E == {id \in active : IsExpired(id)}
  <2>1. proposals' = [id \in DOMAIN proposals |->
                         IF id \in E THEN [proposals[id] EXCEPT !.status = "expired"]
                         ELSE proposals[id]]
    BY <1>7 DEF CleanupExpiredProposals
  <2>2. E \subseteq active
    OBVIOUS
  <2> HIDE DEF E
  <2>3. B!Close(E, "expired")
    BY <2>1, <2>2, RefinesClose
  <2> QED
    BY <1>1, <2>2, <2>3 DEF B!Next
<1>8. CASE TimePasses
  BY <1>2, <1>8 DEF TimePasses
<1>9. CASE UNCHANGED vars
  BY <1>2, <1>9 DEF vars
<1> QED
  BY <1>3, <1>4, <1>5, <1>6, <1>7, <1>8, <1>9 DEF Next

\* The authority, with its counters, its table, its history and its clock, only
\* ever opens, votes on and closes ballots by the rules of Ballot.
THEOREM QuorumImplementsBallot == Spec => ImplementsBallot
<1>1. Init => B!Init
  BY RefinesInit
<1>2. Inv /\ Inv' /\ [Next]_vars => [B!Next]_AsBallots
  BY RefinesNext
<1> QED
  BY <1>1, <1>2, Invariance, PTL DEF Spec, ImplementsBallot, B!Spec

\* What that buys: no step changes a vote that was cast, or a proposal that is
\* no longer pending, or forgets a proposal.
BallotsFinal ==
    \A id \in DOMAIN proposals :
        /\ id \in DOMAIN proposals'
        /\ proposals[id].status # "pending" =>
              /\ proposals'[id].status = proposals[id].status
              /\ proposals'[id].votes = proposals[id].votes
        /\ \A v \in Voters : proposals[id].votes[v] # NoVote =>
              proposals'[id].votes[v] = proposals[id].votes[v]

\* A ballot of Ballot never changes once it is closed, nor does a vote.
LEMMA BallotStepIsFinal ==
    ASSUME [B!Next]_AsBallots, NEW b \in DOMAIN AsBallots,
           AsBallots \in Seq({AsBallot(p) : p \in Proposal})
    PROVE  /\ b \in DOMAIN AsBallots'
           /\ AsBallots[b].status # "pending" => AsBallots'[b] = AsBallots[b]
           /\ \A v \in Voters : AsBallots[b].votes[v] # NoVote =>
                 AsBallots'[b].votes[v] = AsBallots[b].votes[v]
<1> DEFINE Final == /\ b \in DOMAIN AsBallots'
                    /\ AsBallots[b].status # "pending" => AsBallots'[b] = AsBallots[b]
                    /\ \A v \in Voters : AsBallots[b].votes[v] # NoVote =>
                          AsBallots'[b].votes[v] = AsBallots[b].votes[v]
<1>1. PICK p \in Proposal : AsBallots[b] = AsBallot(p)
  OBVIOUS
<1>2. AsBallots[b].votes \in [Voters -> VoteTypes \cup {NoVote}]
  BY <1>1 DEF AsBallot, Proposal
<1>3. ASSUME NEW r \in Requirements, B!Open(r)
      PROVE  Final
  BY <1>3 DEF B!Open
<1>4. ASSUME NEW c \in DOMAIN AsBallots, NEW v \in Voters, NEW t \in B!VoteTypes,
             B!VoteOn(c, v, t)
      PROVE  Final
  BY <1>2, <1>4 DEF B!VoteOn, NoVote, B!NoVote
<1>5. ASSUME NEW S \in SUBSET DOMAIN AsBallots, NEW o, B!Close(S, o)
      PROVE  Final
  BY <1>1, <1>5 DEF B!Close, AsBallot
<1> QED
  BY <1>3, <1>4, <1>5 DEF B!Next

\* Votes and verdicts are final: voters who leave and return, expiry, cleanup
\* and full tables change none of them.
THEOREM VerdictsAreFinal == Spec => [][BallotsFinal]_vars
<1>1. ASSUME Inv, Inv', [Next]_vars PROVE BallotsFinal
  <2> SUFFICES ASSUME NEW id \in DOMAIN proposals
               PROVE  /\ id \in DOMAIN proposals'
                      /\ proposals[id].status # "pending" =>
                            /\ proposals'[id].status = proposals[id].status
                            /\ proposals'[id].votes = proposals[id].votes
                      /\ \A v \in Voters : proposals[id].votes[v] # NoVote =>
                            proposals'[id].votes[v] = proposals[id].votes[v]
    BY DEF BallotsFinal
  <2>1. /\ AsBallots \in Seq({AsBallot(p) : p \in Proposal})
        /\ DOMAIN AsBallots = DOMAIN proposals
        /\ AsBallots[id] = AsBallot(proposals[id])
    BY <1>1, AsBallotsType DEF Inv
  <2>2. [B!Next]_AsBallots
    BY <1>1, RefinesNext
  <2>3. /\ id \in DOMAIN AsBallots'
        /\ AsBallots[id].status # "pending" => AsBallots'[id] = AsBallots[id]
        /\ \A v \in Voters : AsBallots[id].votes[v] # NoVote =>
              AsBallots'[id].votes[v] = AsBallots[id].votes[v]
    BY <2>1, <2>2, BallotStepIsFinal
  <2>4. DOMAIN AsBallots' = DOMAIN proposals'
    BY DEF AsBallots
  <2>5. AsBallots'[id] = AsBallot(proposals'[id])
    BY <2>3, <2>4 DEF AsBallots, AsBallot
  <2> QED
    BY <2>1, <2>3, <2>4, <2>5 DEF AsBallot
<1> QED
  BY <1>1, Invariance, PTL DEF Spec
=============================================================================
