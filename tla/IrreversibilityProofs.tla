----------------------- MODULE IrreversibilityProofs -----------------------
(***************************************************************************)
(* The irreversibility authority for any effect types, bounds and calls:   *)
(* the epochs stay in order and implement EpochLedger whatever concurrent  *)
(* executions do, the table of pending requests stays right, and what is   *)
(* counted and recorded is what has happened.                              *)
(***************************************************************************)
EXTENDS IrreversibilityAuthority, SequenceTheorems, FiniteSetTheorems, TLAPS

EpochInv == EpochTypeOK /\ EpochsInOrder

\* What the await points of a call guarantee about its token: a token belongs
\* to the call it was granted to, and only a granted one is ever settled.
CallInv ==
    \A x \in Calls :
        /\ call[x].pc \in {"new", "request"} => auth[x].status = "none"
        /\ auth[x].status # "none" => call[x].type \in Types
        /\ call[x].pc \in {"request", "recheck", "effect"} => call[x].type \in Types
        /\ call[x].pc \in {"recheck", "effect"} =>
               call[x].token \in Calls /\ auth[call[x].token].status # "none"

GateInv == GateTypeOK /\ CallInv /\ PendingIsOpen

CountInv == total \in Nat /\ succeeded \in Nat /\ failed \in Nat

Inv == EpochInv /\ GateInv /\ CountInv

\* What a turn does to the gate and the epochs, whichever operation of the
\* authority it is a turn of.
FirstTurn(x) ==
    \E kind \in {"request", "flow"} :
        \/ Refuse(x, kind)
        \/ \E type \in Types : AwaitPhysics(x, kind, type) \/ GrantAtOnce(x, kind, type)

PhysicsAnswers(x) ==
    GrantChecked(x) \/ RefuseChecked(x) \/ RecheckPasses(x) \/ RecheckBlocks(x)

GateTurn(x) ==
    \/ FirstTurn(x)
    \/ \E t \in Calls : ExecuteWithAuthorization(x, t)
    \/ PhysicsAnswers(x) \/ EffectDone(x) \/ EffectRaises(x)

-----------------------------------------------------------------------------
(* Epochs. *)

\* Everything a step can do to the epochs.
EpochStep ==
    \/ CreateEpoch \/ CloseEpoch \/ EpochLapses
    \/ \E type \in Types : CommitEffect(type)
    \/ UNCHANGED epochVars

\* A function on 1..n is a sequence.
LEMMA MappedIsSeq ==
    ASSUME NEW S, NEW n \in Nat, NEW f \in [1..n -> S]
    PROVE  f \in Seq(S) /\ Len(f) = n
OBVIOUS

\* What a sequence with one more element looks like, read backwards.
LEMMA AppendedIs ==
    ASSUME NEW S, NEW s \in Seq(S), NEW x \in S, NEW t \in Seq(S),
           Len(t) = Len(s) + 1, t[Len(s) + 1] = x,
           \A i \in 1..Len(s) : t[i] = s[i]
    PROVE  t = Append(s, x)
<1>1. /\ Append(s, x) \in Seq(S) /\ Len(Append(s, x)) = Len(s) + 1
      /\ \A i \in 1..(Len(s) + 1) : Append(s, x)[i] = IF i = Len(s) + 1 THEN x ELSE s[i]
  OBVIOUS
<1>2. \A i \in 1..(Len(s) + 1) : t[i] = Append(s, x)[i]
  BY <1>1
<1> QED
  BY <1>1, <1>2, SeqEqual

\* There is no epoch at first.
LEMMA EpochInvInit == EpochInit => EpochInv
BY EpochAssumption DEF EpochInit, EpochInv, EpochTypeOK, EpochsInOrder, KeepsLast, NoEpoch

\* Filing the current epoch keeps the history in order.
LEMMA ClosingKeepsOrder ==
    ASSUME EpochInv, current # NoEpoch
    PROVE  /\ current = Len(epochs) /\ current \in 1..Len(epochs)
           /\ ClosedHistory \in Seq(1..Len(epochs))
           /\ KeepsLast(ClosedHistory, Len(epochs))
<1>1. /\ current = Len(epochs) /\ Len(epochs) \in Nat \ {0}
      /\ epochHistory \in Seq(1..Len(epochs))
      /\ MaxHistory \in Nat \ {0}
  BY EpochAssumption DEF EpochInv, EpochTypeOK, EpochsInOrder, NoEpoch
<1> DEFINE n == Len(epochs)
           k == Len(epochHistory)
           h == Append(epochHistory, n)
<1>2. /\ k = IF n - 1 > MaxHistory THEN MaxHistory ELSE n - 1
      /\ \A i \in 1..k : epochHistory[i] = n - 1 - k + i
  BY <1>1 DEF EpochInv, EpochsInOrder, KeepsLast
<1>3. h \in Seq(1..n) /\ Len(h) = k + 1 /\ k \in Nat
  BY <1>1
<1>4. \A i \in 1..(k + 1) : h[i] = n - (k + 1) + i
  <2>1. \A i \in 1..k : h[i] = epochHistory[i]
    BY <1>1
  <2>2. h[k + 1] = n
    BY <1>1
  <2> HIDE DEF h
  <2>3. TAKE i \in 1..(k + 1)
  <2>4. CASE i \in 1..k
    <3>1. h[i] = n - 1 - k + i
      BY <1>2, <2>1, <2>4
    <3> HIDE DEF k, n
    <3> QED
      BY <1>1, <1>3, <2>4, <3>1 DEF n
  <2>5. CASE i = k + 1
    <3> HIDE DEF k
    <3> QED
      BY <1>1, <1>3, <2>2, <2>5
  <2> QED
    BY <1>3, <2>4, <2>5
<1>5. ClosedHistory = TrimHistory(h)
  BY <1>1 DEF ClosedHistory
<1> HIDE DEF h
<1>6. CASE k + 1 <= MaxHistory
  <2>1. ClosedHistory = h
    BY <1>1, <1>3, <1>5, <1>6 DEF TrimHistory
  <2>2. k + 1 = n
    BY <1>1, <1>2, <1>3, <1>6
  <2> HIDE DEF k
  <2> QED
    BY <1>1, <1>3, <1>4, <1>6, <2>1, <2>2 DEF KeepsLast
<1>7. CASE k + 1 > MaxHistory
  <2>1. ClosedHistory = Tail(h) /\ k = MaxHistory
    BY <1>1, <1>2, <1>3, <1>5, <1>7 DEF TrimHistory
  <2>2. /\ Tail(h) \in Seq(1..n) /\ Len(Tail(h)) = k
        /\ \A i \in 1..k : Tail(h)[i] = h[i + 1]
    BY <1>3
  <2>3. \A i \in 1..k : ClosedHistory[i] = n - k + i
    <3> TAKE i \in 1..k
    <3>1. i + 1 \in 1..(k + 1) /\ ClosedHistory[i] = h[i + 1]
      BY <1>3, <2>1, <2>2
    <3>2. h[i + 1] = n - (k + 1) + (i + 1)
      BY <1>4, <3>1
    <3> QED
      BY <1>1, <1>3, <3>1, <3>2
  <2> QED
    <3>1. n > MaxHistory
      BY <1>1, <1>2, <1>3, <1>7, <2>1
    <3>2. Len(ClosedHistory) = k
      BY <2>1, <2>2
    <3>3. ClosedHistory \in Seq(1..n)
      BY <2>1, <2>2
    <3> HIDE DEF k
    <3>4. Len(ClosedHistory) = MaxHistory
          /\ \A i \in 1..Len(ClosedHistory) :
                ClosedHistory[i] = n - Len(ClosedHistory) + i
      BY <2>1, <2>3, <3>2
    <3>5. KeepsLast(ClosedHistory, n)
      BY <3>1, <3>4 DEF KeepsLast
    <3> QED
      BY <1>1, <3>3, <3>5
<1> QED
  BY <1>1, <1>3, <1>6, <1>7

\* Appending an effect leaves an epoch an epoch.
LEMMA RecordingKeepsType ==
    ASSUME NEW S, NEW s \in S,
           NEW e \in [effects : S, status : {"open", "closed"}, late : BOOLEAN]
    PROVE  /\ [e EXCEPT !.effects = s]
                 \in [effects : S, status : {"open", "closed"}, late : BOOLEAN]
           /\ [e EXCEPT !.effects = s].status = e.status
OBVIOUS

\* Closing the current epoch closes the only open one and touches no effects.
LEMMA ClosingCloses ==
    ASSUME EpochInv, current # NoEpoch
    PROVE  /\ ClosedEpochs \in Seq(EpochRecord) /\ Len(ClosedEpochs) = Len(epochs)
           /\ \A e \in 1..Len(epochs) : /\ ClosedEpochs[e].status = "closed"
                                        /\ ClosedEpochs[e].effects = epochs[e].effects
<1> DEFINE n == Len(epochs)
<1>1. /\ epochs \in Seq(EpochRecord) /\ n \in Nat /\ current \in 1..n
      /\ \A e \in 1..n : epochs[e].status = "open" <=> e = current
  BY DEF EpochInv, EpochTypeOK, EpochsInOrder, NoEpoch
<1>2. \A e \in 1..n : epochs[e] \in EpochRecord
  BY <1>1
<1> DEFINE c == [epochs[current] EXCEPT !.status = "closed"]
<1>3. c \in EpochRecord /\ c.status = "closed" /\ c.effects = epochs[current].effects
  BY <1>1, <1>2 DEF EpochRecord
<1>4. ClosedEpochs = [epochs EXCEPT ![current] = c]
  BY DEF ClosedEpochs
<1> HIDE DEF c
<1>5. \A e \in 1..n : e # current => epochs[e].status = "closed"
  BY <1>1, <1>2 DEF EpochRecord
<1> QED
  BY <1>1, <1>3, <1>4, <1>5

\* Every step of the epoch authority keeps the invariant of the epochs.
LEMMA EpochInvStep == ASSUME EpochInv, EpochStep PROVE EpochInv'
<1> DEFINE n == Len(epochs)
<1>1. /\ epochs \in Seq(EpochRecord) /\ n \in Nat
      /\ epochHistory \in Seq(1..n) /\ Len(epochHistory) <= MaxHistory
      /\ MaxHistory \in Nat \ {0}
      /\ current \in {NoEpoch, n} /\ NoEpoch = 0
      /\ \A e \in 1..n : epochs[e].status = "open" <=> e = current
  BY EpochAssumption DEF EpochInv, EpochTypeOK, EpochsInOrder, NoEpoch
<1>10. \A e \in 1..n : epochs[e] \in EpochRecord
  BY <1>1
<1>9. ASSUME current # NoEpoch PROVE current \in 1..n /\ epochs[current] \in EpochRecord
  <2>1. current \in 1..n
    BY <1>1, <1>9
  <2> QED
    BY <1>1, <2>1
<1>2. ASSUME current # NoEpoch
      PROVE  /\ ClosedEpochs \in Seq(EpochRecord) /\ Len(ClosedEpochs) = n
             /\ \A e \in 1..n : ClosedEpochs[e].status = "closed"
  BY <1>2, ClosingCloses
<1>3. CASE CloseEpoch
  <2>1. current # NoEpoch /\ epochs' = ClosedEpochs /\ epochHistory' = ClosedHistory
        /\ current' = NoEpoch
    BY <1>3 DEF CloseEpoch
  <2>2. Len(epochHistory') <= MaxHistory
    BY <1>1, <2>1, ClosingKeepsOrder DEF KeepsLast
  <2>3. EpochTypeOK'
    BY <1>1, <1>2, <2>1, <2>2, ClosingKeepsOrder DEF EpochTypeOK, EpochRecord
  <2>4. EpochsInOrder'
    <3>1. KeepsLast(epochHistory', n)
      BY <2>1, ClosingKeepsOrder
    <3>2. DOMAIN epochs' = 1..n /\ Len(epochs') = n
      BY <1>2, <2>1
    <3>3. \A e \in DOMAIN epochs' : epochs'[e].status # "open" /\ e # NoEpoch
      <4>1. \A e \in 1..n : epochs'[e].status = "closed"
        BY <1>2, <2>1
      <4>2. \A e \in 1..n : e # NoEpoch
        BY <1>1
      <4> QED
        BY <3>2, <4>1, <4>2
    <3> QED
      BY <2>1, <3>1, <3>2, <3>3 DEF EpochsInOrder, KeepsLast
  <2> QED
    BY <2>3, <2>4 DEF EpochInv
<1>4. CASE CreateEpoch
  <2> DEFINE base == IF current # NoEpoch THEN ClosedEpochs ELSE epochs
             new  == [effects |-> <<>>, status |-> "open", late |-> FALSE]
  <2>1. /\ epochs' = Append(base, new) /\ current' = n + 1
        /\ epochHistory' = IF current # NoEpoch THEN ClosedHistory ELSE epochHistory
    BY <1>4 DEF CreateEpoch
  <2>2. base \in Seq(EpochRecord) /\ Len(base) = n /\ \A e \in 1..n : base[e].status = "closed"
    <3>1. CASE current # NoEpoch BY <1>2, <3>1
    <3>2. CASE current = NoEpoch
      <4>1. \A e \in 1..n : epochs[e].status # "open"
        BY <1>1, <3>2
      <4>2. \A e \in 1..n : epochs[e].status \in {"open", "closed"}
        BY <1>10 DEF EpochRecord
      <4> QED BY <1>1, <3>2, <4>1, <4>2
    <3> QED BY <3>1, <3>2
  <2>3. new \in EpochRecord
    BY DEF EpochRecord
  <2> HIDE DEF base, new
  <2>4. /\ epochs' \in Seq(EpochRecord) /\ Len(epochs') = n + 1
        /\ \A e \in 1..n : epochs'[e] = base[e]
        /\ epochs'[n + 1] = new
    BY <1>1, <2>1, <2>2, <2>3
  <2>5. \A e \in 1..(n + 1) : epochs'[e].status = "open" <=> e = n + 1
    <3>1. TAKE e \in 1..(n + 1)
    <3>2. CASE e \in 1..n
      <4>1. epochs'[e].status = "closed"
        BY <2>2, <2>4, <3>2
      <4>2. e # n + 1
        BY <1>1, <3>2
      <4> QED
        BY <4>1, <4>2
    <3>3. CASE e = n + 1
      BY <2>4, <3>3 DEF new
    <3> QED
      BY <1>1, <3>2, <3>3
  <2>6. /\ epochHistory' \in Seq(1..n)
        /\ KeepsLast(epochHistory', n)
    <3>1. CASE current # NoEpoch BY <2>1, <3>1, ClosingKeepsOrder
    <3>2. CASE current = NoEpoch
      BY <1>1, <2>1, <3>2 DEF EpochInv, EpochsInOrder, KeepsLast
    <3> QED BY <3>1, <3>2
  <2>7. EpochTypeOK'
    <3>1. epochHistory' \in Seq(1..(n + 1))
      BY <1>1, <2>6
    <3>2. Len(epochHistory') <= MaxHistory
      BY <1>1, <2>6 DEF KeepsLast
    <3> QED
      BY <1>1, <2>1, <2>4, <3>1, <3>2 DEF EpochTypeOK, EpochRecord
  <2>8. EpochsInOrder'
    <3>1. n + 1 # NoEpoch /\ DOMAIN epochs' = 1..(n + 1) /\ n + 1 - 1 = n
      BY <1>1, <2>4
    <3>2. current' # NoEpoch /\ current' = Len(epochs') /\ Len(epochs') - 1 = n
      BY <2>1, <2>4, <3>1
    <3>3. KeepsLast(epochHistory', n) /\ MaxHistory' = MaxHistory
      BY <2>6
    <3>4. \A e \in DOMAIN epochs' : epochs'[e].status = "open" <=> e = current'
      BY <2>1, <2>5, <3>1
    <3> QED
      BY <3>2, <3>3, <3>4 DEF EpochsInOrder, KeepsLast
  <2> QED
    BY <2>7, <2>8 DEF EpochInv
\* The other steps change one field of the current epoch at most.
<1>5. ASSUME epochs' \in Seq(EpochRecord), Len(epochs') = n,
             \A e \in 1..n : epochs'[e].status = epochs[e].status,
             current' = current, epochHistory' = epochHistory
      PROVE  EpochInv'
  <2>1. EpochTypeOK'
    BY <1>1, <1>5 DEF EpochTypeOK, EpochInv, EpochRecord
  <2>3. DOMAIN epochs' = 1..n /\ DOMAIN epochs = 1..n
    BY <1>1, <1>5
  <2>2. EpochsInOrder'
    <3>1. /\ current \in {NoEpoch, n}
          /\ \A e \in 1..n : epochs[e].status = "open" <=> e = current
          /\ KeepsLast(epochHistory, IF current = NoEpoch THEN n ELSE n - 1)
      BY <2>3 DEF EpochsInOrder, EpochInv
    <3>2. /\ current' \in {NoEpoch, n}
          /\ \A e \in 1..n : epochs'[e].status = "open" <=> e = current'
          /\ KeepsLast(epochHistory', IF current' = NoEpoch THEN n ELSE n - 1)
      BY <1>5, <3>1
    <3> HIDE DEF n
    <3> QED
      BY <1>5, <2>3, <3>2 DEF EpochsInOrder, KeepsLast
  <2> QED
    BY <2>1, <2>2 DEF EpochInv
<1>6. CASE EpochLapses
  <2>1. current \in 1..n /\ epochs[current] \in EpochRecord
    BY <1>6, <1>9 DEF EpochLapses
  <2>2. /\ [epochs[current] EXCEPT !.late = TRUE] \in EpochRecord
        /\ [epochs[current] EXCEPT !.late = TRUE].status = epochs[current].status
    BY <2>1 DEF EpochRecord
  <2>3. epochs' = [epochs EXCEPT ![current] = [epochs[current] EXCEPT !.late = TRUE]]
    BY <1>6 DEF EpochLapses
  <2>4. epochs' \in Seq(EpochRecord) /\ Len(epochs') = n
        /\ \A e \in 1..n : epochs'[e].status = epochs[e].status
    BY <1>1, <2>1, <2>2, <2>3
  <2> QED
    BY <1>5, <1>6, <2>4 DEF EpochLapses
<1>7. ASSUME NEW type \in Types, CommitEffect(type) PROVE EpochInv'
  <2>1. CASE CanCommitEffect(type)
    <3> DEFINE r == [epochs[current] EXCEPT !.effects = Append(@, type)]
    <3>1. current \in 1..n /\ epochs[current] \in EpochRecord
      BY <1>9, <2>1 DEF CanCommitEffect
    <3>2. r \in EpochRecord /\ r.status = epochs[current].status
      <4>1. Append(epochs[current].effects, type) \in Seq(Types)
        BY <1>7, <3>1 DEF EpochRecord
      <4> QED
        BY <3>1, <4>1, RecordingKeepsType DEF EpochRecord
    <3>3. epochs' = [epochs EXCEPT ![current] = r]
      BY <1>7, <2>1 DEF CommitEffect
    <3> HIDE DEF r
    <3>4. epochs' \in Seq(EpochRecord) /\ Len(epochs') = n
          /\ \A e \in 1..n : epochs'[e].status = epochs[e].status
      BY <1>1, <3>1, <3>2, <3>3
    <3> QED
      BY <1>5, <1>7, <3>4 DEF CommitEffect
  <2>2. CASE ~CanCommitEffect(type)
    BY <1>1, <1>5, <1>7, <2>2 DEF CommitEffect
  <2> QED
    BY <2>1, <2>2
<1>8. CASE UNCHANGED epochVars
  BY <1>1, <1>5, <1>8 DEF epochVars
<1> QED
  BY <1>3, <1>4, <1>6, <1>7, <1>8 DEF EpochStep

-----------------------------------------------------------------------------
(* The gate. *)

\* No call has begun at first.
LEMMA GateInvInit == GateInit => GateInv
BY GateAssumption
DEF GateInit, GateInv, GateTypeOK, CallInv, PendingIsOpen, AuthStatuses, Kinds, Points, Answers

CallRecord == [kind : Kinds, pc : Points, type : Types \cup {"none"},
               token : Calls \cup {NoToken}, answer : Answers]

\* What a step does to the requests if it is to keep GateInv: they stay well
\* formed, the table stays right, and none is granted except to S, or forgotten.
RequestsKept(S) ==
    /\ auth' \in [Calls -> [status : AuthStatuses, late : BOOLEAN]]
    /\ pending' \in SUBSET Calls
    /\ filed' \in [Calls -> Nat]
    /\ PendingIsOpen'
    /\ \A t \in Calls : auth[t].status # "none" => auth'[t].status # "none"
    /\ \A t \in Calls \ S : auth'[t].status # "none" => auth[t].status # "none"

\* It is enough to look at the call that moves.
LEMMA CallStep ==
    ASSUME GateInv, NEW x \in Calls, NEW S \in SUBSET {x}, RequestsKept(S),
           NEW c \in CallRecord, call' = [call EXCEPT ![x] = c],
           c.pc \in {"new", "request"} => auth'[x].status = "none",
           auth'[x].status # "none" => c.type \in Types,
           c.pc \in {"request", "recheck", "effect"} => c.type \in Types,
           c.pc \in {"recheck", "effect"} =>
               c.token \in Calls /\ auth'[c.token].status # "none"
    PROVE  GateInv'
<1>1. call \in [Calls -> CallRecord]
  BY DEF GateInv, GateTypeOK, CallRecord
<1>2. call' \in [Calls -> CallRecord] /\ call'[x] = c
      /\ \A y \in Calls \ {x} : call'[y] = call[y]
  BY <1>1
<1>3. GateTypeOK'
  BY <1>2 DEF GateTypeOK, RequestsKept, CallRecord
<1>4. CallInv'
  <2> SUFFICES ASSUME NEW y \in Calls
               PROVE  /\ call'[y].pc \in {"new", "request"} => auth'[y].status = "none"
                      /\ auth'[y].status # "none" => call'[y].type \in Types
                      /\ call'[y].pc \in {"request", "recheck", "effect"} =>
                             call'[y].type \in Types
                      /\ call'[y].pc \in {"recheck", "effect"} =>
                             /\ call'[y].token \in Calls
                             /\ auth'[call'[y].token].status # "none"
    BY DEF CallInv
  <2>1. CASE y = x
    BY <1>2, <2>1
  <2>2. CASE y # x
    BY <1>2, <2>2 DEF GateInv, CallInv, RequestsKept
  <2> QED
    BY <2>1, <2>2
<1> QED
  BY <1>3, <1>4 DEF GateInv, RequestsKept

\* A step that touches no request keeps the requests.
LEMMA UntouchedIsKept ==
    ASSUME GateInv, UNCHANGED <<auth, pending, filed>>
    PROVE  RequestsKept({})
BY DEF GateInv, GateTypeOK, PendingIsOpen, RequestsKept

\* So does one that settles a request, whatever it was before.
LEMMA SettledIsKept ==
    ASSUME GateInv, NEW t \in Calls, auth[t].status # "none",
           NEW s \in {"rejected", "expired", "executed", "cancelled"}, Settle(t, s)
    PROVE  RequestsKept({})
<1>1. /\ auth \in [Calls -> [status : AuthStatuses, late : BOOLEAN]]
      /\ pending \in SUBSET Calls /\ filed \in [Calls -> Nat]
      /\ auth' = [auth EXCEPT ![t] = [auth[t] EXCEPT !.status = s]]
      /\ filed' = [filed EXCEPT ![t] = filed[t] + 1]
      /\ pending' = pending \ {t}
  BY DEF GateInv, GateTypeOK, Settle
<1>2. /\ [auth[t] EXCEPT !.status = s] \in [status : AuthStatuses, late : BOOLEAN]
      /\ [auth[t] EXCEPT !.status = s].status = s
  BY <1>1 DEF AuthStatuses
<1>3. /\ auth' \in [Calls -> [status : AuthStatuses, late : BOOLEAN]]
      /\ auth'[t].status = s /\ \A u \in Calls \ {t} : auth'[u] = auth[u]
  BY <1>1, <1>2
<1>4. /\ filed' \in [Calls -> Nat] /\ filed'[t] > 0
      /\ \A u \in Calls \ {t} : filed'[u] = filed[u]
  <2>1. filed[t] \in Nat
    BY <1>1
  <2>2. filed[t] + 1 \in Nat /\ filed[t] + 1 > 0
    BY <2>1
  <2> QED
    BY <1>1, <2>2
<1>5. s \notin {"none", "pending"}
  OBVIOUS
<1>6. PendingIsOpen'
  BY <1>1, <1>3, <1>4, <1>5 DEF GateInv, PendingIsOpen
<1> QED
  BY <1>1, <1>3, <1>4, <1>5, <1>6 DEF RequestsKept

\* A request that is granted keeps the invariant.
LEMMA GrantedKeepsInv ==
    ASSUME GateInv, NEW x \in Calls, NEW type \in Types,
           NEW kind \in Kinds,
           call[x].pc \in {"new", "request"}, Granted(x, kind, type)
    PROVE  GateInv'
<1>1. /\ auth \in [Calls -> [status : AuthStatuses, late : BOOLEAN]]
      /\ pending \in SUBSET Calls /\ filed \in [Calls -> Nat]
      /\ auth' = [auth EXCEPT ![x] = [auth[x] EXCEPT !.status = "pending"]]
      /\ pending' = pending \cup {x} /\ filed' = filed
      /\ auth[x].status = "none"
  BY DEF GateInv, GateTypeOK, CallInv, Granted
<1>2. /\ [auth[x] EXCEPT !.status = "pending"] \in [status : AuthStatuses, late : BOOLEAN]
      /\ [auth[x] EXCEPT !.status = "pending"].status = "pending"
  BY <1>1 DEF AuthStatuses
<1>3. /\ auth' \in [Calls -> [status : AuthStatuses, late : BOOLEAN]]
      /\ auth'[x].status = "pending" /\ \A u \in Calls \ {x} : auth'[u] = auth[u]
  BY <1>1, <1>2
<1>4. PendingIsOpen'
  BY <1>1, <1>3 DEF GateInv, PendingIsOpen
<1>5. RequestsKept({x})
  BY <1>1, <1>3, <1>4 DEF RequestsKept
<1> DEFINE c == [kind |-> kind,
                 pc   |-> IF kind = "request" THEN "done"
                          ELSE IF type \in Checked THEN "recheck" ELSE "effect",
                 type |-> type, token |-> x,
                 answer |-> IF kind = "request" THEN "granted" ELSE "none"]
<1>6. call' = [call EXCEPT ![x] = c]
  BY DEF Granted, New, GateInv, GateTypeOK
<1>7. c \in CallRecord /\ c.pc \in {"done", "recheck", "effect"}
      /\ c.type = type /\ c.token = x
  BY DEF CallRecord, Points, Answers
<1> HIDE DEF c
<1> QED
  BY <1>3, <1>5, <1>6, <1>7, CallStep

\* The call x answers, in a turn after an await.
LEMMA AnsweredKeepsInv ==
    ASSUME GateInv, RequestsKept({}), NEW x \in Calls, NEW a \in Answers,
           call[x].pc \in {"request", "recheck", "effect"}, Answer(x, a)
    PROVE  GateInv'
<1>1. call[x] \in CallRecord /\ call[x].type \in Types
  BY DEF GateInv, GateTypeOK, CallInv, CallRecord
<1> DEFINE c == [call[x] EXCEPT !.pc = "done", !.answer = a]
<1>2. call' = [call EXCEPT ![x] = c]
  BY DEF Answer, GateInv, GateTypeOK
<1>3. c \in CallRecord /\ c.pc = "done" /\ c.type \in Types
  BY <1>1 DEF CallRecord, Points
<1> HIDE DEF c
<1> QED
  BY <1>2, <1>3, CallStep

\* The call x comes in, with the type of what it asks for.
LEMMA EnteredKeepsInv ==
    ASSUME GateInv, RequestsKept({}), NEW x \in Calls, call[x].pc = "new",
           NEW c \in CallRecord, call' = [call EXCEPT ![x] = c],
           c.type \in Types \/ auth'[x].status = "none",
           \/ c.pc = "done"
           \/ c.pc = "request" /\ c.type \in Types
           \/ /\ c.pc \in {"recheck", "effect"} /\ c.type \in Types
              /\ c.token \in Calls /\ auth[c.token].status # "none"
    PROVE  GateInv'
<1>1. auth'[x].status = "none"
  BY DEF GateInv, CallInv, RequestsKept
<1>2. \A t \in Calls : auth[t].status # "none" => auth'[t].status # "none"
  BY DEF RequestsKept
<1> QED
  BY <1>1, <1>2, CallStep

\* The last look at the epoch, for a call whose record is otherwise r.
LEMMA StartedKeepsInv ==
    ASSUME GateInv, NEW x \in Calls, NEW t \in Calls, auth[t].status # "none",
           NEW r \in CallRecord, r.type \in Types, r.token = t,
           NEW next, next = [call EXCEPT ![x] = r], StartEffect(x, t, next)
    PROVE  GateInv'
<1>1. call \in [Calls -> CallRecord]
  BY DEF GateInv, GateTypeOK, CallRecord
<1>2. CASE call' = [next EXCEPT ![x].pc = "effect"] /\ UNCHANGED <<auth, pending, filed>>
  <2> DEFINE c == [r EXCEPT !.pc = "effect"]
  <2>1. call' = [call EXCEPT ![x] = c]
    BY <1>1, <1>2
  <2>2. c \in CallRecord /\ c.pc = "effect" /\ c.type \in Types /\ c.token = t
    BY DEF CallRecord, Points
  <2> HIDE DEF c
  <2>3. RequestsKept({}) /\ auth'[t].status # "none"
    BY <1>2, UntouchedIsKept
  <2> QED
    BY <2>1, <2>2, <2>3, CallStep
<1>3. CASE /\ call' = [next EXCEPT ![x].pc = "done", ![x].answer = "failed"]
           /\ Settle(t, "rejected")
  <2> DEFINE c == [r EXCEPT !.pc = "done", !.answer = "failed"]
  <2>1. call' = [call EXCEPT ![x] = c]
    BY <1>1, <1>3
  <2>2. c \in CallRecord /\ c.pc = "done" /\ c.type \in Types
    BY DEF CallRecord, Points, Answers
  <2> HIDE DEF c
  <2>3. RequestsKept({})
    BY <1>3, SettledIsKept
  <2> QED
    BY <2>1, <2>2, <2>3, CallStep
<1> QED
  BY <1>2, <1>3 DEF StartEffect

\* Every turn of the authority is one of the gate.
LEMMA TurnOfGate == ASSUME NEW x \in Calls, Turn(x) PROVE GateTurn(x)
<1>1. CASE CompleteFlow(x)
  <2>1. CASE InvalidEffect(x) \/ ProposalFails(x) \/ NotApproved(x) \/ NotAuthorized(x)
    BY <2>1 DEF InvalidEffect, ProposalFails, NotApproved, NotAuthorized, GateTurn, FirstTurn
  <2>2. CASE \E type \in Types : ExecuteIrreversibleEffect(x, type)
    BY <2>2 DEF ExecuteIrreversibleEffect, GateTurn, FirstTurn
  <2>3. CASE FlowGoesOn(x) \/ FlowNotAuthorized(x) \/ FlowSucceeds(x) \/ FlowFails(x)
    BY <2>3 DEF FlowGoesOn, FlowNotAuthorized, FlowSucceeds, FlowFails, GateTurn,
       PhysicsAnswers
  <2> QED
    BY <1>1, <2>1, <2>2, <2>3 DEF CompleteFlow
<1>2. CASE \E type \in Types : RequestEffectAuthorization(x, type)
  BY <1>2 DEF RequestEffectAuthorization, GateTurn, FirstTurn
<1>3. CASE AwaitReturns(x)
  BY <1>3 DEF AwaitReturns, GateTurn, PhysicsAnswers
<1> QED
  BY <1>1, <1>2, <1>3 DEF Turn, GateTurn

\* The first turns of request and flow keep it, ...
LEMMA RequestsKeepInv == ASSUME GateInv, NEW x \in Calls, FirstTurn(x) PROVE GateInv'
<1>1. ASSUME NEW kind \in {"request", "flow"}, Refuse(x, kind) PROVE GateInv'
  <2> DEFINE c == [kind |-> kind, pc |-> "done", type |-> "none",
                   token |-> NoToken, answer |-> "refused"]
  <2>1. call' = [call EXCEPT ![x] = c]
    BY <1>1 DEF Refuse, New, GateInv, GateTypeOK
  <2>2. c \in CallRecord /\ c.pc = "done"
    BY DEF CallRecord, Kinds, Points, Answers
  <2> HIDE DEF c
  <2>3. RequestsKept({}) /\ auth'[x].status = "none"
    BY <1>1, UntouchedIsKept DEF Refuse, GateInv, CallInv
  <2> QED
    BY <1>1, <2>1, <2>2, <2>3, EnteredKeepsInv DEF Refuse
<1>2. ASSUME NEW kind \in {"request", "flow"}, NEW type \in Types,
             AwaitPhysics(x, kind, type)
      PROVE  GateInv'
  <2> DEFINE c == [kind |-> kind, pc |-> "request", type |-> type,
                   token |-> NoToken, answer |-> "none"]
  <2>1. call' = [call EXCEPT ![x] = c]
    BY <1>2 DEF AwaitPhysics, New, GateInv, GateTypeOK
  <2>2. c \in CallRecord /\ c.pc = "request" /\ c.type \in Types
    BY DEF CallRecord, Kinds, Points, Answers
  <2> HIDE DEF c
  <2>3. RequestsKept({})
    BY <1>2, UntouchedIsKept DEF AwaitPhysics
  <2> QED
    BY <1>2, <2>1, <2>2, <2>3, EnteredKeepsInv DEF AwaitPhysics
<1>3. ASSUME NEW kind \in {"request", "flow"}, NEW type \in Types,
             GrantAtOnce(x, kind, type)
      PROVE  GateInv'
  BY <1>3, GrantedKeepsInv DEF GrantAtOnce, Kinds
<1> QED
  BY <1>1, <1>2, <1>3 DEF FirstTurn

\* ... those of an execution with a token, ...
LEMMA ExecutionsKeepInv ==
    ASSUME GateInv, NEW x \in Calls, NEW t \in Calls, ExecuteWithAuthorization(x, t)
    PROVE  GateInv'
<1>1. /\ auth[t].status # "none" /\ call[x].pc = "new" /\ TypeOf(t) \in Types
      /\ call \in [Calls -> CallRecord]
  BY DEF ExecuteWithAuthorization, InvalidToken, ExecuteExpired, Execute, TypeOf,
         GateInv, GateTypeOK, CallInv, CallRecord
<1> DEFINE c(pc, a) == [kind |-> "execute", pc |-> pc, type |-> TypeOf(t),
                        token |-> t, answer |-> a]
<1>2. \A pc \in Points, a \in Answers :
        /\ c(pc, a) \in CallRecord
        /\ c(pc, a).pc = pc /\ c(pc, a).type = TypeOf(t) /\ c(pc, a).token = t
  BY <1>1 DEF CallRecord, Kinds
<1>3. CASE InvalidToken(x, t) \/ ExecuteExpired(x, t)
  <2>1. call' = [call EXCEPT ![x] = c("done", "failed")]
    BY <1>1, <1>3 DEF InvalidToken, ExecuteExpired, New
  <2>2. RequestsKept({})
    BY <1>1, <1>3, UntouchedIsKept, SettledIsKept DEF InvalidToken, ExecuteExpired
  <2>3. "done" \in Points /\ "failed" \in Answers
    BY DEF Points, Answers
  <2> HIDE DEF c
  <2> QED
    BY <1>1, <1>2, <2>1, <2>2, <2>3, EnteredKeepsInv
<1>4. CASE Execute(x, t)
  <2>1. CASE TypeOf(t) \in Checked
    <3>1. /\ call' = [call EXCEPT ![x] = c("recheck", "none")]
          /\ UNCHANGED <<auth, pending, filed>>
      BY <1>1, <1>4, <2>1 DEF Execute, New
    <3>2. "recheck" \in Points /\ "none" \in Answers
      BY DEF Points, Answers
    <3>3. RequestsKept({})
      BY <3>1, UntouchedIsKept
    <3> HIDE DEF c
    <3> QED
      BY <1>1, <1>2, <3>1, <3>2, <3>3, EnteredKeepsInv
  <2>2. CASE TypeOf(t) \notin Checked
    <3>1. StartEffect(x, t, New(x, "execute", TypeOf(t), t))
      BY <1>4, <2>2 DEF Execute
    <3>2. New(x, "execute", TypeOf(t), t) = [call EXCEPT ![x] = c("new", "none")]
      BY DEF New
    <3>3. "new" \in Points /\ "none" \in Answers
      BY DEF Points, Answers
    <3> HIDE DEF c
    <3> QED
      BY <1>1, <1>2, <3>1, <3>2, <3>3, StartedKeepsInv
  <2> QED
    BY <2>1, <2>2
<1> QED
  BY <1>3, <1>4 DEF ExecuteWithAuthorization

\* ... the turns in which an await returns, ...
LEMMA AnswersKeepInv ==
    ASSUME GateInv, NEW x \in Calls,
           PhysicsAnswers(x) \/ EffectDone(x) \/ EffectRaises(x)
    PROVE  GateInv'
<1>1. /\ call[x].pc \in {"request", "recheck", "effect"}
      /\ call[x] \in CallRecord /\ call[x].type \in Types
      /\ call = [call EXCEPT ![x] = call[x]]
  BY DEF PhysicsAnswers, GrantChecked, RefuseChecked, RecheckPasses, RecheckBlocks,
         EffectDone, EffectRaises, GateInv, GateTypeOK, CallInv, CallRecord
<1>2. CASE GrantChecked(x)
  <2>1. call[x].kind \in Kinds
    BY <1>1 DEF CallRecord
  <2> QED
    BY <1>1, <1>2, <2>1, GrantedKeepsInv DEF GrantChecked
<1>3. CASE RefuseChecked(x)
  BY <1>1, <1>3, UntouchedIsKept, AnsweredKeepsInv DEF RefuseChecked, Answers
<1>4. CASE RecheckPasses(x)
  <2>1. call[x].token \in Calls /\ auth[call[x].token].status # "none"
    BY <1>4 DEF RecheckPasses, GateInv, CallInv
  <2> QED
    BY <1>1, <1>4, <2>1, StartedKeepsInv DEF RecheckPasses
<1>5. CASE RecheckBlocks(x) \/ EffectDone(x) \/ EffectRaises(x)
  <2>1. call[x].token \in Calls /\ auth[call[x].token].status # "none"
    BY <1>5 DEF RecheckBlocks, EffectDone, EffectRaises, GateInv, CallInv
  <2>2. /\ \/ Settle(call[x].token, "rejected")
           \/ Settle(call[x].token, "executed")
        /\ Answer(x, "failed") \/ Answer(x, "succeeded")
    BY <1>5 DEF RecheckBlocks, EffectDone, EffectRaises
  <2>3. RequestsKept({})
    BY <2>1, <2>2, SettledIsKept
  <2> QED
    BY <1>1, <2>2, <2>3, AnsweredKeepsInv DEF Answers
<1> QED
  BY <1>2, <1>3, <1>4, <1>5 DEF PhysicsAnswers

\* A step beside the calls.
LEMMA BesideKeepsInv ==
    ASSUME GateInv, RequestsKept({}), UNCHANGED call
    PROVE  GateInv'
<1>1. GateTypeOK'
  BY DEF GateInv, GateTypeOK, RequestsKept
<1>2. CallInv'
  BY DEF GateInv, CallInv, RequestsKept
<1> QED
  BY <1>1, <1>2 DEF GateInv, RequestsKept

\* ... the cleanup, ...
LEMMA CleanupKeepsInv ==
    ASSUME GateInv, CleanupAuthorizations, UNCHANGED call
    PROVE  GateInv'
<1> DEFINE R == [status : AuthStatuses, late : BOOLEAN]
           expired == {t \in pending : auth[t].late}
<1>1. /\ auth \in [Calls -> R] /\ filed \in [Calls -> Nat] /\ pending \in SUBSET Calls
      /\ \A t \in Calls : t \in pending <=> auth[t].status = "pending"
      /\ \A t \in Calls : filed[t] > 0 <=> auth[t].status \notin {"none", "pending"}
  BY DEF GateInv, GateTypeOK, PendingIsOpen
<1>2. /\ \A t \in expired : auth'[t] = [auth[t] EXCEPT !.status = "expired"]
      /\ \A t \in Calls \ expired : auth'[t] = auth[t]
      /\ auth' = [t \in Calls |-> auth'[t]] /\ filed' = [t \in Calls |-> filed'[t]]
      /\ \A t \in expired : filed'[t] = filed[t] + 1
      /\ \A t \in Calls \ expired : filed'[t] = filed[t]
      /\ pending' = pending \ expired /\ expired \subseteq pending
  BY <1>1 DEF CleanupAuthorizations
<1> HIDE DEF expired
<1>3. \A t \in expired : auth'[t] \in R /\ auth'[t].status = "expired"
  <2> TAKE t \in expired
  <2>1. auth[t] \in R /\ auth'[t] = [auth[t] EXCEPT !.status = "expired"]
    BY <1>1, <1>2
  <2> QED
    BY <2>1 DEF AuthStatuses
<1>4. \A t \in expired : filed'[t] \in Nat /\ filed'[t] > 0
  <2> TAKE t \in expired
  <2>1. filed[t] \in Nat
    BY <1>1, <1>2
  <2> QED
    BY <1>2, <2>1
<1>5. auth' \in [Calls -> R] /\ filed' \in [Calls -> Nat] /\ pending' \in SUBSET Calls
  BY <1>1, <1>2, <1>3, <1>4
<1>6. PendingIsOpen'
  BY <1>1, <1>2, <1>3, <1>4 DEF PendingIsOpen
<1>7. \A t \in Calls : auth'[t].status = "none" <=> auth[t].status = "none"
  BY <1>1, <1>2, <1>3
<1>8. RequestsKept({})
  BY <1>5, <1>6, <1>7 DEF RequestsKept
<1> QED
  BY <1>8, BesideKeepsInv

\* ... and what is done to the epochs and requests from outside.
LEMMA ManagedKeepsInv == ASSUME GateInv, Managed PROVE GateInv'
<1>1. CASE UNCHANGED gateVars
  BY <1>1, UntouchedIsKept, BesideKeepsInv DEF gateVars
<1>2. CASE CleanupExpiredResources
  BY <1>2, CleanupKeepsInv DEF CleanupExpiredResources
<1>3. ASSUME NEW t \in Calls, CancelAuthorization(t) PROVE GateInv'
  <2>1. auth[t].status # "none"
    BY <1>3 DEF CancelAuthorization, GateInv, PendingIsOpen
  <2> QED
    BY <1>3, <2>1, SettledIsKept, BesideKeepsInv DEF CancelAuthorization
<1>4. ASSUME NEW t \in Calls, AuthorizationLapses(t) PROVE GateInv'
  <2>1. /\ auth \in [Calls -> [status : AuthStatuses, late : BOOLEAN]]
        /\ auth' = [auth EXCEPT ![t] = [auth[t] EXCEPT !.late = TRUE]]
        /\ UNCHANGED <<pending, filed, call>>
    BY <1>4 DEF AuthorizationLapses, GateInv, GateTypeOK
  <2>2. /\ auth' \in [Calls -> [status : AuthStatuses, late : BOOLEAN]]
        /\ \A u \in Calls : auth'[u].status = auth[u].status
    BY <2>1
  <2>3. RequestsKept({})
    BY <2>1, <2>2 DEF RequestsKept, GateInv, GateTypeOK, PendingIsOpen
  <2> QED
    BY <2>1, <2>3, BesideKeepsInv
<1> QED
  BY <1>1, <1>2, <1>3, <1>4 DEF Managed

\* Every step keeps the invariant of the gate.
LEMMA GateInvStep == GateInv /\ [Next]_vars => GateInv'
<1> SUFFICES ASSUME GateInv, [Next]_vars PROVE GateInv'
  OBVIOUS
<1>1. ASSUME NEW x \in Calls, Turn(x) PROVE GateInv'
  <2>1. GateTurn(x)
    BY <1>1, TurnOfGate
  <2> QED
    BY <2>1, RequestsKeepInv, ExecutionsKeepInv, AnswersKeepInv DEF GateTurn
<1>2. CASE UNCHANGED vars
  BY <1>2, UntouchedIsKept, BesideKeepsInv DEF vars, gateVars
<1> QED
  BY <1>1, <1>2, ManagedKeepsInv DEF Next

-----------------------------------------------------------------------------
(* The whole. *)

\* The only turn that touches an epoch is the one in which the effect is done.
LEMMA OthersKeepEpochs ==
    ASSUME NEW x \in Calls, Turn(x)
    PROVE  EffectDone(x) \/ UNCHANGED epochVars
<1>1. GateTurn(x)
  BY TurnOfGate
<1> QED
  BY <1>1 DEF GateTurn, FirstTurn, ExecuteWithAuthorization, PhysicsAnswers, Refuse,
     AwaitPhysics, GrantAtOnce, Granted, GrantChecked, RefuseChecked, RecheckPasses,
     RecheckBlocks, InvalidToken, ExecuteExpired, Execute, EffectRaises

\* Whatever the calls do, they do one of the epoch authority's steps.
LEMMA NextIsEpochStep == GateInv /\ [Next]_vars => EpochStep
<1> SUFFICES ASSUME GateInv, [Next]_vars PROVE EpochStep
  OBVIOUS
<1>1. ASSUME NEW x \in Calls, Turn(x) PROVE EpochStep
  <2>1. CASE EffectDone(x)
    <3>1. call[x].type \in Types
      BY <2>1 DEF EffectDone, GateInv, CallInv
    <3> QED
      BY <2>1, <3>1 DEF EffectDone, EpochStep
  <2>2. CASE UNCHANGED epochVars
    BY <2>2 DEF EpochStep
  <2>3. EffectDone(x) \/ UNCHANGED epochVars
    BY <1>1, OthersKeepEpochs
  <2> QED
    BY <2>1, <2>2, <2>3
<1>2. CASE Managed
  BY <1>2 DEF Managed, CleanupExpiredResources, CleanupEpochs, CancelAuthorization,
     AuthorizationLapses, EpochStep
<1>3. CASE UNCHANGED vars
  BY <1>3 DEF vars, EpochStep
<1> QED
  BY <1>1, <1>2, <1>3 DEF Next

\* The counters stay numbers.
LEMMA CountInvStep == CountInv /\ [Next]_vars => CountInv'
<1> SUFFICES ASSUME CountInv, [Next]_vars PROVE CountInv'
  OBVIOUS
<1>1. ASSUME NEW x \in Calls, Turn(x) PROVE CountInv'
  <2>1. CASE CompleteFlow(x)
    BY <2>1 DEF CompleteFlow, InvalidEffect, ProposalFails, NotApproved, NotAuthorized,
       ExecuteIrreversibleEffect, FlowGoesOn, FlowNotAuthorized, FlowSucceeds, FlowFails,
       countVars, CountInv
  <2>2. CASE UNCHANGED countVars
    BY <2>2 DEF countVars, CountInv
  <2> QED
    BY <1>1, <2>1, <2>2 DEF Turn, RequestEffectAuthorization, ExecuteWithAuthorization,
       AwaitReturns
<1>2. CASE UNCHANGED countVars
  BY <1>2 DEF countVars, CountInv
<1> QED
  BY <1>1, <1>2 DEF Next, Managed, vars

\* The inductive invariant holds in every behaviour.
LEMMA Invariance == Spec => []Inv
<1>1. Init => Inv
  BY EpochInvInit, GateInvInit DEF Init, Inv, CountInv
<1>2. Inv /\ [Next]_vars => Inv'
  BY NextIsEpochStep, EpochInvStep, GateInvStep, CountInvStep DEF Inv
<1> QED
  BY <1>1, <1>2, PTL DEF Spec

\* Every variable of the three modules keeps its type, the bound of the history
\* of epochs included.
THEOREM IrreversibilityTypeCorrect == Spec => []TypeOK
<1>1. Inv => TypeOK
  BY DEF Inv, EpochInv, GateInv, CountInv, TypeOK
<1> QED
  BY <1>1, Invariance, PTL

\* However executions, cleanups and the endpoints that manage epochs interleave,
\* at most the newest epoch is open, it is the current one, and the history
\* holds the latest of the others in their order.
THEOREM EpochsStayInOrder == Spec => []EpochsInOrder
<1>1. Inv => EpochsInOrder
  BY DEF Inv, EpochInv
<1> QED
  BY <1>1, Invariance, PTL

\* The table of pending requests holds those that have been granted and not yet
\* been settled, although two executions of one token, a cancel and a cleanup
\* may each settle it without looking.
THEOREM PendingStaysOpen == Spec => []PendingIsOpen
<1>1. Inv => PendingIsOpen
  BY DEF Inv, GateInv
<1> QED
  BY <1>1, Invariance, PTL

-----------------------------------------------------------------------------
(* The epochs implement EpochLedger. *)

LedgerOf(eps) == [e \in DOMAIN eps |-> eps[e].effects]

\* No epoch is an empty ledger that is closed.
LEMMA RefinesLedgerInit == Init => Ledger!Init
BY DEF Init, EpochInit, NoEpoch, Ledger!Init

\* Each step of the epoch authority is a step of the ledger or none.
LEMMA LedgerStep ==
    ASSUME EpochInv, EpochStep
    PROVE  [Ledger!Next]_<<LedgerOf(epochs), current # NoEpoch>>
<1> DEFINE n == Len(epochs)
           L == LedgerOf(epochs)
           T == Seq(Types)
<1>1. /\ epochs \in Seq(EpochRecord) /\ n \in Nat /\ DOMAIN epochs = 1..n
      /\ current \in {NoEpoch, n} /\ NoEpoch = 0
      /\ current # NoEpoch => n \in 1..n
  BY DEF EpochInv, EpochTypeOK, EpochsInOrder, NoEpoch
<1> HIDE DEF L, T
<1>2. \A e \in 1..n : epochs[e] \in EpochRecord
  BY <1>1, ElementOfSeq
\* The effects of the epochs of a sequence, as a sequence.
<1>3. ASSUME NEW eps \in Seq(EpochRecord)
      PROVE  /\ LedgerOf(eps) \in Seq(T) /\ Len(LedgerOf(eps)) = Len(eps)
             /\ DOMAIN LedgerOf(eps) = 1..Len(eps)
             /\ \A e \in 1..Len(eps) : LedgerOf(eps)[e] = eps[e].effects
  <2>1. /\ DOMAIN eps = 1..Len(eps) /\ Len(eps) \in Nat
        /\ \A e \in 1..Len(eps) : eps[e] \in EpochRecord
    BY <1>3
  <2>2. \A e \in 1..Len(eps) : eps[e].effects \in T
    BY <2>1 DEF EpochRecord, T
  <2>3. LedgerOf(eps) = [e \in 1..Len(eps) |-> eps[e].effects]
    BY <2>1 DEF LedgerOf
  <2>4. LedgerOf(eps) \in [1..Len(eps) -> T]
    BY <2>2, <2>3
  <2> QED
    BY <2>1, <2>3, <2>4, MappedIsSeq
<1>4. ASSUME current # NoEpoch
      PROVE  current = n /\ n \in 1..n /\ epochs[n] \in EpochRecord
             /\ LedgerOf(ClosedEpochs) = L
  <2>1. /\ ClosedEpochs \in Seq(EpochRecord) /\ Len(ClosedEpochs) = n
        /\ \A e \in 1..n : ClosedEpochs[e].effects = epochs[e].effects
    BY <1>4, ClosingCloses
  <2>2. DOMAIN ClosedEpochs = DOMAIN epochs /\ DOMAIN epochs = 1..n
    <3> HIDE DEF n
    <3>1. DOMAIN ClosedEpochs = 1..Len(ClosedEpochs)
      BY <2>1
    <3> QED
      BY <1>1, <2>1, <3>1
  <2>3. LedgerOf(ClosedEpochs) = L
    BY <2>1, <2>2 DEF L, LedgerOf
  <2>4. current = n /\ n \in 1..n
    BY <1>1, <1>4
  <2>5. epochs[n] \in EpochRecord
    BY <1>2, <2>4
  <2> QED
    BY <2>3, <2>4, <2>5
<1>5. CASE CloseEpoch
  <2>1. current # NoEpoch /\ current' = NoEpoch /\ LedgerOf(epochs)' = L
    BY <1>4, <1>5 DEF CloseEpoch
  <2> QED
    BY <2>1 DEF L, LedgerOf, Ledger!Next, Ledger!Close
<1>6. CASE CreateEpoch
  <2> DEFINE base == IF current # NoEpoch THEN ClosedEpochs ELSE epochs
             new  == [effects |-> <<>>, status |-> "open", late |-> FALSE]
  <2>1. epochs' = Append(base, new) /\ current' = n + 1
    BY <1>6 DEF CreateEpoch
  <2>2. LedgerOf(base) = L /\ base \in Seq(EpochRecord) /\ Len(base) = n
    BY <1>1, <1>4, ClosingCloses DEF L
  <2>3. new \in EpochRecord /\ new.effects = <<>>
    BY DEF EpochRecord
  <2> HIDE DEF base, new
  <2>4. /\ epochs' \in Seq(EpochRecord) /\ Len(epochs') = n + 1
        /\ epochs'[n + 1] = new
        /\ \A e \in 1..n : epochs'[e] = base[e]
    BY <1>1, <2>1, <2>2, <2>3
  <2>5. /\ L \in Seq(T) /\ Len(L) = n
        /\ \A e \in 1..n : L[e] = base[e].effects
    BY <1>3, <2>2
  <2>6. /\ LedgerOf(epochs') \in Seq(T) /\ Len(LedgerOf(epochs')) = n + 1
        /\ \A e \in 1..(n + 1) : LedgerOf(epochs')[e] = epochs'[e].effects
    BY <1>3, <2>4
  <2>7. <<>> \in T
    BY DEF T
  <2>8. /\ LedgerOf(epochs')[n + 1] = <<>>
        /\ \A e \in 1..n : LedgerOf(epochs')[e] = L[e]
    <3> HIDE DEF n
    <3>1. n \in Nat
      BY <1>1
    <3>2. n + 1 \in 1..(n + 1) /\ \A e \in 1..n : e \in 1..(n + 1)
      BY <3>1
    <3> QED
      BY <2>3, <2>4, <2>5, <2>6, <3>2
  <2>9. LedgerOf(epochs') = Append(L, <<>>)
    BY <2>5, <2>6, <2>7, <2>8, AppendedIs
  <2>10. current' # NoEpoch
    <3> HIDE DEF n
    <3> QED
      BY <1>1, <2>1
  <2>11. Ledger!Open
    BY <2>9, <2>10 DEF L, LedgerOf, Ledger!Open
  <2> QED
    BY <2>11 DEF Ledger!Next
<1>7. CASE EpochLapses
  <2>1. current = n /\ n \in 1..n /\ epochs[n] \in EpochRecord /\ current' = current
        /\ epochs' = [epochs EXCEPT ![n] = [epochs[n] EXCEPT !.late = TRUE]]
    BY <1>4, <1>7 DEF EpochLapses
  <2>2. [epochs[n] EXCEPT !.late = TRUE].effects = epochs[n].effects
    BY <2>1 DEF EpochRecord
  <2>3. /\ DOMAIN epochs' = DOMAIN epochs
        /\ \A e \in 1..n : epochs'[e].effects = epochs[e].effects
    BY <1>1, <2>1, <2>2
  <2> QED
    BY <1>1, <2>1, <2>3 DEF LedgerOf
<1>8. ASSUME NEW type \in Types, CommitEffect(type), CanCommitEffect(type)
      PROVE  Ledger!Record(type)
  <2> DEFINE s == Append(epochs[n].effects, type)
  <2>1. /\ current = n /\ n \in 1..n /\ epochs[n] \in EpochRecord /\ current' = current
        /\ current # NoEpoch
        /\ epochs' = [epochs EXCEPT ![n] = [epochs[n] EXCEPT !.effects = s]]
    BY <1>4, <1>8 DEF CommitEffect, CanCommitEffect
  <2> HIDE DEF s
  <2>2. [epochs[n] EXCEPT !.effects = s].effects = s
    BY <2>1 DEF EpochRecord
  <2>3. /\ DOMAIN epochs' = 1..n /\ epochs'[n].effects = s
        /\ \A e \in 1..n : e # n => epochs'[e] = epochs[e]
    BY <1>1, <2>1, <2>2
  <2>4. LedgerOf(epochs') = [L EXCEPT ![n] = s]
    BY <1>1, <2>1, <2>3 DEF LedgerOf, L
  <2>5. /\ L[Len(L)] = epochs[n].effects
        /\ Len(L[Len(L)]) < MaxEffects
        /\ \A i \in DOMAIN L[Len(L)] : L[Len(L)][i] # type
    BY <1>1, <1>3, <1>8, <2>1 DEF L, CanCommitEffect, Committed
  <2>6. Len(L) = n
    <3>1. \A eps \in Seq(EpochRecord) : Len(LedgerOf(eps)) = Len(eps)
      BY <1>3
    <3> QED
      BY <1>1, <3>1 DEF L
  <2> QED
    BY <2>6, <2>1, <2>4, <2>5 DEF s, L, LedgerOf, Ledger!Record
<1>9. ASSUME NEW type \in Types, CommitEffect(type), ~CanCommitEffect(type)
      PROVE  UNCHANGED <<epochs, current>>
  BY <1>9 DEF CommitEffect
<1>10. ASSUME UNCHANGED <<epochs, current>>
       PROVE  UNCHANGED <<LedgerOf(epochs), current # NoEpoch>>
  BY <1>10 DEF LedgerOf
<1> QED
  BY <1>5, <1>6, <1>7, <1>8, <1>9, <1>10 DEF EpochStep, epochVars, Ledger!Next

\* Each epoch records an effect once and no more than its bound, and an effect
\* that is committed after its epoch was closed, filled or replaced, during the
\* await of its execution, changes no epoch.
THEOREM EpochsImplementLedger == Spec => ImplementsLedger
<1>1. Init => Ledger!Init
  BY RefinesLedgerInit
<1>2. Inv /\ [Next]_vars =>
          [Ledger!Next]_<<[e \in DOMAIN epochs |-> epochs[e].effects], current # NoEpoch>>
  BY NextIsEpochStep, LedgerStep DEF Inv, LedgerOf
<1> QED
  BY <1>1, <1>2, Invariance, PTL DEF Spec, ImplementsLedger, Ledger!Spec

\* What the ledger says of one epoch.
EachOnce(effects) ==
    /\ Len(effects) <= MaxEffects
    /\ \A i, j \in 1..Len(effects) : effects[i] = effects[j] => i = j

EffectsOnce == \A e \in 1..Len(epochs) : EachOnce(epochs[e].effects)

\* One more effect that is not among them leaves each there once.
LEMMA OneMoreEffect ==
    ASSUME NEW s \in Seq(Types), EachOnce(s), Len(s) < MaxEffects,
           NEW type \in Types, \A i \in 1..Len(s) : s[i] # type
    PROVE  EachOnce(Append(s, type))
<1> DEFINE t == Append(s, type)
<1>1. /\ Len(t) = Len(s) + 1 /\ t[Len(s) + 1] = type /\ Len(s) \in Nat
      /\ \A i \in 1..Len(s) : t[i] = s[i]
  OBVIOUS
<1> HIDE DEF t
<1>2. \A i \in 1..Len(t) : i \in 1..Len(s) \/ i = Len(s) + 1
  BY <1>1
<1>3. ASSUME NEW i \in 1..Len(t), NEW j \in 1..Len(t), t[i] = t[j]
      PROVE  i = j
  BY <1>1, <1>2, <1>3 DEF EachOnce
<1> QED
  BY <1>1, <1>3, EpochAssumption DEF EachOnce, t

\* An effect is recorded at most once in an epoch and an epoch keeps within its
\* bound, however many executions commit into it.
THEOREM EffectsAreOnce == Spec => []EffectsOnce
<1>1. Init => EffectsOnce
  BY DEF Init, EpochInit, EffectsOnce
<1>2. ASSUME EpochInv, EpochStep, EffectsOnce
      PROVE  EffectsOnce'
  <2> DEFINE n == Len(epochs)
  <2>1. /\ epochs \in Seq(EpochRecord) /\ n \in Nat /\ DOMAIN epochs = 1..n
        /\ current \in {NoEpoch, n} /\ NoEpoch = 0
        /\ current # NoEpoch => n \in 1..n
        /\ \A e \in 1..n : epochs[e] \in EpochRecord
    BY <1>2, ElementOfSeq DEF EpochInv, EpochTypeOK, EpochsInOrder, NoEpoch
  <2>2. ASSUME current # NoEpoch
        PROVE  /\ ClosedEpochs \in Seq(EpochRecord) /\ Len(ClosedEpochs) = n
               /\ \A e \in 1..n : ClosedEpochs[e].effects = epochs[e].effects
    BY <1>2, <2>2, ClosingCloses
  <2>3. CASE CloseEpoch
    BY <1>2, <2>2, <2>3 DEF CloseEpoch, EffectsOnce
  <2>4. CASE CreateEpoch
    <3> DEFINE base == IF current # NoEpoch THEN ClosedEpochs ELSE epochs
               new  == [effects |-> <<>>, status |-> "open", late |-> FALSE]
    <3>1. /\ base \in Seq(EpochRecord) /\ Len(base) = n
          /\ \A e \in 1..n : base[e].effects = epochs[e].effects
      <4>1. CASE current # NoEpoch
        BY <2>2, <4>1
      <4>2. CASE current = NoEpoch
        BY <2>1, <4>2
      <4> QED
        BY <4>1, <4>2
    <3>2. epochs' = Append(base, new) /\ new \in EpochRecord /\ new.effects = <<>>
      BY <2>4 DEF CreateEpoch, EpochRecord
    <3> HIDE DEF base, new, n
    <3>3. /\ Len(epochs') = n + 1 /\ epochs'[n + 1] = new
          /\ \A e \in 1..n : epochs'[e] = base[e]
      BY <2>1, <3>1, <3>2
    <3>4. EachOnce(<<>>)
      BY EpochAssumption DEF EachOnce
    <3>5. \A e \in 1..(n + 1) : e \in 1..n \/ e = n + 1
      BY <2>1
    <3> QED
      BY <1>2, <3>1, <3>2, <3>3, <3>4, <3>5 DEF EffectsOnce, n
  <2>5. CASE EpochLapses
    <3>1. /\ current = n /\ n \in 1..n /\ epochs[n] \in EpochRecord
          /\ epochs' = [epochs EXCEPT ![n] = [epochs[n] EXCEPT !.late = TRUE]]
      BY <2>1, <2>5 DEF EpochLapses
    <3>2. [epochs[n] EXCEPT !.late = TRUE].effects = epochs[n].effects
      BY <3>1 DEF EpochRecord
    <3>3. Len(epochs') = n /\ \A e \in 1..n : epochs'[e].effects = epochs[e].effects
      BY <2>1, <3>1, <3>2
    <3> QED
      BY <1>2, <3>3 DEF EffectsOnce
  <2>6. ASSUME NEW type \in Types, CommitEffect(type), CanCommitEffect(type)
        PROVE  EffectsOnce'
    <3> DEFINE s == epochs[n].effects
    <3>1. /\ current = n /\ n \in 1..n /\ epochs[n] \in EpochRecord
          /\ epochs' = [epochs EXCEPT ![n] = [epochs[n] EXCEPT !.effects = Append(s, type)]]
      BY <2>1, <2>6 DEF CommitEffect, CanCommitEffect
    <3>2. s \in Seq(Types) /\ EachOnce(s)
      BY <1>2, <3>1 DEF EpochRecord, EffectsOnce
    <3>3. Len(s) < MaxEffects /\ \A i \in 1..Len(s) : s[i] # type
      BY <2>6, <3>1, <3>2 DEF CanCommitEffect, Committed
    <3>4. EachOnce(Append(s, type))
      BY <3>2, <3>3, OneMoreEffect
    <3> HIDE DEF s
    <3>5. [epochs[n] EXCEPT !.effects = Append(s, type)].effects = Append(s, type)
      BY <3>1 DEF EpochRecord
    <3>6. /\ Len(epochs') = n /\ epochs'[n].effects = Append(s, type)
          /\ \A e \in 1..n : e # n => epochs'[e] = epochs[e]
      BY <2>1, <3>1, <3>5
    <3> QED
      BY <1>2, <3>4, <3>6 DEF EffectsOnce
  <2>7. ASSUME NEW type \in Types, CommitEffect(type), ~CanCommitEffect(type)
        PROVE  EffectsOnce'
    BY <1>2, <2>7 DEF CommitEffect, EffectsOnce
  <2>8. CASE UNCHANGED epochVars
    BY <1>2, <2>8 DEF epochVars, EffectsOnce
  <2> QED
    BY <1>2, <2>3, <2>4, <2>5, <2>6, <2>7, <2>8 DEF EpochStep
<1>3. ASSUME Inv, [Next]_vars, EffectsOnce
      PROVE  EffectsOnce'
  BY <1>2, <1>3, NextIsEpochStep DEF Inv
<1> QED
  BY <1>1, <1>3, Invariance, PTL DEF Spec
-----------------------------------------------------------------------------
(* The answers: what is counted, and what is recorded. *)

\* A call answers in its last turn, and has no kind before its first.
AnswerInv ==
    \A x \in Calls : /\ call[x].pc = "new" => call[x].kind = "none"
                     /\ call[x].pc # "done" => call[x].answer = "none"

\* What the turn of x leaves in its record: only EffectDone answers "succeeded".
Moved(x, c) ==
    /\ call' = [call EXCEPT ![x] = c]
    /\ c.pc # "new"
    /\ c.pc # "done" => c.answer = "none"
    /\ call[x].pc # "new" => c.kind = call[x].kind /\ c.type = call[x].type
    /\ c.answer = "succeeded" => EffectDone(x)

\* A grant, at once or after the physics check.
LEMMA GrantedMoves ==
    ASSUME GateInv, NEW x \in Calls, NEW type \in Types, NEW kind \in Kinds,
           Granted(x, kind, type),
           call[x].pc # "new" => kind = call[x].kind /\ type = call[x].type
    PROVE  \E c \in CallRecord : Moved(x, c)
<1> DEFINE c == [kind |-> kind,
                 pc   |-> IF kind = "request" THEN "done"
                          ELSE IF type \in Checked THEN "recheck" ELSE "effect",
                 type |-> type, token |-> x,
                 answer |-> IF kind = "request" THEN "granted" ELSE "none"]
<1>1. call' = [call EXCEPT ![x] = c]
  BY DEF Granted, New, GateInv, GateTypeOK
<1>2. c \in CallRecord /\ c.pc # "new" /\ (c.pc # "done" => c.answer = "none")
      /\ c.type = type /\ c.kind = kind /\ c.answer # "succeeded"
  BY DEF CallRecord, Points, Answers
<1> HIDE DEF c
<1> QED
  BY <1>1, <1>2 DEF Moved

\* The turns that begin a request or a flow move one call, ...
LEMMA RequestMoves ==
    ASSUME GateInv, AnswerInv, NEW x \in Calls, FirstTurn(x)
    PROVE  call[x].pc # "done" /\ \E c \in CallRecord : Moved(x, c)
<1>1. call \in [Calls -> CallRecord]
  BY DEF GateInv, GateTypeOK, CallRecord
<1>2. ASSUME NEW kind \in {"request", "flow"}, Refuse(x, kind)
      PROVE  call[x].pc # "done" /\ \E c \in CallRecord : Moved(x, c)
  <2> DEFINE c == [kind |-> kind, pc |-> "done", type |-> "none",
                   token |-> NoToken, answer |-> "refused"]
  <2>1. call[x].pc = "new" /\ call' = [call EXCEPT ![x] = c]
    BY <1>1, <1>2 DEF Refuse, New
  <2>2. c \in CallRecord /\ c.pc = "done" /\ c.answer # "succeeded"
    BY DEF CallRecord, Kinds, Points, Answers
  <2> HIDE DEF c
  <2> QED
    BY <2>1, <2>2 DEF Moved
<1>3. ASSUME NEW kind \in {"request", "flow"}, NEW type \in Types,
             AwaitPhysics(x, kind, type)
      PROVE  call[x].pc # "done" /\ \E c \in CallRecord : Moved(x, c)
  <2> DEFINE c == [kind |-> kind, pc |-> "request", type |-> type,
                   token |-> NoToken, answer |-> "none"]
  <2>1. call[x].pc = "new" /\ call' = [call EXCEPT ![x] = c]
    BY <1>1, <1>3 DEF AwaitPhysics, New
  <2>2. c \in CallRecord /\ c.pc = "request" /\ c.answer = "none"
    BY DEF CallRecord, Kinds, Points, Answers
  <2> HIDE DEF c
  <2> QED
    BY <2>1, <2>2 DEF Moved
<1>4. ASSUME NEW kind \in {"request", "flow"}, NEW type \in Types,
             GrantAtOnce(x, kind, type)
      PROVE  call[x].pc # "done" /\ \E c \in CallRecord : Moved(x, c)
  <2>1. call[x].pc = "new" /\ Granted(x, kind, type) /\ kind \in Kinds
    BY <1>4 DEF GrantAtOnce, Kinds
  <2> QED
    BY <1>1, <2>1, GrantedMoves
<1> QED
  BY <1>2, <1>3, <1>4 DEF FirstTurn

\* The last look at the epoch.
LEMMA StartedMoves ==
    ASSUME GateInv, NEW x \in Calls, NEW t \in Calls, NEW r \in CallRecord,
           r.answer = "none",
           call[x].pc # "new" => r.kind = call[x].kind /\ r.type = call[x].type,
           NEW next, next = [call EXCEPT ![x] = r], StartEffect(x, t, next)
    PROVE  \E c \in CallRecord : Moved(x, c)
<1>1. call \in [Calls -> CallRecord]
  BY DEF GateInv, GateTypeOK, CallRecord
<1>2. CASE call' = [next EXCEPT ![x].pc = "effect"]
  <2> DEFINE c == [r EXCEPT !.pc = "effect"]
  <2>1. call' = [call EXCEPT ![x] = c]
    BY <1>1, <1>2
  <2>2. c \in CallRecord /\ c.pc = "effect" /\ c.answer = "none"
        /\ c.kind = r.kind /\ c.type = r.type
    BY DEF CallRecord, Points
  <2> HIDE DEF c
  <2> QED
    BY <2>1, <2>2 DEF Moved
<1>3. CASE call' = [next EXCEPT ![x].pc = "done", ![x].answer = "failed"]
  <2> DEFINE c == [r EXCEPT !.pc = "done", !.answer = "failed"]
  <2>1. call' = [call EXCEPT ![x] = c]
    BY <1>1, <1>3
  <2>2. c \in CallRecord /\ c.pc = "done" /\ c.answer = "failed"
        /\ c.kind = r.kind /\ c.type = r.type
    BY DEF CallRecord, Points, Answers
  <2> HIDE DEF c
  <2> QED
    BY <2>1, <2>2 DEF Moved
<1> QED
  BY <1>2, <1>3 DEF StartEffect

\* ... so does the one that begins an execution, ...
LEMMA ExecutionMoves ==
    ASSUME GateInv, NEW x \in Calls, NEW t \in Calls, ExecuteWithAuthorization(x, t)
    PROVE  call[x].pc = "new" /\ \E c \in CallRecord : Moved(x, c)
<1>1. /\ call[x].pc = "new" /\ TypeOf(t) \in Types
      /\ call \in [Calls -> CallRecord]
  BY DEF ExecuteWithAuthorization, InvalidToken, ExecuteExpired, Execute, TypeOf,
         GateInv, GateTypeOK, CallInv, CallRecord
<1> DEFINE c(pc, a) == [kind |-> "execute", pc |-> pc, type |-> TypeOf(t),
                        token |-> t, answer |-> a]
<1>2. \A pc \in Points, a \in Answers :
        c(pc, a) \in CallRecord /\ c(pc, a).pc = pc /\ c(pc, a).answer = a
  BY <1>1 DEF CallRecord, Kinds
<1>3. "done" \in Points /\ "new" \in Points /\ "recheck" \in Points
      /\ "failed" \in Answers /\ "none" \in Answers
  BY DEF Points, Answers
<1>4. CASE InvalidToken(x, t) \/ ExecuteExpired(x, t)
  <2>1. call' = [call EXCEPT ![x] = c("done", "failed")]
    BY <1>1, <1>4 DEF InvalidToken, ExecuteExpired, New
  <2> HIDE DEF c
  <2>2. PICK r \in CallRecord :
           r.pc = "done" /\ r.answer = "failed" /\ call' = [call EXCEPT ![x] = r]
    BY <1>2, <1>3, <2>1
  <2> QED
    BY <1>1, <2>2 DEF Moved
<1>5. CASE Execute(x, t) /\ TypeOf(t) \in Checked
  <2>1. call' = [call EXCEPT ![x] = c("recheck", "none")]
    BY <1>1, <1>5 DEF Execute, New
  <2> HIDE DEF c
  <2>2. PICK r \in CallRecord :
           r.pc = "recheck" /\ r.answer = "none" /\ call' = [call EXCEPT ![x] = r]
    BY <1>2, <1>3, <2>1
  <2> QED
    BY <1>1, <2>2 DEF Moved
<1>6. CASE Execute(x, t) /\ TypeOf(t) \notin Checked
  <2>1. StartEffect(x, t, New(x, "execute", TypeOf(t), t))
    BY <1>6 DEF Execute
  <2>2. New(x, "execute", TypeOf(t), t) = [call EXCEPT ![x] = c("new", "none")]
    BY DEF New
  <2> HIDE DEF c
  <2> QED
    BY <1>1, <1>2, <1>3, <2>1, <2>2, StartedMoves
<1> QED
  BY <1>1, <1>4, <1>5, <1>6 DEF ExecuteWithAuthorization

\* ... and so do those in which an await returns.
LEMMA AnswerMoves ==
    ASSUME GateInv, AnswerInv, NEW x \in Calls,
           PhysicsAnswers(x) \/ EffectDone(x) \/ EffectRaises(x)
    PROVE  call[x].pc \notin {"new", "done"} /\ \E c \in CallRecord : Moved(x, c)
<1>1. /\ call[x].pc \in {"request", "recheck", "effect"}
      /\ call \in [Calls -> CallRecord] /\ call[x] \in CallRecord
      /\ call[x].type \in Types /\ call[x].kind \in Kinds
      /\ call[x].answer = "none"
      /\ call = [call EXCEPT ![x] = call[x]]
  BY DEF PhysicsAnswers, GrantChecked, RefuseChecked, RecheckPasses, RecheckBlocks,
         EffectDone, EffectRaises, GateInv, GateTypeOK, CallInv, CallRecord, AnswerInv
<1>2. CASE GrantChecked(x)
  BY <1>1, <1>2, GrantedMoves DEF GrantChecked
<1>3. CASE RecheckPasses(x)
  <2>1. call[x].token \in Calls
    BY <1>3 DEF RecheckPasses, GateInv, CallInv
  <2> QED
    BY <1>1, <1>3, <2>1, StartedMoves DEF RecheckPasses
<1>4. ASSUME NEW a \in Answers, Answer(x, a), a = "succeeded" => EffectDone(x)
      PROVE  \E c \in CallRecord : Moved(x, c)
  <2> DEFINE c == [call[x] EXCEPT !.pc = "done", !.answer = a]
  <2>1. call' = [call EXCEPT ![x] = c]
    BY <1>1, <1>4 DEF Answer
  <2>2. c \in CallRecord /\ c.pc = "done" /\ c.answer = a
        /\ c.kind = call[x].kind /\ c.type = call[x].type
    BY <1>1 DEF CallRecord, Points
  <2> HIDE DEF c
  <2> QED
    BY <1>4, <2>1, <2>2 DEF Moved
<1>5. CASE RefuseChecked(x) \/ RecheckBlocks(x) \/ EffectDone(x) \/ EffectRaises(x)
  BY <1>4, <1>5 DEF RefuseChecked, RecheckBlocks, EffectDone, EffectRaises, Answers
<1> QED
  BY <1>1, <1>2, <1>3, <1>5 DEF PhysicsAnswers

\* One call moves in a turn, and it has not been answered yet.
LEMMA TurnMoves ==
    ASSUME GateInv, AnswerInv, NEW x \in Calls, Turn(x)
    PROVE  call[x].pc # "done" /\ \E c \in CallRecord : Moved(x, c)
<1>1. ASSUME NEW t \in Calls, ExecuteWithAuthorization(x, t)
      PROVE  call[x].pc # "done" /\ \E c \in CallRecord : Moved(x, c)
  BY <1>1, ExecutionMoves
<1>2. GateTurn(x)
  BY TurnOfGate
<1> QED
  BY <1>1, <1>2, RequestMoves, AnswerMoves DEF GateTurn

\* Every step keeps what is known of answers.
LEMMA AnswerInvStep ==
    ASSUME GateInv, AnswerInv, [Next]_vars
    PROVE  AnswerInv'
<1>1. call \in [Calls -> CallRecord]
  BY DEF GateInv, GateTypeOK, CallRecord
<1>2. ASSUME NEW x \in Calls, Turn(x) PROVE AnswerInv'
  <2>1. PICK c \in CallRecord : Moved(x, c)
    BY <1>2, TurnMoves
  <2>2. call'[x] = c /\ \A y \in Calls \ {x} : call'[y] = call[y]
    BY <1>1, <2>1 DEF Moved
  <2> QED
    BY <2>1, <2>2 DEF AnswerInv, Moved
<1>3. CASE UNCHANGED call
  BY <1>3 DEF AnswerInv
<1> QED
  BY <1>2, <1>3 DEF Next, Managed, CleanupExpiredResources, CancelAuthorization,
     AuthorizationLapses, gateVars, vars

\* The flows that have been answered, with a success and without.
Succeeded == {x \in Flows : call[x].answer = "succeeded"}
Unsuccessful == {x \in Flows : call[x].pc = "done" /\ call[x].answer # "succeeded"}

\* What the turn of x does to the counters, read off its record before and
\* after: a flow comes in, perhaps to be refused at once, ...
ComesIn(x, c) ==
    /\ call[x].kind # "flow" /\ c.kind = "flow"
    /\ total' = total + 1 /\ succeeded' = succeeded
    /\ c.answer # "succeeded"
    /\ failed' = IF c.pc = "done" THEN failed + 1 ELSE failed

\* ... or it goes on, or is answered, ...
IsCarriedOn(x, c) ==
    /\ call[x].kind = "flow" /\ c.kind = "flow"
    /\ total' = total
    /\ succeeded' = IF c.answer = "succeeded" THEN succeeded + 1 ELSE succeeded
    /\ failed' = IF c.pc = "done" /\ c.answer # "succeeded" THEN failed + 1 ELSE failed

\* ... or the call is not a flow.
IsNoFlow(x, c) ==
    /\ call[x].kind # "flow" /\ c.kind # "flow"
    /\ UNCHANGED countVars

\* The record that the first turn of a request or a flow leaves.
LEMMA FirstRecord ==
    ASSUME GateInv, AnswerInv, NEW x \in Calls, NEW kind \in {"request", "flow"}
    PROVE  /\ Refuse(x, kind) =>
                  /\ call[x].kind = "none" /\ call'[x].kind = kind
                  /\ call'[x].pc = "done" /\ call'[x].answer = "refused"
           /\ \A type \in Types : AwaitPhysics(x, kind, type) =>
                  /\ call[x].kind = "none" /\ call'[x].kind = kind
                  /\ call'[x].pc = "request" /\ call'[x].answer = "none"
           /\ \A type \in Types : GrantAtOnce(x, kind, type) =>
                  /\ call[x].kind = "none" /\ call'[x].kind = kind
                  /\ kind = "flow" => call'[x].pc \in {"recheck", "effect"}
                                      /\ call'[x].answer = "none"
<1>1. call \in [Calls -> CallRecord] /\ (call[x].pc = "new" => call[x].kind = "none")
  BY DEF GateInv, GateTypeOK, CallRecord, AnswerInv
<1>2. ASSUME Refuse(x, kind)
      PROVE  /\ call[x].kind = "none" /\ call'[x].kind = kind
             /\ call'[x].pc = "done" /\ call'[x].answer = "refused"
  <2> DEFINE c == [kind |-> kind, pc |-> "done", type |-> "none",
                   token |-> NoToken, answer |-> "refused"]
  <2>1. call[x].pc = "new" /\ call'[x] = c
    BY <1>1, <1>2 DEF Refuse, New
  <2>2. c.kind = kind /\ c.pc = "done" /\ c.answer = "refused"
    OBVIOUS
  <2> HIDE DEF c
  <2> QED
    BY <1>1, <2>1, <2>2
<1>3. ASSUME NEW type \in Types, AwaitPhysics(x, kind, type)
      PROVE  /\ call[x].kind = "none" /\ call'[x].kind = kind
             /\ call'[x].pc = "request" /\ call'[x].answer = "none"
  <2> DEFINE c == [kind |-> kind, pc |-> "request", type |-> type,
                   token |-> NoToken, answer |-> "none"]
  <2>1. call[x].pc = "new" /\ call'[x] = c
    BY <1>1, <1>3 DEF AwaitPhysics, New
  <2>2. c.kind = kind /\ c.pc = "request" /\ c.answer = "none"
    OBVIOUS
  <2> HIDE DEF c
  <2> QED
    BY <1>1, <2>1, <2>2
<1>4. ASSUME NEW type \in Types, GrantAtOnce(x, kind, type)
      PROVE  /\ call[x].kind = "none" /\ call'[x].kind = kind
             /\ kind = "flow" => call'[x].pc \in {"recheck", "effect"}
                                 /\ call'[x].answer = "none"
  <2> DEFINE c == [kind |-> kind,
                   pc |-> IF kind = "request" THEN "done"
                          ELSE IF type \in Checked THEN "recheck" ELSE "effect",
                   type |-> type, token |-> x,
                   answer |-> IF kind = "request" THEN "granted" ELSE "none"]
  <2>1. call[x].pc = "new" /\ call'[x] = c
    BY <1>1, <1>4 DEF GrantAtOnce, Granted, New
  <2>2. c.kind = kind /\ (kind = "flow" => c.pc \in {"recheck", "effect"} /\ c.answer = "none")
    OBVIOUS
  <2> HIDE DEF c
  <2> QED
    BY <1>1, <2>1, <2>2
<1> QED
  BY <1>2, <1>3, <1>4

\* Each way a flow takes counts it as its record says.
LEMMA FlowCounts ==
    ASSUME GateInv, AnswerInv, NEW x \in Calls, NEW c \in CallRecord, Moved(x, c),
           CompleteFlow(x)
    PROVE  ComesIn(x, c) \/ IsCarriedOn(x, c)
<1>1. call \in [Calls -> CallRecord] /\ call'[x] = c
  BY DEF Moved, GateInv, GateTypeOK, CallRecord
<1>2. CASE InvalidEffect(x) \/ ProposalFails(x) \/ NotApproved(x) \/ NotAuthorized(x)
  <2>1. /\ Refuse(x, "flow") /\ total' = total + 1 /\ failed' = failed + 1
        /\ succeeded' = succeeded
    BY <1>2 DEF InvalidEffect, ProposalFails, NotApproved, NotAuthorized
  <2> QED
    BY <1>1, <2>1, FirstRecord DEF ComesIn
<1>3. ASSUME NEW type \in Types, ExecuteIrreversibleEffect(x, type)
      PROVE  ComesIn(x, c)
  <2>1. /\ AwaitPhysics(x, "flow", type) \/ GrantAtOnce(x, "flow", type)
        /\ total' = total + 1 /\ failed' = failed /\ succeeded' = succeeded
    BY <1>3 DEF ExecuteIrreversibleEffect
  <2>2. /\ call[x].kind = "none" /\ c.kind = "flow"
        /\ c.pc # "done" /\ c.answer = "none"
    BY <1>1, <2>1, FirstRecord
  <2> QED
    BY <2>1, <2>2 DEF ComesIn
<1>4. ASSUME IsFlow(x), call[x].pc # "new"
      PROVE  call[x].kind = "flow" /\ c.kind = "flow"
  BY <1>4 DEF IsFlow, Moved
<1>5. CASE FlowGoesOn(x)
  <2>1. /\ IsFlow(x) /\ call[x].pc \in {"request", "recheck"}
        /\ total' = total /\ failed' = failed /\ succeeded' = succeeded
    BY <1>5 DEF FlowGoesOn, GrantChecked, RecheckPasses, countVars
  <2>2. call'[x].pc # "done"
    <3>1. CASE GrantChecked(x)
      <4>1. call'[x].pc = IF call[x].kind = "request" THEN "done"
                          ELSE IF call[x].type \in Checked THEN "recheck" ELSE "effect"
        BY <1>1, <3>1 DEF GrantChecked, Granted, New
      <4> QED
        BY <2>1, <4>1 DEF IsFlow
    <3>2. CASE RecheckPasses(x) /\ CanCommitEffect(TypeOf(call[x].token))
      <4>1. call' = [call EXCEPT ![x].pc = "effect"]
        BY <3>2 DEF RecheckPasses, StartEffect
      <4>2. call'[x].pc = "effect"
        BY <1>1, <4>1 DEF CallRecord
      <4> QED
        BY <4>2
    <3> QED
      BY <1>5, <3>1, <3>2 DEF FlowGoesOn
  <2>3. c.pc # "done" /\ c.answer = "none"
    BY <1>1, <2>2 DEF Moved
  <2> QED
    BY <1>4, <2>1, <2>3 DEF IsCarriedOn
<1>6. ASSUME NEW a \in Answers, Answer(x, a)
      PROVE  c.pc = "done" /\ c.answer = a
  BY <1>1, <1>6 DEF Answer, CallRecord
<1>7. CASE FlowSucceeds(x)
  <2>1. /\ IsFlow(x) /\ call[x].pc # "new" /\ Answer(x, "succeeded")
        /\ total' = total /\ succeeded' = succeeded + 1 /\ failed' = failed
    BY <1>7 DEF FlowSucceeds, EffectDone
  <2> QED
    BY <1>4, <1>6, <2>1 DEF IsCarriedOn, Answers
<1>8. CASE FlowNotAuthorized(x)
  <2>1. /\ IsFlow(x) /\ call[x].pc # "new" /\ Answer(x, "refused")
        /\ total' = total /\ succeeded' = succeeded /\ failed' = failed + 1
    BY <1>8 DEF FlowNotAuthorized, RefuseChecked
  <2> QED
    BY <1>4, <1>6, <2>1 DEF IsCarriedOn, Answers
<1>9. CASE FlowFails(x)
  <2>1. /\ IsFlow(x) /\ call[x].pc # "new"
        /\ total' = total /\ succeeded' = succeeded /\ failed' = failed + 1
    BY <1>9 DEF FlowFails, RecheckPasses, RecheckBlocks, EffectRaises
  <2>2. c.pc = "done" /\ c.answer = "failed"
    <3>1. CASE RecheckBlocks(x) \/ EffectRaises(x)
      BY <1>6, <3>1 DEF RecheckBlocks, EffectRaises, Answers
    <3>2. CASE RecheckPasses(x) /\ ~CanCommitEffect(TypeOf(call[x].token))
      <4>1. call' = [call EXCEPT ![x].pc = "done", ![x].answer = "failed"]
        BY <3>2 DEF RecheckPasses, StartEffect
      <4> QED
        BY <1>1, <4>1 DEF CallRecord
    <3> QED
      BY <1>9, <3>1, <3>2 DEF FlowFails
  <2> QED
    BY <1>4, <2>1, <2>2 DEF IsCarriedOn
<1> QED
  BY <1>2, <1>3, <1>5, <1>7, <1>8, <1>9 DEF CompleteFlow

\* The turns of other calls count nothing, and make no flow of them.
LEMMA OthersCountNothing ==
    ASSUME GateInv, AnswerInv, NEW x \in Calls, NEW c \in CallRecord, Moved(x, c),
           Turn(x), ~CompleteFlow(x)
    PROVE  IsNoFlow(x, c)
<1>1. call \in [Calls -> CallRecord] /\ call'[x] = c
  BY DEF Moved, GateInv, GateTypeOK, CallRecord
<1>2. ASSUME NEW type \in Types, RequestEffectAuthorization(x, type) PROVE IsNoFlow(x, c)
  <2>1. call[x].kind = "none" /\ call'[x].kind = "request"
    BY <1>2, FirstRecord DEF RequestEffectAuthorization
  <2> QED
    BY <1>1, <1>2, <2>1 DEF RequestEffectAuthorization, IsNoFlow
<1>3. ASSUME NEW t \in Calls, ExecuteWithAuthorization(x, t) PROVE IsNoFlow(x, c)
  <2>1. call[x].pc = "new" /\ call[x].kind = "none"
    BY <1>3 DEF ExecuteWithAuthorization, InvalidToken, ExecuteExpired, Execute, AnswerInv
  <2>2. call'[x].kind = "execute"
    <3> DEFINE r == [kind |-> "execute", pc |-> "new", type |-> TypeOf(t),
                     token |-> t, answer |-> "none"]
    <3>1. New(x, "execute", TypeOf(t), t) = [call EXCEPT ![x] = r]
      BY DEF New
    <3>2. r.kind = "execute"
      OBVIOUS
    <3>3. CASE InvalidToken(x, t) \/ ExecuteExpired(x, t)
      <4>1. call' = [[call EXCEPT ![x] = r] EXCEPT ![x].pc = "done", ![x].answer = "failed"]
        BY <3>1, <3>3 DEF InvalidToken, ExecuteExpired
      <4> QED
        BY <1>1, <4>1
    <3>4. CASE Execute(x, t)
      <4>1. \/ call' = [[call EXCEPT ![x] = r] EXCEPT ![x].pc = "recheck"]
            \/ call' = [[call EXCEPT ![x] = r] EXCEPT ![x].pc = "effect"]
            \/ call' = [[call EXCEPT ![x] = r] EXCEPT ![x].pc = "done", ![x].answer = "failed"]
        BY <3>1, <3>4 DEF Execute, StartEffect
      <4> QED
        BY <1>1, <4>1
    <3> QED
      BY <1>3, <3>3, <3>4 DEF ExecuteWithAuthorization
  <2> QED
    BY <1>1, <1>3, <2>1, <2>2 DEF ExecuteWithAuthorization, IsNoFlow
<1>4. CASE AwaitReturns(x)
  <2>1. call[x].pc # "new" /\ ~IsFlow(x)
    BY <1>4 DEF AwaitReturns, GrantChecked, RefuseChecked, RecheckPasses, RecheckBlocks,
       EffectDone, EffectRaises
  <2>2. call[x].kind # "flow" /\ c.kind # "flow"
    BY <2>1 DEF IsFlow, Moved
  <2> QED
    BY <1>4, <2>2 DEF AwaitReturns, IsNoFlow
<1> QED
  BY <1>2, <1>3, <1>4 DEF Turn

\* The size of a set that may have gained an element.
LEMMA AddedIsCounted ==
    ASSUME NEW S, IsFiniteSet(S), NEW x, NEW T,
           x \notin S, T = S \/ T = S \cup {x}
    PROVE  /\ Cardinality(S) \in Nat
           /\ Cardinality(T) = IF x \in T THEN Cardinality(S) + 1 ELSE Cardinality(S)
BY FS_AddElement, FS_CardinalityType

\* Each of the three sets gains a flow exactly when its counter is incremented.
LEMMA CountersStep ==
    ASSUME GateInv, AnswerInv, CountersAddUp, [Next]_vars
    PROVE  CountersAddUp'
<1>1. /\ call \in [Calls -> CallRecord]
      /\ IsFiniteSet(Flows) /\ IsFiniteSet(Succeeded) /\ IsFiniteSet(Unsuccessful)
  BY GateAssumption, FS_Subset
  DEF GateInv, GateTypeOK, CallRecord, Flows, Succeeded, Unsuccessful
<1>2. /\ total = Cardinality(Flows) /\ succeeded = Cardinality(Succeeded)
      /\ failed = Cardinality(Unsuccessful)
  BY DEF CountersAddUp, Succeeded, Unsuccessful
<1>3. SUFFICES /\ total' = Cardinality(Flows') /\ succeeded' = Cardinality(Succeeded')
               /\ failed' = Cardinality(Unsuccessful')
  BY DEF CountersAddUp, Succeeded, Unsuccessful
<1>4. ASSUME NEW x \in Calls, Turn(x)
      PROVE  /\ total' = Cardinality(Flows') /\ succeeded' = Cardinality(Succeeded')
             /\ failed' = Cardinality(Unsuccessful')
  <2>1. PICK c \in CallRecord : Moved(x, c)
    BY <1>4, TurnMoves
  <2>2. call[x].pc # "done" /\ call[x].answer # "succeeded"
    BY <1>4, TurnMoves DEF AnswerInv
  <2>3. call'[x] = c /\ \A y \in Calls \ {x} : call'[y] = call[y]
    BY <1>1, <2>1 DEF Moved
  <2>4. /\ x \notin Succeeded /\ x \notin Unsuccessful
        /\ x \in Flows <=> call[x].kind = "flow"
        /\ x \in Flows' <=> c.kind = "flow"
        /\ x \in Succeeded' <=> c.kind = "flow" /\ c.answer = "succeeded"
        /\ x \in Unsuccessful' <=> c.kind = "flow" /\ c.pc = "done" /\ c.answer # "succeeded"
    BY <2>2, <2>3 DEF Flows, IsFlow, Succeeded, Unsuccessful
  <2>5. Succeeded' = Succeeded \/ Succeeded' = Succeeded \cup {x}
    BY <2>3, <2>4 DEF Flows, IsFlow, Succeeded
  <2>6. Unsuccessful' = Unsuccessful \/ Unsuccessful' = Unsuccessful \cup {x}
    BY <2>3, <2>4 DEF Flows, IsFlow, Unsuccessful
  <2>7. Cardinality(Succeeded') = IF x \in Succeeded' THEN succeeded + 1 ELSE succeeded
    BY <1>1, <1>2, <2>4, <2>5, AddedIsCounted
  <2>8. Cardinality(Unsuccessful') = IF x \in Unsuccessful' THEN failed + 1 ELSE failed
    BY <1>1, <1>2, <2>4, <2>6, AddedIsCounted
  <2>9. ComesIn(x, c) \/ IsCarriedOn(x, c) \/ IsNoFlow(x, c)
    BY <1>4, <2>1, FlowCounts, OthersCountNothing
  <2>10. CASE ComesIn(x, c)
    <3>1. x \notin Flows /\ Flows' = Flows \cup {x}
      BY <2>3, <2>10 DEF ComesIn, Flows, IsFlow
    <3>2. Cardinality(Flows \cup {x}) = total + 1
      BY <1>1, <1>2, <3>1, FS_AddElement
    <3> QED
      BY <2>4, <2>7, <2>8, <2>10, <3>1, <3>2 DEF ComesIn
  <2>11. CASE IsCarriedOn(x, c)
    <3>1. Flows' = Flows
      BY <2>3, <2>11 DEF IsCarriedOn, Flows, IsFlow
    <3> QED
      BY <1>2, <2>4, <2>7, <2>8, <2>11, <3>1 DEF IsCarriedOn
  <2>12. CASE IsNoFlow(x, c)
    <3>1. Flows' = Flows
      BY <2>3, <2>12 DEF IsNoFlow, Flows, IsFlow
    <3> QED
      BY <1>2, <2>4, <2>7, <2>8, <2>12, <3>1 DEF IsNoFlow, countVars
  <2> QED
    BY <2>9, <2>10, <2>11, <2>12
<1>5. CASE UNCHANGED <<call, countVars>>
  BY <1>2, <1>5 DEF Flows, IsFlow, Succeeded, Unsuccessful, countVars
<1> QED
  BY <1>4, <1>5 DEF Next, Managed, CleanupExpiredResources, CancelAuthorization,
     AuthorizationLapses, gateVars, vars

\* The epochs that have recorded an effect of the type, and the calls that have
\* executed one.
RecordedIn(type) ==
    {e \in DOMAIN epochs : \E i \in DOMAIN epochs[e].effects : epochs[e].effects[i] = type}
ExecutedBy(type) ==
    {x \in Calls : call[x].answer = "succeeded" /\ call[x].type = type}

\* A new epoch has no records, and one that is closed or lapses keeps its own.
LEMMA RecordsKept ==
    ASSUME EpochInv, CreateEpoch \/ CloseEpoch \/ EpochLapses \/ UNCHANGED epochVars,
           NEW type
    PROVE  RecordedIn(type)' = RecordedIn(type)
<1> DEFINE n == Len(epochs)
<1>1. /\ epochs \in Seq(EpochRecord) /\ n \in Nat /\ DOMAIN epochs = 1..n
      /\ current # NoEpoch => current \in 1..n
      /\ \A e \in 1..n : epochs[e] \in EpochRecord
  BY ElementOfSeq DEF EpochInv, EpochTypeOK
<1>2. ASSUME DOMAIN epochs' = 1..n, \A e \in 1..n : epochs'[e].effects = epochs[e].effects
      PROVE  RecordedIn(type)' = RecordedIn(type)
  BY <1>1, <1>2 DEF RecordedIn
<1>3. CASE CloseEpoch
  <2>1. /\ epochs' = ClosedEpochs /\ ClosedEpochs \in Seq(EpochRecord)
        /\ Len(ClosedEpochs) = n
        /\ \A e \in 1..n : ClosedEpochs[e].effects = epochs[e].effects
    BY <1>3, ClosingCloses DEF CloseEpoch
  <2>2. DOMAIN epochs' = 1..n
    BY <2>1
  <2> QED
    BY <1>2, <2>1, <2>2
<1>4. CASE CreateEpoch
  <2> DEFINE base == IF current # NoEpoch THEN ClosedEpochs ELSE epochs
             new  == [effects |-> <<>>, status |-> "open", late |-> FALSE]
  <2>1. epochs' = Append(base, new)
    BY <1>4 DEF CreateEpoch
  <2>2. /\ base \in Seq(EpochRecord) /\ Len(base) = n
        /\ \A e \in 1..n : base[e].effects = epochs[e].effects
    BY <1>1, ClosingCloses
  <2>3. new \in EpochRecord /\ new.effects = <<>>
    BY DEF EpochRecord
  <2> HIDE DEF base, new
  <2>4. /\ epochs' \in Seq(EpochRecord) /\ Len(epochs') = n + 1
        /\ epochs'[n + 1] = new /\ \A e \in 1..n : epochs'[e] = base[e]
    BY <1>1, <2>1, <2>2, <2>3
  <2>5. DOMAIN epochs' = 1..(n + 1)
    BY <2>4
  <2> HIDE DEF n
  <2>6. 1..(n + 1) = (1..n) \cup {n + 1} /\ n + 1 \notin 1..n
    BY <1>1
  <2>7. DOMAIN epochs'[n + 1].effects = {}
    BY <2>3, <2>4
  <2>8. \A e \in 1..n : epochs'[e].effects = epochs[e].effects
    BY <2>2, <2>4
  <2> QED
    BY <1>1, <2>5, <2>6, <2>7, <2>8 DEF RecordedIn
<1>5. CASE EpochLapses
  <2>1. /\ current \in 1..n /\ epochs[current] \in EpochRecord
        /\ epochs' = [epochs EXCEPT ![current] = [epochs[current] EXCEPT !.late = TRUE]]
    BY <1>1, <1>5 DEF EpochLapses
  <2>2. [epochs[current] EXCEPT !.late = TRUE].effects = epochs[current].effects
    BY <2>1 DEF EpochRecord
  <2> QED
    BY <1>1, <1>2, <2>1, <2>2
<1>6. CASE UNCHANGED epochVars
  BY <1>1, <1>2, <1>6 DEF epochVars
<1> QED
  BY <1>3, <1>4, <1>5, <1>6

\* What a sequence with one more element holds.
LEMMA AppendedHolds ==
    ASSUME NEW S, NEW s \in Seq(S), NEW x \in S, NEW y
    PROVE  (\E i \in DOMAIN Append(s, x) : Append(s, x)[i] = y)
              <=> (y = x \/ \E i \in DOMAIN s : s[i] = y)
<1>1. /\ Len(s) \in Nat /\ DOMAIN s = 1..Len(s)
      /\ DOMAIN Append(s, x) = 1..(Len(s) + 1)
      /\ Append(s, x)[Len(s) + 1] = x
      /\ \A i \in 1..Len(s) : Append(s, x)[i] = s[i]
  OBVIOUS
<1>2. 1..(Len(s) + 1) = (1..Len(s)) \cup {Len(s) + 1}
  BY <1>1
<1> QED
  BY <1>1, <1>2

\* A commit adds one epoch at most to those with a record of its type.
LEMMA RecordsAdded ==
    ASSUME EpochInv, NEW type \in Types, CommitEffect(type), NEW t
    PROVE  \/ RecordedIn(t)' = RecordedIn(t)
           \/ t = type /\ RecordedIn(t)' = RecordedIn(t) \cup {current}
<1>1. /\ epochs \in Seq(EpochRecord) /\ DOMAIN epochs = 1..Len(epochs)
      /\ current # NoEpoch => current \in 1..Len(epochs)
      /\ \A e \in 1..Len(epochs) : epochs[e] \in EpochRecord
  BY ElementOfSeq DEF EpochInv, EpochTypeOK
<1>2. CASE ~CanCommitEffect(type)
  BY <1>2 DEF CommitEffect, RecordedIn
<1>3. CASE CanCommitEffect(type)
  <2> DEFINE old == epochs[current].effects
             new == Append(old, type)
  <2>1. /\ current \in 1..Len(epochs) /\ epochs[current] \in EpochRecord
        /\ epochs' = [epochs EXCEPT ![current] = [epochs[current] EXCEPT !.effects = new]]
    BY <1>1, <1>3 DEF CommitEffect, CanCommitEffect
  <2>2. old \in Seq(Types)
    BY <2>1 DEF EpochRecord
  <2>3. [epochs[current] EXCEPT !.effects = new].effects = new
    BY <2>1 DEF EpochRecord
  <2>4. (\E i \in DOMAIN new : new[i] = t) <=> t = type \/ \E i \in DOMAIN old : old[i] = t
    <3>1. \A s \in Seq(Types) :
            (\E i \in DOMAIN Append(s, type) : Append(s, type)[i] = t)
                <=> (t = type \/ \E i \in DOMAIN s : s[i] = t)
      BY AppendedHolds
    <3> QED
      BY <2>2, <3>1
  <2> HIDE DEF new
  <2>5. /\ DOMAIN epochs' = DOMAIN epochs /\ epochs'[current].effects = new
        /\ \A e \in DOMAIN epochs : e # current => epochs'[e] = epochs[e]
    BY <1>1, <2>1, <2>3
  <2> QED
    BY <1>1, <2>1, <2>4, <2>5 DEF RecordedIn
<1> QED
  BY <1>2, <1>3

\* The epochs that have recorded an effect can be counted.
LEMMA RecordedFinite ==
    ASSUME EpochInv, NEW type
    PROVE  IsFiniteSet(RecordedIn(type))
<1>1. DOMAIN epochs = 1..Len(epochs) /\ Len(epochs) \in Nat
  BY DEF EpochInv, EpochTypeOK
<1>2. IsFiniteSet(DOMAIN epochs)
  BY <1>1, FS_Interval
<1>3. RecordedIn(type) \in SUBSET DOMAIN epochs
  BY DEF RecordedIn
<1> QED
  BY <1>2, <1>3, FS_Subset

\* A record is added by the turn that answers "succeeded", one at a time.
LEMMA RecordedStep ==
    ASSUME EpochInv, GateInv, AnswerInv, RecordedWasExecuted, [Next]_vars
    PROVE  RecordedWasExecuted'
<1>1. call \in [Calls -> CallRecord]
  BY DEF GateInv, GateTypeOK, CallRecord
<1>2. SUFFICES ASSUME NEW t \in Types
               PROVE  Cardinality(RecordedIn(t)') <= Cardinality(ExecutedBy(t)')
  BY DEF RecordedWasExecuted, RecordedIn, ExecutedBy
<1>3. /\ Cardinality(RecordedIn(t)) <= Cardinality(ExecutedBy(t))
      /\ IsFiniteSet(RecordedIn(t)) /\ IsFiniteSet(ExecutedBy(t))
  BY GateAssumption, RecordedFinite, FS_Subset
  DEF RecordedWasExecuted, RecordedIn, ExecutedBy
<1>4. ASSUME NEW x \in Calls, Turn(x)
      PROVE  Cardinality(RecordedIn(t)') <= Cardinality(ExecutedBy(t)')
  <2>1. PICK c \in CallRecord : Moved(x, c)
    BY <1>4, TurnMoves
  <2>2. call'[x] = c /\ \A y \in Calls \ {x} : call'[y] = call[y]
    BY <1>1, <2>1 DEF Moved
  <2>3. call[x].answer # "succeeded"
    BY <1>4, TurnMoves DEF AnswerInv
  <2>4. x \notin ExecutedBy(t)
    BY <2>3 DEF ExecutedBy
  <2>5. CASE EffectDone(x)
    <3>1. /\ call[x].type \in Types /\ CommitEffect(call[x].type)
          /\ c.answer = "succeeded" /\ c.type = call[x].type
      <4>1. /\ call[x].pc = "effect" /\ call[x].type \in Types /\ CommitEffect(call[x].type)
            /\ Answer(x, "succeeded") /\ call[x] \in CallRecord
        BY <1>1, <2>5 DEF EffectDone, GateInv, CallInv
      <4>2. call'[x] = [call[x] EXCEPT !.pc = "done", !.answer = "succeeded"]
        BY <1>1, <4>1 DEF Answer
      <4>3. c.answer = "succeeded" /\ c.type = call[x].type
        BY <2>2, <4>1, <4>2 DEF CallRecord
      <4> QED
        BY <4>1, <4>3
    <3>2. CASE t = call[x].type
      <4>1. ExecutedBy(t)' = ExecutedBy(t) \cup {x}
        BY <2>2, <3>1, <3>2 DEF ExecutedBy
      <4>2. /\ Cardinality(ExecutedBy(t)) \in Nat
            /\ Cardinality(ExecutedBy(t)') = Cardinality(ExecutedBy(t)) + 1
        BY <1>3, <2>4, <4>1, FS_AddElement, FS_CardinalityType
      <4>3. /\ Cardinality(RecordedIn(t)) \in Nat
            /\ Cardinality(RecordedIn(t)') \in {Cardinality(RecordedIn(t)),
                                                Cardinality(RecordedIn(t)) + 1}
        <5>1. \/ RecordedIn(t)' = RecordedIn(t)
              \/ RecordedIn(t)' = RecordedIn(t) \cup {current}
          BY <3>1, RecordsAdded
        <5>2. Cardinality(RecordedIn(t)) \in Nat
          BY <1>3, FS_CardinalityType
        <5>3. Cardinality(RecordedIn(t) \cup {current})
                 \in {Cardinality(RecordedIn(t)), Cardinality(RecordedIn(t)) + 1}
          BY <1>3, FS_AddElement
        <5> QED
          BY <5>1, <5>2, <5>3
      <4> QED
        BY <1>3, <4>2, <4>3
    <3>3. CASE t # call[x].type
      <4>1. ExecutedBy(t)' = ExecutedBy(t)
        BY <2>2, <2>3, <3>1, <3>3 DEF ExecutedBy
      <4>2. RecordedIn(t)' = RecordedIn(t)
        BY <3>1, <3>3, RecordsAdded
      <4> QED
        BY <1>3, <4>1, <4>2
    <3> QED
      BY <3>2, <3>3
  <2>6. CASE ~EffectDone(x)
    <3>1. UNCHANGED epochVars
      BY <1>4, <2>6, OthersKeepEpochs
    <3>2. ExecutedBy(t)' = ExecutedBy(t)
      BY <2>1, <2>2, <2>3, <2>6 DEF ExecutedBy, Moved
    <3> QED
      BY <1>3, <3>1, <3>2, RecordsKept
  <2> QED
    BY <2>5, <2>6
<1>5. CASE UNCHANGED call /\ (Managed \/ UNCHANGED vars)
  <2>1. ExecutedBy(t)' = ExecutedBy(t)
    BY <1>5 DEF ExecutedBy
  <2>2. CreateEpoch \/ CloseEpoch \/ EpochLapses \/ UNCHANGED epochVars
    BY <1>5 DEF Managed, CleanupExpiredResources, CleanupEpochs, CancelAuthorization,
       AuthorizationLapses, vars
  <2> QED
    BY <1>3, <2>1, <2>2, RecordsKept
<1> QED
  BY <1>4, <1>5 DEF Next, Managed, CleanupExpiredResources, CancelAuthorization,
     AuthorizationLapses, gateVars, vars

\* Before the first epoch nothing is granted and nobody gets past the door.
NothingBefore ==
    epochs = <<>> => pending = {} /\ \A x \in Calls : call[x].pc \in {"new", "done"}

\* What is known of the epochs whose effects are committed after an await.
OvertakenInv == NothingBefore /\ RecordedUnlessOvertaken

\* An epoch that was overtaken stays so, and none disappears.
LEMMA EpochsStay ==
    ASSUME EpochInv, EpochStep
    PROVE  /\ epochs' = <<>> => epochs = <<>>
           /\ (\A e \in DOMAIN epochs' : ~Overtaken(e)')
                 => \A e \in DOMAIN epochs : ~Overtaken(e)
<1> DEFINE n == Len(epochs)
<1>1. /\ epochs \in Seq(EpochRecord) /\ n \in Nat /\ DOMAIN epochs = 1..n
      /\ current # NoEpoch => current \in 1..n
      /\ \A e \in 1..n : epochs[e] \in EpochRecord
  BY ElementOfSeq DEF EpochInv, EpochTypeOK
<1>2. ASSUME 1..n \subseteq DOMAIN epochs',
             \A e \in 1..n : Overtaken(e) => Overtaken(e)'
      PROVE  /\ epochs' = <<>> => epochs = <<>>
             /\ (\A e \in DOMAIN epochs' : ~Overtaken(e)')
                   => \A e \in DOMAIN epochs : ~Overtaken(e)
  <2>1. epochs' = <<>> => n = 0
    BY <1>1, <1>2
  <2> QED
    BY <1>1, <1>2, <2>1
<1>3. CASE CloseEpoch
  <2>1. /\ epochs' = ClosedEpochs /\ Len(ClosedEpochs) = n
        /\ ClosedEpochs \in Seq(EpochRecord)
        /\ \A e \in 1..n : ClosedEpochs[e].status = "closed"
    BY <1>3, ClosingCloses DEF CloseEpoch
  <2> QED
    BY <1>2, <2>1 DEF Overtaken
<1>4. CASE CreateEpoch
  <2> DEFINE base == IF current # NoEpoch THEN ClosedEpochs ELSE epochs
             new  == [effects |-> <<>>, status |-> "open", late |-> FALSE]
  <2>1. epochs' = Append(base, new)
    BY <1>4 DEF CreateEpoch
  <2>2. /\ base \in Seq(EpochRecord) /\ Len(base) = n
        /\ \A e \in 1..n : base[e].status = "closed" \/ base[e] = epochs[e]
    BY <1>1, ClosingCloses
  <2>3. new \in EpochRecord
    BY DEF EpochRecord
  <2> HIDE DEF base, new
  <2>4. DOMAIN epochs' = 1..(n + 1) /\ \A e \in 1..n : epochs'[e] = base[e]
    BY <1>1, <2>1, <2>2, <2>3
  <2> HIDE DEF n
  <2>5. 1..n \subseteq 1..(n + 1)
    BY <1>1
  <2> QED
    BY <1>2, <2>2, <2>4, <2>5 DEF Overtaken
<1>5. CASE EpochLapses
  <2>1. /\ current \in 1..n /\ epochs[current] \in EpochRecord
        /\ epochs' = [epochs EXCEPT ![current] = [epochs[current] EXCEPT !.late = TRUE]]
    BY <1>1, <1>5 DEF EpochLapses
  <2>2. [epochs[current] EXCEPT !.late = TRUE].late
    BY <2>1 DEF EpochRecord
  <2> QED
    BY <1>1, <1>2, <2>1, <2>2 DEF Overtaken
<1>6. ASSUME NEW type \in Types, CommitEffect(type), CanCommitEffect(type)
      PROVE  /\ epochs' = <<>> => epochs = <<>>
             /\ (\A e \in DOMAIN epochs' : ~Overtaken(e)')
                   => \A e \in DOMAIN epochs : ~Overtaken(e)
  <2>1. current \in 1..n /\ ~Overtaken(current)
    <3>1. current \in 1..n /\ epochs[current] \in EpochRecord
      BY <1>1, <1>6 DEF CanCommitEffect
    <3>2. Len(epochs[current].effects) \in Nat
      BY <3>1 DEF EpochRecord
    <3> QED
      BY <1>6, <3>1, <3>2, EpochAssumption DEF CanCommitEffect, Overtaken
  <2>2. DOMAIN epochs' = 1..n /\ \A e \in 1..n : e # current => epochs'[e] = epochs[e]
    BY <1>1, <1>6 DEF CommitEffect
  <2> QED
    BY <1>2, <2>1, <2>2 DEF Overtaken
<1>7. CASE UNCHANGED epochs
  BY <1>1, <1>2, <1>7 DEF Overtaken
<1> QED
  BY <1>3, <1>4, <1>5, <1>6, <1>7 DEF EpochStep, CommitEffect, epochVars

\* A commit into an epoch that was not overtaken leaves a record, unless there
\* is one already.
LEMMA CommitRecords ==
    ASSUME EpochInv, NEW type \in Types, CommitEffect(type),
           current # NoEpoch, ~Overtaken(current)
    PROVE  RecordedIn(type)' # {}
<1>1. /\ epochs \in Seq(EpochRecord) /\ current \in DOMAIN epochs
      /\ epochs[current] \in EpochRecord
  BY ElementOfSeq DEF EpochInv, EpochTypeOK
<1>2. CASE Committed(type)
  <2>1. UNCHANGED epochs /\ current \in RecordedIn(type)
    BY <1>1, <1>2 DEF CommitEffect, CanCommitEffect, Committed, RecordedIn
  <2> QED
    BY <2>1 DEF RecordedIn
<1>3. CASE ~Committed(type)
  <2> DEFINE old == epochs[current].effects
             new == Append(old, type)
  <2>1. old \in Seq(Types) /\ Len(old) \in Nat /\ MaxEffects \in Nat
    BY <1>1, EpochAssumption DEF EpochRecord
  <2>2. CanCommitEffect(type)
    BY <1>1, <1>3, <2>1 DEF CanCommitEffect, Overtaken, EpochRecord
  <2>3. epochs' = [epochs EXCEPT ![current] = [epochs[current] EXCEPT !.effects = new]]
    BY <2>2 DEF CommitEffect
  <2>4. current \in DOMAIN epochs' /\ epochs'[current].effects = new
    BY <1>1, <2>3 DEF EpochRecord
  <2>5. Len(old) + 1 \in DOMAIN new /\ new[Len(old) + 1] = type
    BY <2>1
  <2> HIDE DEF new
  <2>6. current \in RecordedIn(type)'
    BY <2>4, <2>5 DEF RecordedIn
  <2> QED
    BY <2>6
<1> QED
  BY <1>2, <1>3

\* Without an epoch, a step grants nothing and lets nobody in.
LEMMA NothingBeforeStep ==
    ASSUME EpochInv, GateInv, NothingBefore, [Next]_vars
    PROVE  NothingBefore'
<1>1. call \in [Calls -> CallRecord]
  BY DEF GateInv, GateTypeOK, CallRecord
<1>2. SUFFICES ASSUME epochs = <<>>
               PROVE  pending' = {} /\ \A x \in Calls : call'[x].pc \in {"new", "done"}
  BY NextIsEpochStep, EpochsStay DEF NothingBefore
<1>3. /\ pending = {} /\ \A x \in Calls : call[x].pc \in {"new", "done"}
      /\ \A type : ~CanCommitEffect(type)
  BY <1>2 DEF NothingBefore, CanCommitEffect, EpochInv, EpochTypeOK
<1>4. ASSUME NEW x \in Calls, Turn(x)
      PROVE  pending' = {} /\ \A y \in Calls : call'[y].pc \in {"new", "done"}
  <2>1. GateTurn(x)
    BY <1>4, TurnOfGate
  <2>2. CASE \E kind \in {"request", "flow"} : Refuse(x, kind)
    BY <1>1, <1>3, <2>2 DEF Refuse, New
  <2>3. CASE \E t \in Calls : InvalidToken(x, t)
    BY <1>1, <1>3, <2>3 DEF InvalidToken, New
  <2> QED
    BY <1>3, <2>1, <2>2, <2>3
    DEF GateTurn, FirstTurn, AwaitPhysics, GrantAtOnce, CanRequest,
        ExecuteWithAuthorization, ExecuteExpired, Execute, PhysicsAnswers, GrantChecked,
        RefuseChecked, RecheckPasses, RecheckBlocks, EffectDone, EffectRaises
<1>5. CASE Managed \/ UNCHANGED vars
  <2>1. UNCHANGED call
    BY <1>5 DEF Managed, CleanupExpiredResources, CancelAuthorization,
       AuthorizationLapses, gateVars, vars
  <2>2. pending' \subseteq pending
    BY <1>5 DEF Managed, CleanupExpiredResources, CleanupAuthorizations,
       CancelAuthorization, Settle, AuthorizationLapses, gateVars, vars
  <2> QED
    BY <1>3, <2>1, <2>2
<1> QED
  BY <1>4, <1>5 DEF Next

\* No step loses a record.
LEMMA RecordsStay ==
    ASSUME EpochInv, EpochStep, NEW t
    PROVE  RecordedIn(t) \subseteq RecordedIn(t)'
BY RecordsKept, RecordsAdded DEF EpochStep

\* The commit comes after the effect, and finds the epoch as it was before it
\* unless that has been overtaken.
LEMMA OvertakenStep ==
    ASSUME EpochInv, GateInv, AnswerInv, OvertakenInv, [Next]_vars
    PROVE  OvertakenInv'
<1>1. call \in [Calls -> CallRecord] /\ EpochStep
  BY NextIsEpochStep DEF GateInv, GateTypeOK, CallRecord
<1>2. SUFFICES ASSUME \A e \in DOMAIN epochs' : ~Overtaken(e)',
                      NEW y \in Calls, call'[y].answer = "succeeded",
                      NEW type, type = call'[y].type
               PROVE  RecordedIn(type)' # {}
  <2>1. NothingBefore'
    BY NothingBeforeStep DEF OvertakenInv
  <2>2. ASSUME \A e \in DOMAIN epochs' : ~Overtaken(e)',
               NEW y \in Calls, call'[y].answer = "succeeded"
        PROVE  \E e \in DOMAIN epochs' :
                  \E i \in DOMAIN epochs'[e].effects :
                     epochs'[e].effects[i] = call'[y].type
    <3>1. PICK type : type = call'[y].type
      OBVIOUS
    <3>2. RecordedIn(type)' # {}
      BY <1>2, <2>2, <3>1
    <3> QED
      BY <3>1, <3>2 DEF RecordedIn
  <2>3. RecordedUnlessOvertaken'
    BY <2>2 DEF RecordedUnlessOvertaken
  <2> QED
    BY <2>1, <2>3 DEF OvertakenInv
<1>3. \A e \in DOMAIN epochs : ~Overtaken(e)
  BY <1>1, <1>2, EpochsStay
<1>4. CASE call'[y] = call[y]
  <2>1. RecordedIn(type) # {}
    BY <1>2, <1>3, <1>4 DEF OvertakenInv, RecordedUnlessOvertaken, RecordedIn
  <2>2. RecordedIn(type) \subseteq RecordedIn(type)'
    BY <1>1, RecordsStay
  <2> QED
    BY <2>1, <2>2
<1>5. CASE call'[y] # call[y]
  <2>1. PICK x \in Calls : Turn(x)
    BY <1>5 DEF Next, Managed, CleanupExpiredResources, CancelAuthorization,
       AuthorizationLapses, gateVars, vars
  <2>2. PICK c \in CallRecord : Moved(x, c)
    BY <2>1, TurnMoves
  <2>3. x = y /\ call'[y] = c
    BY <1>1, <1>5, <2>2 DEF Moved
  <2>4. EffectDone(y)
    BY <1>2, <2>2, <2>3 DEF Moved
  <2>5. /\ call[y].pc = "effect" /\ type \in Types /\ CommitEffect(type)
    <3>1. call[y].pc = "effect" /\ call[y].type \in Types /\ CommitEffect(call[y].type)
      BY <2>4 DEF EffectDone, GateInv, CallInv
    <3>2. type = call[y].type
      BY <1>2, <2>2, <2>3, <3>1 DEF Moved
    <3> QED
      BY <3>1, <3>2
  <2>6. current # NoEpoch
    <3>1. epochs # <<>> /\ epochs \in Seq(EpochRecord) /\ DOMAIN epochs = 1..Len(epochs)
      BY <2>5 DEF OvertakenInv, NothingBefore, EpochInv, EpochTypeOK
    <3>2. Len(epochs) \in DOMAIN epochs /\ epochs[Len(epochs)] \in EpochRecord
      BY <3>1
    <3>3. epochs[Len(epochs)].status = "open"
      BY <1>3, <3>2 DEF Overtaken, EpochRecord
    <3>4. current = Len(epochs)
      BY <3>2, <3>3 DEF EpochInv, EpochsInOrder
    <3> QED
      BY <3>1, <3>2, <3>4 DEF NoEpoch
  <2>7. current \in DOMAIN epochs
    BY <2>6 DEF EpochInv, EpochTypeOK
  <2> QED
    BY <1>3, <2>5, <2>6, <2>7, CommitRecords
<1> QED
  BY <1>4, <1>5

\* What the counters and the epochs say of the calls, with what it rests on.
AnswersInv ==
    Inv /\ AnswerInv /\ CountersAddUp /\ RecordedWasExecuted /\ OvertakenInv

\* What is known of answers, counters and records holds in every behaviour.
LEMMA AnswersInvariance == Spec => []AnswersInv
<1>1. Init => AnswersInv
  <2> SUFFICES ASSUME Init PROVE AnswersInv
    OBVIOUS
  <2>1. Inv
    BY EpochInvInit, GateInvInit DEF Init, Inv, CountInv
  <2>2. /\ AnswerInv /\ Flows = {} /\ Succeeded = {} /\ Unsuccessful = {}
        /\ \A t \in Types : RecordedIn(t) = {} /\ ExecutedBy(t) = {}
    BY DEF Init, GateInit, EpochInit, AnswerInv, Flows, IsFlow, Succeeded, Unsuccessful,
       RecordedIn, ExecutedBy
  <2>3. CountersAddUp
    BY <2>2, FS_EmptySet DEF CountersAddUp, Succeeded, Unsuccessful, Init
  <2>4. RecordedWasExecuted
    BY <2>2, FS_EmptySet DEF RecordedWasExecuted, RecordedIn, ExecutedBy
  <2>5. OvertakenInv
    BY DEF OvertakenInv, NothingBefore, RecordedUnlessOvertaken, Init, GateInit
  <2> QED
    BY <2>1, <2>2, <2>3, <2>4, <2>5 DEF AnswersInv
<1>2. AnswersInv /\ [Next]_vars => AnswersInv'
  BY NextIsEpochStep, EpochInvStep, GateInvStep, CountInvStep, AnswerInvStep,
     CountersStep, RecordedStep, OvertakenStep
  DEF AnswersInv, Inv
<1> QED
  BY <1>1, <1>2, PTL DEF Spec

\* However the turns of the flows interleave, and on whichever way each of them
\* returns, the three counters are the numbers of flows that have come in, that
\* were answered with a success, and that were answered without one.
THEOREM EveryFlowIsCounted == Spec => []CountersAddUp
<1>1. AnswersInv => CountersAddUp
  BY DEF AnswersInv
<1> QED
  BY <1>1, AnswersInvariance, PTL

\* No epoch records what was not executed: an effect that raised, was blocked by
\* the second physics check or was refused leaves no record, and one execution
\* leaves one at most.
THEOREM RecordsAreOfExecutions == Spec => []RecordedWasExecuted
<1>1. AnswersInv => RecordedWasExecuted
  BY DEF AnswersInv
<1> QED
  BY <1>1, AnswersInvariance, PTL

\* An effect that was executed is recorded, although the commit comes after an
\* await and nobody looks at its answer, whatever is cancelled, cleaned up or
\* executed meanwhile, as long as no epoch was closed, replaced, filled or late.
THEOREM ExecutionsAreRecorded == Spec => []RecordedUnlessOvertaken
<1>1. AnswersInv => RecordedUnlessOvertaken
  BY DEF AnswersInv, OvertakenInv
<1> QED
  BY <1>1, AnswersInvariance, PTL
=============================================================================
