--------------------------- MODULE SnapshotProofs ---------------------------
(***************************************************************************)
(* The snapshots for any number of changes and any bound of the index:     *)
(* what the operations of the store do to it, what that means for the      *)
(* history of snapshots, and that a mutation is all or nothing whatever    *)
(* requests, failures, freezes and crashes come between its turns.         *)
(***************************************************************************)
EXTENDS SnapshotHistory, MutationExecutor, TLAPS

-----------------------------------------------------------------------------
(* The store. *)

Snapshot == [content : SUBSET Changes, health : Health]

Directories == UNION {[D -> Snapshot] : D \in SUBSET Ids}

StoreRecord == [dirs : Directories, index : Seq(Ids), current : Ids \cup {NoId}]

\* The numbers of the index run from the first one up and stop at the one that
\* is used again and again; they start at 1 until the index is full.
InOrder(index) ==
    /\ Len(index) <= MaxSnapshots
    /\ \A i \in 1..Len(index) :
          index[i] = IF index[1] + i - 1 <= MaxSnapshots THEN index[1] + i - 1
                     ELSE MaxSnapshots + 1
    /\ Len(index) \in 1..(MaxSnapshots - 1) => index[1] = 1

Sound(st) == st \in StoreRecord /\ InOrder(st.index)

\* A sound store is a well-typed one.
LEMMA SoundHasType ==
    ASSUME NEW st, Sound(st)
    PROVE  StoreType(st)
<1>1. PICK D \in SUBSET Ids : st.dirs \in [D -> Snapshot]
  BY DEF Sound, StoreRecord, Directories
<1> QED
  BY <1>1 DEF Sound, StoreRecord, StoreType, InOrder, Snapshot

\* The empty store is sound.
LEMMA EmptyIsSound == Sound(EmptyStore)
<1>1. <<>> \in [{} -> Snapshot] /\ <<>> \in Seq(Ids) /\ Len(<<>>) = 0
  OBVIOUS
<1>2. EmptyStore \in StoreRecord
  BY <1>1 DEF EmptyStore, StoreRecord, Directories, NoId
<1> QED
  BY <1>1, <1>2, SnapshotAssumption DEF Sound, InOrder, EmptyStore

\* The stores agree on everything but the directory id.
SameBut(id, st, st2) ==
    /\ st2.index = st.index /\ st2.current = st.current
    /\ \A i \in Ids : i # id =>
          /\ Exists(st2, i) <=> Exists(st, i)
          /\ Exists(st, i) => st2.dirs[i] = st.dirs[i]

\* One directory is written, and the rest of the store is left alone.
LEMMA WithDirIs ==
    ASSUME NEW st \in StoreRecord, NEW id \in Ids,
           NEW c \in SUBSET Changes, NEW h \in Health,
           NEW st2, st2 = WithDir(st, id, c, h)
    PROVE  /\ st2 \in StoreRecord /\ SameBut(id, st, st2)
           /\ Exists(st2, id) /\ st2.dirs[id] = [content |-> c, health |-> h]
<1>1. PICK D \in SUBSET Ids : st.dirs \in [D -> Snapshot]
  BY DEF StoreRecord, Directories
<1> DEFINE r  == [content |-> c, health |-> h]
           ds == [i \in D \cup {id} |-> IF i = id THEN r ELSE st.dirs[i]]
<1>2. DOMAIN st.dirs = D
  BY <1>1
<1>3. st2 = [st EXCEPT !.dirs = ds]
  BY <1>2 DEF WithDir
<1>4. r \in Snapshot
  BY DEF Snapshot
<1> HIDE DEF r
<1>5. ds \in [D \cup {id} -> Snapshot] /\ D \cup {id} \in SUBSET Ids
  BY <1>1, <1>4
<1>6. /\ DOMAIN ds = D \cup {id} /\ ds[id] = r
      /\ \A i \in D : i # id => ds[i] = st.dirs[i]
  OBVIOUS
<1> HIDE DEF ds
<1>7. ds \in Directories
  BY <1>5 DEF Directories
<1>8. /\ st2 \in StoreRecord
      /\ st2.dirs = ds /\ st2.index = st.index /\ st2.current = st.current
  BY <1>3, <1>7 DEF StoreRecord
<1> QED
  BY <1>2, <1>6, <1>8 DEF Exists, SameBut, r

\* Taking a directory away from a store, for _cleanup_old_snapshots.
Dropped(st, id, index) ==
    [st EXCEPT !.index = index, !.dirs = [i \in DOMAIN @ \ {id} |-> @[i]]]

LacksOnly(id, st, st2) ==
    \A i \in Ids : /\ Exists(st2, i) <=> Exists(st, i) /\ i # id
                   /\ Exists(st2, i) => st2.dirs[i] = st.dirs[i]

\* One directory is deleted, and the rest of them is left alone.
LEMMA DroppedIs ==
    ASSUME NEW st \in StoreRecord, NEW id \in Ids, NEW index \in Seq(Ids),
           NEW st2, st2 = Dropped(st, id, index)
    PROVE  /\ st2 \in StoreRecord /\ LacksOnly(id, st, st2)
           /\ st2.index = index /\ st2.current = st.current
<1>1. PICK D \in SUBSET Ids : st.dirs \in [D -> Snapshot]
  BY DEF StoreRecord, Directories
<1> DEFINE ds == [i \in D \ {id} |-> st.dirs[i]]
<1>2. DOMAIN st.dirs = D
  BY <1>1
<1>3. st2 = [st EXCEPT !.index = index, !.dirs = ds]
  BY <1>2 DEF Dropped
<1>4. /\ ds \in [D \ {id} -> Snapshot] /\ D \ {id} \in SUBSET Ids
      /\ DOMAIN ds = D \ {id} /\ \A i \in D \ {id} : ds[i] = st.dirs[i]
  BY <1>1
<1> HIDE DEF ds
<1>5. ds \in Directories
  BY <1>4 DEF Directories
<1>6. /\ st2 \in StoreRecord
      /\ st2.dirs = ds /\ st2.index = index /\ st2.current = st.current
  BY <1>3, <1>5 DEF StoreRecord
<1> QED
  BY <1>2, <1>4, <1>6 DEF Exists, LacksOnly

\* The index after a creation.
NextIndex(index) ==
    LET longer == Append(index, Len(index) + 1)
    IN  IF Len(index) < MaxSnapshots THEN longer ELSE Tail(longer)

\* The index after a creation: one number more until it is full, then it moves on by one.
LEMMA NextIndexIs ==
    ASSUME NEW index \in Seq(Ids), InOrder(index),
           NEW next, next = NextIndex(index)
    PROVE  /\ next \in Seq(Ids) /\ InOrder(next)
           /\ Len(next) = IF Len(index) < MaxSnapshots THEN Len(index) + 1 ELSE MaxSnapshots
           /\ next[Len(next)] = Len(index) + 1
           /\ next[1] = IF Len(index) < MaxSnapshots THEN 1
                        ELSE IF index[1] <= MaxSnapshots THEN index[1] + 1
                        ELSE MaxSnapshots + 1
           /\ \A i \in 1..(Len(next) - 1) :
                 next[i] = index[IF Len(index) < MaxSnapshots THEN i ELSE i + 1]
<1> DEFINE n == Len(index)
           longer == Append(index, n + 1)
<1>1. /\ n \in Nat /\ MaxSnapshots \in Nat /\ MaxSnapshots >= 1 /\ n <= MaxSnapshots
      /\ n + 1 \in Ids
  BY SnapshotAssumption DEF InOrder, Ids
<1>2. /\ \A i \in 1..n : index[i] \in 1..(MaxSnapshots + 1)
      /\ \A i \in 1..n : index[i] = IF index[1] + i - 1 <= MaxSnapshots
                                    THEN index[1] + i - 1 ELSE MaxSnapshots + 1
      /\ n \in 1..(MaxSnapshots - 1) => index[1] = 1
  <2>1. \A i \in 1..n : index[i] \in Ids
    OBVIOUS
  <2> QED
    BY <2>1 DEF InOrder, Ids
<1>3. /\ longer \in Seq(Ids) /\ Len(longer) = n + 1 /\ longer[n + 1] = n + 1
      /\ \A i \in 1..n : longer[i] = index[i]
  BY <1>1
<1>4. CASE n < MaxSnapshots
  <2>1. next = longer
    BY <1>4 DEF NextIndex
  <2> HIDE DEF longer, n
  <2>2. next[1] = 1
    <3>1. CASE n = 0
      BY <1>3, <2>1, <3>1
    <3>2. CASE n # 0
      BY <1>1, <1>2, <1>3, <1>4, <2>1, <3>2
    <3> QED
      BY <3>1, <3>2
  <2>3. \A i \in 1..(n + 1) : next[i] = i
    <3> TAKE i \in 1..(n + 1)
    <3>1. CASE i = n + 1
      BY <1>3, <2>1, <3>1
    <3>2. CASE i # n + 1
      <4>1. i \in 1..n /\ n \in 1..(MaxSnapshots - 1)
        BY <1>1, <1>4, <3>2
      <4> QED
        BY <1>1, <1>2, <1>3, <1>4, <2>1, <4>1
    <3> QED
      BY <3>1, <3>2
  <2>4. InOrder(next)
    BY <1>1, <1>3, <1>4, <2>1, <2>3 DEF InOrder
  <2> QED
    BY <1>1, <1>3, <1>4, <2>1, <2>2, <2>3, <2>4 DEF n
<1>5. CASE n = MaxSnapshots
  <2>1. next = Tail(longer)
    BY <1>1, <1>5 DEF NextIndex
  <2>2. /\ next \in Seq(Ids) /\ Len(next) = n
        /\ \A i \in 1..n : next[i] = longer[i + 1]
    BY <1>1, <1>3, <2>1
  <2> HIDE DEF longer, n
  <2>3. next[n] = n + 1 /\ \A i \in 1..(n - 1) : next[i] = index[i + 1]
    BY <1>1, <1>3, <1>5, <2>2
  <2>4. next[1] = IF index[1] <= MaxSnapshots THEN index[1] + 1 ELSE MaxSnapshots + 1
    <3>1. CASE n = 1
      BY <1>1, <1>2, <1>5, <2>3, <3>1
    <3>2. CASE n # 1
      <4>1. 1 \in 1..(n - 1) /\ 2 \in 1..n /\ 1 \in 1..n
        BY <1>1, <1>5, <3>2
      <4>2. next[1] = index[2]
        BY <2>3, <4>1
      <4> QED
        BY <1>1, <1>2, <4>1, <4>2
    <3> QED
      BY <3>1, <3>2
  <2>5. \A i \in 1..n : next[i] = IF next[1] + i - 1 <= MaxSnapshots
                                  THEN next[1] + i - 1 ELSE MaxSnapshots + 1
    <3> TAKE i \in 1..n
    <3>0. 1 \in 1..n /\ index[1] \in 1..(MaxSnapshots + 1)
      BY <1>1, <1>2, <1>5
    <3>1. CASE i = n
      BY <1>1, <1>5, <2>3, <2>4, <3>0, <3>1
    <3>2. CASE i # n
      <4>1. i \in 1..(n - 1) /\ i + 1 \in 1..n
        BY <1>1, <3>2
      <4>2. next[i] = index[i + 1]
        BY <2>3, <4>1
      <4>3. index[i + 1] = IF index[1] + i <= MaxSnapshots
                           THEN index[1] + i ELSE MaxSnapshots + 1
        BY <1>1, <1>2, <3>0, <4>1
      <4>4. i \in Nat /\ MaxSnapshots \in Nat
        BY <1>1, <1>5, <4>1
      <4>5. CASE index[1] <= MaxSnapshots
        <5>1. next[1] = index[1] + 1
          BY <2>4, <4>5
        <5>2. index[1] \in Nat
          BY <3>0, <4>4
        <5>3. next[1] + i - 1 = index[1] + i
          BY ONLY <4>4, <5>1, <5>2
        <5> QED
          BY ONLY <4>2, <4>3, <5>3
      <4>6. CASE ~(index[1] <= MaxSnapshots)
        <5>1. next[1] = MaxSnapshots + 1 /\ index[1] = MaxSnapshots + 1
          BY <2>4, <3>0, <4>4, <4>6
        <5> QED
          BY <4>2, <4>3, <4>4, <5>1
      <4> QED
        BY <4>5, <4>6
    <3> QED
      BY <3>1, <3>2
  <2>6. InOrder(next)
    BY <1>1, <1>5, <2>2, <2>5 DEF InOrder
  <2> QED
    BY <1>1, <1>5, <2>2, <2>3, <2>4, <2>6 DEF n
<1> QED
  BY <1>1, <1>4, <1>5

\* What a sequence with one more element looks like.
LEMMA AppendedIs ==
    ASSUME NEW S, NEW s \in Seq(S), NEW x \in S
    PROVE  /\ Append(s, x) \in Seq(S) /\ Len(Append(s, x)) = Len(s) + 1
           /\ Len(s) # 0 => Head(Append(s, x)) = s[1]
           /\ Tail(Append(s, x)) \in Seq(S)
<1> DEFINE t == Append(s, x)
<1>1. t \in Seq(S) /\ Len(t) = Len(s) + 1
  OBVIOUS
<1>2. Len(s) # 0 => t[1] = s[1]
  OBVIOUS
<1> HIDE DEF t
<1>3. t # <<>> /\ Head(t) = t[1]
  BY <1>1
<1>4. Tail(t) \in Seq(S)
  BY <1>1, <1>3
<1> QED
  BY <1>1, <1>2, <1>3, <1>4 DEF t

\* The number that a creation takes out of use.
Cleaned(st, id) == Len(st.index) = MaxSnapshots /\ id = st.index[1]

\* The other directories are as they were, but for the one that was deleted.
Others(id, st, st2) ==
    \A i \in Ids : i # id =>
        /\ Exists(st2, i) <=> Exists(st, i) /\ ~Cleaned(st, i)
        /\ Exists(st2, i) => st2.dirs[i] = st.dirs[i]

\* A creation writes one directory and deletes one at most; it may be the same.
LEMMA CreatedIs ==
    ASSUME NEW st, Sound(st), NEW c \in SUBSET Changes,
           NEW id, id = GenerateId(st), NEW st2, st2 = Created(st, c)
    PROVE  /\ id \in Ids /\ id = Len(st.index) + 1
           /\ Sound(st2) /\ st2.current = id
           /\ st2.index = NextIndex(st.index)
           /\ Exists(st2, id) <=> ~Cleaned(st, id)
           /\ Exists(st2, id) => st2.dirs[id] = [content |-> c, health |-> "UNKNOWN"]
           /\ Others(id, st, st2)
<1> DEFINE n      == Len(st.index)
           copied == WithDir(st, id, c, "UNKNOWN")
           longer == Append(st.index, id)
           named  == [copied EXCEPT !.index = longer, !.current = id]
<1>1. /\ st \in StoreRecord /\ st.index \in Seq(Ids) /\ InOrder(st.index)
      /\ n \in Nat /\ n <= MaxSnapshots /\ MaxSnapshots \in Nat \ {0}
      /\ id = n + 1 /\ id \in Ids
  BY SnapshotAssumption DEF Sound, StoreRecord, InOrder, GenerateId, Ids
<1>2. /\ copied \in StoreRecord /\ SameBut(id, st, copied)
      /\ Exists(copied, id) /\ copied.dirs[id] = [content |-> c, health |-> "UNKNOWN"]
  <2>1. "UNKNOWN" \in Health
    BY DEF Health
  <2> QED
    BY <1>1, <2>1, WithDirIs
<1>3. st2 = Cleanup(named)
  BY <1>2 DEF Created, SameBut
<1>4. /\ longer \in Seq(Ids) /\ Len(longer) = n + 1
      /\ n # 0 => Head(longer) = st.index[1]
      /\ Tail(longer) \in Seq(Ids)
  BY <1>1, AppendedIs
<1>5. /\ NextIndex(st.index) = IF n < MaxSnapshots THEN longer ELSE Tail(longer)
      /\ InOrder(NextIndex(st.index))
  BY <1>1, NextIndexIs DEF NextIndex
<1> HIDE DEF copied, longer, n
<1>6. /\ named \in StoreRecord /\ named.index = longer /\ named.current = id
      /\ named.dirs = copied.dirs
  BY <1>1, <1>2, <1>4 DEF StoreRecord
<1> HIDE DEF named
<1>7. /\ Exists(named, id) /\ named.dirs[id] = [content |-> c, health |-> "UNKNOWN"]
      /\ \A i \in Ids : i # id =>
            /\ Exists(named, i) <=> Exists(st, i)
            /\ Exists(st, i) => named.dirs[i] = st.dirs[i]
  BY <1>2, <1>6 DEF Exists, SameBut
<1>8. CASE n < MaxSnapshots
  <2>1. st2 = named
    BY <1>1, <1>3, <1>4, <1>6, <1>8 DEF Cleanup
  <2>2. \A i : ~Cleaned(st, i)
    BY <1>1, <1>8 DEF Cleaned, n
  <2>3. st2.index = NextIndex(st.index)
    BY <1>5, <1>6, <1>8, <2>1
  <2> QED
    BY <1>1, <1>5, <1>6, <1>7, <2>1, <2>2, <2>3 DEF Sound, Others, n
<1>9. CASE n = MaxSnapshots
  <2> DEFINE first == Head(longer)
             rest  == Tail(longer)
  <2>1. st2 = Dropped(named, first, rest)
    BY <1>1, <1>3, <1>4, <1>6, <1>9 DEF Cleanup, Dropped
  <2>2. first = st.index[1] /\ first \in Ids /\ rest \in Seq(Ids)
    BY <1>1, <1>4, <1>9 DEF n
  <2>3. rest = NextIndex(st.index)
    BY <1>1, <1>5, <1>9
  <2> HIDE DEF first, rest
  <2>4. \A i \in Ids : Cleaned(st, i) <=> i = first
    BY <1>1, <1>9, <2>2 DEF Cleaned, n
  <2>5. /\ st2 \in StoreRecord /\ LacksOnly(first, named, st2)
        /\ st2.index = rest /\ st2.current = named.current
    BY <1>6, <2>1, <2>2, DroppedIs
  <2>6. Sound(st2) /\ st2.current = id /\ st2.index = NextIndex(st.index)
    BY <1>5, <1>6, <2>3, <2>5 DEF Sound
  <2>7. /\ Exists(st2, id) <=> ~Cleaned(st, id)
        /\ Exists(st2, id) => st2.dirs[id] = [content |-> c, health |-> "UNKNOWN"]
    BY <1>1, <1>7, <2>4, <2>5 DEF LacksOnly
  <2>8. Others(id, st, st2)
    BY <1>7, <2>4, <2>5 DEF LacksOnly, Others
  <2> QED
    BY <1>1, <2>6, <2>7, <2>8 DEF n
<1> QED
  BY <1>1, <1>8, <1>9

\* A creation that fails disturbs one directory, which is not in the index
\* before its numbers are used again; what it writes comes from both sides.
LEMMA TornIs ==
    ASSUME NEW st, Sound(st), NEW c \in SUBSET Changes,
           NEW id, id = GenerateId(st), NEW st2 \in TornCreations(st, c)
    PROVE  /\ Sound(st2) /\ SameBut(id, st, st2) /\ Exists(st2, id) /\ id \in Ids
           /\ st2.dirs[id].content \in
                 Torn(c, IF Exists(st, id) THEN st.dirs[id].content ELSE {})
<1>1. st \in StoreRecord /\ id \in Ids
  BY SnapshotAssumption DEF Sound, StoreRecord, InOrder, GenerateId, Ids
<1> DEFINE old == IF Exists(st, id) THEN st.dirs[id]
                  ELSE [content |-> {}, health |-> "NONE"]
<1>2. /\ old \in Snapshot
      /\ old.content = IF Exists(st, id) THEN st.dirs[id].content ELSE {}
  BY <1>1 DEF StoreRecord, Directories, Exists, Snapshot, Health
<1>3. PICK t \in Torn(c, old.content) : st2 = WithDir(st, id, t, old.health)
  BY DEF TornCreations
<1>4. old.content \in SUBSET Changes /\ old.health \in Health
  BY <1>2 DEF Snapshot
<1> HIDE DEF old
<1>5. PICK h \in Health : t \in SUBSET Changes /\ st2 = WithDir(st, id, t, h)
  BY <1>3, <1>4 DEF Torn
<1>6. /\ st2 \in StoreRecord /\ SameBut(id, st, st2) /\ Exists(st2, id)
      /\ st2.dirs[id] = [content |-> t, health |-> h]
  BY <1>1, <1>5, WithDirIs
<1> QED
  BY <1>1, <1>2, <1>3, <1>6 DEF Sound, SameBut

\* A health mark changes nothing but itself, if it does that.
LEMMA MarkedIs ==
    ASSUME NEW st, Sound(st), NEW id \in Ids, NEW h \in Health,
           NEW st2, st2 = Marked(st, id, h)
    PROVE  /\ Sound(st2) /\ SameBut(id, st, st2)
           /\ Exists(st2, id) <=> Exists(st, id)
           /\ Exists(st, id) => /\ st2.dirs[id].content = st.dirs[id].content
                               /\ st2.dirs[id].health \in {h, st.dirs[id].health}
<1>1. CASE ~(Exists(st, id) /\ st.dirs[id].health # "NONE")
  BY <1>1 DEF Marked, SameBut
<1>2. CASE Exists(st, id) /\ st.dirs[id].health # "NONE"
  <2>1. st \in StoreRecord /\ st.dirs[id].content \in SUBSET Changes
    BY <1>2 DEF Sound, StoreRecord, Directories, Exists, Snapshot
  <2>2. st2 = WithDir(st, id, st.dirs[id].content, h)
    BY <1>2 DEF Marked
  <2>3. /\ st2 \in StoreRecord /\ SameBut(id, st, st2) /\ Exists(st2, id)
        /\ st2.dirs[id] = [content |-> st.dirs[id].content, health |-> h]
    BY <2>1, <2>2, WithDirIs
  <2> QED
    BY <1>2, <2>3 DEF Sound, SameBut
<1> QED
  BY <1>1, <1>2

\* What IndexOnDisk says of a store.
OnDisk(st) ==
    /\ st.index # <<>> => st.current = st.index[Len(st.index)]
    /\ \A i \in 1..Len(st.index) :
          st.index[i] <= MaxSnapshots => Exists(st, st.index[i])

\* The numbers of the index below the last one are all different, so the
\* directory that is deleted is not one of those that stay in the index.
LEMMA CreatedIsOnDisk ==
    ASSUME NEW st, Sound(st), OnDisk(st), NEW c \in SUBSET Changes,
           NEW st2, st2 = Created(st, c)
    PROVE  OnDisk(st2)
<1> DEFINE n == Len(st.index)
<1>1. PICK id : id = GenerateId(st)
  OBVIOUS
<1>2. /\ id \in Ids /\ id = n + 1 /\ Sound(st2) /\ st2.current = id
      /\ st2.index = NextIndex(st.index)
      /\ Exists(st2, id) <=> ~Cleaned(st, id)
      /\ Others(id, st, st2)
  BY <1>1, CreatedIs
<1>3. /\ st.index \in Seq(Ids) /\ InOrder(st.index) /\ n \in Nat /\ n <= MaxSnapshots
      /\ MaxSnapshots \in Nat \ {0} /\ \A i \in 1..n : st.index[i] \in Ids
  BY SnapshotAssumption DEF Sound, StoreRecord, InOrder
<1> DEFINE next == st2.index
           k == Len(next)
<1>4. /\ next \in Seq(Ids) /\ InOrder(next)
      /\ k = IF n < MaxSnapshots THEN n + 1 ELSE MaxSnapshots
      /\ next[k] = n + 1
      /\ \A i \in 1..(k - 1) : next[i] = st.index[IF n < MaxSnapshots THEN i ELSE i + 1]
  BY <1>2, <1>3, NextIndexIs
<1> HIDE DEF n, next, k
<1>5. k \in 1..MaxSnapshots
  BY <1>3, <1>4
<1>6. ASSUME NEW i \in 1..k, next[i] <= MaxSnapshots
      PROVE  Exists(st2, next[i])
  <2>1. CASE i = k
    <3>1. n < MaxSnapshots /\ next[i] = id
      BY <1>2, <1>3, <1>4, <1>6, <2>1
    <3>2. ~Cleaned(st, id)
      BY <1>3, <3>1 DEF Cleaned, n
    <3> QED
      BY <1>2, <3>1, <3>2
  <2>2. CASE i # k /\ n < MaxSnapshots
    <3>1. i \in 1..n /\ next[i] = st.index[i] /\ next[i] \in Ids
      BY <1>3, <1>4, <2>2
    <3>2. Exists(st, next[i])
      BY <1>6, <3>1 DEF OnDisk, n
    <3>3. next[i] # id
      <4>1. n \in 1..(MaxSnapshots - 1)
        BY <1>3, <2>2, <3>1
      <4>2. st.index[1] = 1 /\ 1 \in 1..n
        BY <4>1 DEF InOrder, Sound, n
      <4>3. st.index[i] = i
        BY <1>3, <2>2, <3>1, <4>1, <4>2 DEF InOrder, n
      <4> QED
        BY <1>2, <1>3, <3>1, <4>3
    <3>4. ~Cleaned(st, next[i])
      BY <1>3, <2>2 DEF Cleaned, n
    <3> QED
      BY <1>2, <3>1, <3>2, <3>3, <3>4 DEF Others
  <2>3. CASE i # k /\ n = MaxSnapshots
    <3>1. i + 1 \in 1..n /\ next[i] = st.index[i + 1] /\ next[i] \in Ids
      <4>1. k = n /\ i \in 1..(k - 1) /\ i + 1 \in 1..n
        BY <1>3, <1>4, <1>5, <2>3
      <4>2. next[i] = st.index[i + 1]
        BY <1>3, <1>4, <2>3, <4>1
      <4> QED
        BY <1>3, <4>1, <4>2
    <3>2. Exists(st, next[i])
      BY <1>6, <3>1 DEF OnDisk, n
    <3>3. next[i] # id
      BY <1>2, <1>3, <1>6, <2>3
    <3>4. ~Cleaned(st, next[i])
      <4>1. st.index[1] \in 1..(MaxSnapshots + 1)
        BY <1>3, <2>3, <3>1 DEF Ids
      <4>2. st.index[i + 1] = IF st.index[1] + i <= MaxSnapshots
                              THEN st.index[1] + i ELSE MaxSnapshots + 1
        BY <1>3, <3>1, <4>1 DEF InOrder, n
      <4>3. next[i] # st.index[1]
        <5>1. i \in Nat /\ i >= 1
          BY <1>5
        <5>2. next[i] = st.index[1] + i
          BY <1>3, <1>6, <3>1, <4>2
        <5> QED
          BY <4>1, <5>1, <5>2
      <4> QED
        BY <4>3 DEF Cleaned
    <3> QED
      BY <1>2, <3>1, <3>2, <3>3, <3>4 DEF Others
  <2> QED
    BY <1>3, <2>1, <2>2, <2>3
<1> QED
  BY <1>2, <1>4, <1>6 DEF OnDisk, next, k

-----------------------------------------------------------------------------
(* The history of snapshots. *)

\* The number of creations determines the index.
Counted ==
    /\ Len(store.index) = IF created <= MaxSnapshots THEN created ELSE MaxSnapshots
    /\ created # 0 =>
          store.index[1] = IF created <= MaxSnapshots THEN 1
                           ELSE IF created <= 2 * MaxSnapshots
                                THEN created - MaxSnapshots + 1
                           ELSE MaxSnapshots + 1

\* The inductive invariant of the history.
HistoryInv ==
    /\ Sound(store) /\ HistoryTypeOK /\ Counted
    /\ OnDisk(store) /\ LatestRestorable /\ IntactUntilFull

\* The first state satisfies it.
LEMMA HistoryInitInv == HistoryInit => HistoryInv
<1> SUFFICES ASSUME HistoryInit PROVE HistoryInv
  OBVIOUS
<1>1. Sound(store) /\ store.index = <<>> /\ created = 0 /\ Len(store.index) = 0
  BY EmptyIsSound DEF HistoryInit, EmptyStore
<1>2. StoreType(store)
  BY <1>1, SoundHasType
<1>3. HistoryTypeOK
  <2>1. created \in 0..MaxCreates
    BY <1>1, MaxCreatesAssumption
  <2>2. taken \in [Ids -> SUBSET Changes]
    BY DEF HistoryInit
  <2> QED
    BY <1>2, <2>1, <2>2 DEF HistoryInit, HistoryTypeOK
<1> QED
  BY <1>1, <1>3, SnapshotAssumption
     DEF HistoryInit, HistoryInv, Counted, OnDisk, LatestRestorable, IntactUntilFull

\* A step of the runtime alone keeps it: nothing else of it mentions the runtime.
LEMMA RuntimeAloneInv ==
    ASSUME HistoryInv, runtime' \in SUBSET Changes,
           UNCHANGED <<store, created, taken, torn>>
    PROVE  HistoryInv'
BY DEF HistoryInv, HistoryTypeOK, Counted, LatestRestorable, IntactUntilFull

\* A creation keeps it.
LEMMA CreateSnapshotInv ==
    ASSUME HistoryInv, CreateSnapshot
    PROVE  HistoryInv'
<1> DEFINE n == Len(store.index)
<1>1. PICK id : id = GenerateId(store)
  OBVIOUS
<1>2. PICK st2 : st2 = Created(store, runtime)
  OBVIOUS
<1>3. Sound(store) /\ OnDisk(store) /\ runtime \in SUBSET Changes
  BY DEF HistoryInv, HistoryTypeOK
<1>4. /\ id \in Ids /\ id = n + 1 /\ Sound(st2) /\ st2.current = id
      /\ st2.index = NextIndex(store.index)
      /\ Exists(st2, id) <=> ~Cleaned(store, id)
      /\ Exists(st2, id) => st2.dirs[id] = [content |-> runtime, health |-> "UNKNOWN"]
      /\ Others(id, store, st2)
  BY <1>1, <1>2, <1>3, CreatedIs
<1>5. OnDisk(st2)
  BY <1>2, <1>3, CreatedIsOnDisk
<1>6. /\ store' = st2 /\ created' = created + 1 /\ torn' = FALSE
      /\ taken' = [taken EXCEPT ![id] = runtime] /\ runtime' = runtime
      /\ created < MaxCreates
  BY <1>1, <1>2 DEF CreateSnapshot
<1>7. /\ store.index \in Seq(Ids) /\ InOrder(store.index) /\ n \in Nat /\ n <= MaxSnapshots
      /\ MaxSnapshots \in Nat \ {0} /\ created \in Nat /\ created \in 0..MaxCreates
      /\ taken \in [Ids -> SUBSET Changes] /\ MaxCreates \in Nat
  BY SnapshotAssumption, MaxCreatesAssumption
     DEF HistoryInv, HistoryTypeOK, Sound, StoreRecord, InOrder
<1>8. HistoryTypeOK'
  <2>1. StoreType(st2)
    BY <1>4, SoundHasType
  <2>2. created' \in 0..MaxCreates
    BY <1>6, <1>7
  <2>3. taken' \in [Ids -> SUBSET Changes]
    BY <1>3, <1>4, <1>6, <1>7
  <2> QED
    BY <1>3, <1>6, <2>1, <2>2, <2>3 DEF HistoryTypeOK
<1> DEFINE next == st2.index
           k == Len(next)
<1>9. /\ next \in Seq(Ids) /\ InOrder(next)
      /\ k = IF n < MaxSnapshots THEN n + 1 ELSE MaxSnapshots
      /\ next[k] = n + 1
      /\ next[1] = IF n < MaxSnapshots THEN 1
                   ELSE IF store.index[1] <= MaxSnapshots THEN store.index[1] + 1
                   ELSE MaxSnapshots + 1
      /\ \A i \in 1..(k - 1) :
            next[i] = store.index[IF n < MaxSnapshots THEN i ELSE i + 1]
  BY <1>4, <1>7, NextIndexIs
<1>10. /\ n = IF created <= MaxSnapshots THEN created ELSE MaxSnapshots
       /\ created # 0 =>
             store.index[1] = IF created <= MaxSnapshots THEN 1
                              ELSE IF created <= 2 * MaxSnapshots
                                   THEN created - MaxSnapshots + 1
                              ELSE MaxSnapshots + 1
  BY DEF HistoryInv, Counted
<1> HIDE DEF n, next, k
<1>11. Counted'
  <2>1. k = IF created + 1 <= MaxSnapshots THEN created + 1 ELSE MaxSnapshots
    BY <1>7, <1>9, <1>10
  <2>2. next[1] = IF created + 1 <= MaxSnapshots THEN 1
                  ELSE IF created + 1 <= 2 * MaxSnapshots
                       THEN created + 1 - MaxSnapshots + 1
                  ELSE MaxSnapshots + 1
    <3>1. CASE created < MaxSnapshots
      BY <1>7, <1>9, <1>10, <3>1
    <3>2. CASE created = MaxSnapshots
      BY <1>7, <1>9, <1>10, <3>2
    <3>3. CASE created > MaxSnapshots
      BY <1>7, <1>9, <1>10, <3>3
    <3> QED
      BY <1>7, <3>1, <3>2, <3>3
  <2> QED
    BY <1>6, <1>7, <2>1, <2>2 DEF Counted, next, k
<1>12. LatestRestorable'
  <2> SUFFICES ASSUME created + 1 <= 2 * MaxSnapshots
               PROVE  Exists(st2, id) /\ st2.dirs[id].content = taken'[id]
    BY <1>4, <1>6, <1>7 DEF LatestRestorable
  <2>1. ~(n = MaxSnapshots /\ store.index[1] = id)
    <3> SUFFICES ASSUME n = MaxSnapshots, store.index[1] = n + 1
                 PROVE  FALSE
      BY <1>4 DEF n
    <3>1. CASE created = MaxSnapshots
      BY <1>7, <1>10, <3>1
    <3>2. CASE created > MaxSnapshots
      BY <1>7, <1>10, <3>2
    <3> QED
      BY <1>7, <1>10, <3>1, <3>2
  <2>2. Exists(st2, id)
    BY <1>4, <2>1 DEF Cleaned, n
  <2>3. st2.dirs[id].content = runtime
    BY <1>4, <2>2
  <2> QED
    BY <1>4, <1>6, <1>7, <2>2, <2>3
<1>13. IntactUntilFull'
  <2> SUFFICES ASSUME created + 1 <= MaxSnapshots, NEW i \in 1..k
               PROVE  Exists(st2, next[i]) /\ st2.dirs[next[i]].content = taken'[next[i]]
    BY <1>6 DEF IntactUntilFull, next, k
  <2>1. n = created /\ n < MaxSnapshots /\ k = n + 1
    BY <1>7, <1>9, <1>10
  <2>2. \A j \in Ids : ~Cleaned(store, j)
    BY <1>7, <2>1 DEF Cleaned, n
  <2>3. CASE i = k
    <3>1. next[i] = id /\ Exists(st2, id)
      BY <1>4, <1>9, <2>1, <2>2, <2>3 DEF n
    <3>2. st2.dirs[id].content = runtime
      BY <1>4, <3>1
    <3> QED
      BY <1>4, <1>6, <1>7, <3>1, <3>2
  <2>4. CASE i # k
    <3>1. i \in 1..n /\ i \in 1..(k - 1)
      BY <1>7, <2>1, <2>4
    <3>2. next[i] = store.index[i] /\ next[i] \in Ids
      BY <1>7, <1>9, <2>1, <3>1 DEF n
    <3>3. Exists(store, next[i]) /\ store.dirs[next[i]].content = taken[next[i]]
      BY <1>7, <2>1, <3>1, <3>2 DEF HistoryInv, IntactUntilFull, n
    <3>4. next[i] # id
      <4>1. n \in 1..(MaxSnapshots - 1)
        BY <1>7, <2>1, <3>1
      <4>2. store.index[1] = 1
        BY <1>7, <4>1 DEF InOrder, n
      <4>3. store.index[i] = i
        BY <1>7, <2>1, <3>1, <4>1, <4>2 DEF InOrder, n
      <4> QED
        BY <1>4, <1>7, <3>1, <3>2, <4>3 DEF n
    <3> QED
      BY <1>6, <1>7, <2>2, <3>2, <3>3, <3>4, <1>4 DEF Others
  <2> QED
    BY <2>3, <2>4
<1> QED
  BY <1>4, <1>5, <1>6, <1>8, <1>11, <1>12, <1>13 DEF HistoryInv

\* A creation that fails keeps it: until the index is full, it disturbs a
\* directory that the index does not name.
LEMMA CreateFailsInv ==
    ASSUME HistoryInv, CreateFails
    PROVE  HistoryInv'
<1> DEFINE n == Len(store.index)
<1>1. PICK id : id = GenerateId(store)
  OBVIOUS
<1>2. /\ Sound(store) /\ runtime \in SUBSET Changes
      /\ store' \in TornCreations(store, runtime)
      /\ torn' = TRUE /\ UNCHANGED <<runtime, created, taken>>
  BY DEF HistoryInv, HistoryTypeOK, CreateFails
<1>3. Sound(store') /\ SameBut(id, store, store') /\ Exists(store', id)
  BY <1>1, <1>2, TornIs
<1>4. /\ store.index \in Seq(Ids) /\ InOrder(store.index) /\ n \in Nat
      /\ MaxSnapshots \in Nat \ {0} /\ created \in Nat /\ id = n + 1
      /\ \A i \in 1..n : store.index[i] \in Ids
  BY <1>1, <1>2, SnapshotAssumption
     DEF HistoryInv, HistoryTypeOK, Sound, StoreRecord, GenerateId
<1>5. HistoryTypeOK'
  <2>1. StoreType(store')
    BY <1>3, SoundHasType
  <2> QED
    BY <1>2, <2>1 DEF HistoryInv, HistoryTypeOK
<1>6. store'.index = store.index /\ store'.current = store.current
  BY <1>3 DEF SameBut
<1>7. Counted'
  BY <1>2, <1>6 DEF HistoryInv, Counted
<1>8. OnDisk(store')
  BY <1>3, <1>4, <1>6 DEF HistoryInv, OnDisk, SameBut
<1>9. LatestRestorable'
  BY <1>2 DEF LatestRestorable
<1>10. IntactUntilFull'
  <2> SUFFICES ASSUME created <= MaxSnapshots, NEW i \in 1..n
               PROVE  /\ Exists(store', store.index[i])
                      /\ store'.dirs[store.index[i]].content = taken[store.index[i]]
    BY <1>2, <1>6 DEF IntactUntilFull
  <2>1. n = created /\ (created # 0 => store.index[1] = 1)
    BY DEF HistoryInv, Counted
  <2>2. store.index[i] = i
    <3>1. i >= 1 /\ i <= MaxSnapshots /\ i \in Nat /\ created # 0
      BY <1>4, <2>1
    <3>2. store.index[i] = IF store.index[1] + i - 1 <= MaxSnapshots
                           THEN store.index[1] + i - 1 ELSE MaxSnapshots + 1
      BY <1>4 DEF InOrder
    <3> QED
      BY <1>4, <2>1, <3>1, <3>2
  <2>3. store.index[i] # id /\ store.index[i] \in Ids
    BY <1>4, <2>2
  <2>4. /\ Exists(store, store.index[i])
        /\ store.dirs[store.index[i]].content = taken[store.index[i]]
    BY DEF HistoryInv, IntactUntilFull
  <2> QED
    BY <1>3, <2>3, <2>4 DEF SameBut
<1> QED
  BY <1>3, <1>5, <1>7, <1>8, <1>9, <1>10 DEF HistoryInv

\* Every behaviour of the history satisfies it.
LEMMA HistoryInvariance == HistorySpec => []HistoryInv
<1>1. ASSUME HistoryInv, [HistoryNext]_historyVars
      PROVE  HistoryInv'
  <2>1. runtime \in SUBSET Changes /\ Sound(store)
    BY <1>1 DEF HistoryInv, HistoryTypeOK
  <2>2. CASE Edit
    BY <1>1, <2>1, <2>2, RuntimeAloneInv DEF Edit
  <2>3. CASE CreateSnapshot
    BY <1>1, <2>3, CreateSnapshotInv
  <2>4. CASE CreateFails
    BY <1>1, <2>4, CreateFailsInv
  <2>5. ASSUME NEW id \in Ids, RestoreSnapshot(id) \/ RestoreFails(id)
        PROVE  HistoryInv'
    <3>1. store.dirs[id].content \in SUBSET Changes
      BY <2>1, <2>5
         DEF RestoreSnapshot, RestoreFails, Exists, Sound, StoreRecord, Directories, Snapshot
    <3>2. runtime' \in SUBSET Changes
      BY <2>1, <2>5, <3>1 DEF RestoreSnapshot, RestoreFails, Torn
    <3>3. UNCHANGED <<store, created, taken, torn>>
      BY <2>5 DEF RestoreSnapshot, RestoreFails
    <3> QED
      BY <1>1, <3>2, <3>3, RuntimeAloneInv
  <2>6. CASE UNCHANGED historyVars
    BY <1>1, <2>1, <2>6, RuntimeAloneInv DEF historyVars
  <2> QED
    BY <1>1, <2>2, <2>3, <2>4, <2>5, <2>6 DEF HistoryNext
<1> QED
  BY <1>1, HistoryInitInv, PTL DEF HistorySpec

\* Every operation of the snapshot engine keeps its data well-typed: in
\* particular a number is never above max_snapshots + 1.
THEOREM HistoryTypeInvariance == HistorySpec => []HistoryTypeOK
<1>1. HistoryInv => HistoryTypeOK
  BY DEF HistoryInv
<1> QED
  BY <1>1, HistoryInvariance, PTL

\* Whatever is created, restored or fails, the index ends with the current
\* snapshot and names no directory that is gone, but for the reused number.
THEOREM IndexIsOnDisk == HistorySpec => []IndexOnDisk
<1>1. HistoryInv => IndexOnDisk
  BY DEF HistoryInv, OnDisk, IndexOnDisk
<1> QED
  BY <1>1, HistoryInvariance, PTL

\* For any bound of the index, the newest of the first 2 * max_snapshots
\* snapshots is there and is the runtime as it was when it was taken.
THEOREM LatestIsRestorable == HistorySpec => []LatestRestorable
<1>1. HistoryInv => LatestRestorable
  BY DEF HistoryInv
<1> QED
  BY <1>1, HistoryInvariance, PTL

\* The other side of that bound.
NewestIsGone ==
    (created > 2 * MaxSnapshots /\ ~torn) => ~Exists(store, store.current)

\* For any bound of the index, every creation after the first 2 * max_snapshots
\* ones deletes the directory that it has just made, and is the current snapshot
\* all the same: LatestRestorable could not claim more.
THEOREM NewestIsLost == HistorySpec => []NewestIsGone
<1>1. HistoryInit => NewestIsGone
  BY SnapshotAssumption DEF HistoryInit, NewestIsGone
<1>2. ASSUME HistoryInv, NewestIsGone, [HistoryNext]_historyVars
      PROVE  NewestIsGone'
  <2>1. CASE CreateSnapshot
    <3>1. PICK id : id = GenerateId(store)
      OBVIOUS
    <3>2. /\ Sound(store) /\ runtime \in SUBSET Changes /\ created \in Nat
          /\ MaxSnapshots \in Nat \ {0}
      BY <1>2, SnapshotAssumption DEF HistoryInv, HistoryTypeOK
    <3>3. /\ id = Len(store.index) + 1 /\ store'.current = id
          /\ Exists(store', id) <=> ~Cleaned(store, id)
      BY <2>1, <3>1, <3>2, CreatedIs DEF CreateSnapshot
    <3>4. ASSUME created + 1 > 2 * MaxSnapshots
          PROVE  Len(store.index) = MaxSnapshots /\ store.index[1] = MaxSnapshots + 1
      <4>1. created # 0 /\ ~(created < MaxSnapshots)
        BY <3>2, <3>4
      <4>2. CASE created = MaxSnapshots
        BY <1>2, <3>2, <3>4, <4>1, <4>2 DEF HistoryInv, Counted
      <4>3. CASE created > MaxSnapshots
        BY <1>2, <3>2, <3>4, <4>1, <4>3 DEF HistoryInv, Counted
      <4> QED
        BY <3>2, <4>1, <4>2, <4>3
    <3> QED
      BY <2>1, <3>3, <3>4 DEF CreateSnapshot, NewestIsGone, Cleaned
  <2>2. CASE CreateFails
    BY <2>2 DEF CreateFails, NewestIsGone
  <2>3. CASE UNCHANGED <<store, created, torn>>
    BY <1>2, <2>3 DEF NewestIsGone
  <2> QED
    BY <1>2, <2>1, <2>2, <2>3
       DEF HistoryNext, historyVars, Edit, RestoreSnapshot, RestoreFails
<1> QED
  BY <1>1, <1>2, HistoryInvariance, PTL DEF HistorySpec

\* For any bound of the index, no snapshot is disturbed before it is full.
THEOREM SnapshotsAreIntactUntilFull == HistorySpec => []IntactUntilFull
<1>1. HistoryInv => IntactUntilFull
  BY DEF HistoryInv
<1> QED
  BY <1>1, HistoryInvariance, PTL

-----------------------------------------------------------------------------
(* The snapshot of a mutation, in a store. *)

\* Until the index is full, a number that is in use is in the index.
Room(st, id) == Len(st.index) < MaxSnapshots => id <= Len(st.index)

\* While the number id is in the index and not used again, the snapshot lacks
\* the change m and is not marked as failed.
Safe(st, m, id) ==
    (st.index[1] <= id /\ id <= MaxSnapshots) =>
        Exists(st, id) /\ m \notin st.dirs[id].content /\ st.dirs[id].health # "FAIL"

\* A creation spares the numbers in use, but for the one that is used again.
LEMMA CreatedKeeps ==
    ASSUME NEW st, Sound(st), NEW c \in SUBSET Changes,
           NEW st2, st2 = Created(st, c),
           NEW id \in Ids, Room(st, id)
    PROVE  /\ Room(st2, id)
           /\ id = GenerateId(st) => id = MaxSnapshots + 1
           /\ \A m : Safe(st, m, id) => Safe(st2, m, id)
<1> DEFINE n == Len(st.index)
<1>1. PICK new : new = GenerateId(st)
  OBVIOUS
<1>2. /\ new = n + 1 /\ st2.index = NextIndex(st.index)
      /\ Others(new, st, st2)
  BY <1>1, CreatedIs
<1>3. /\ st.index \in Seq(Ids) /\ InOrder(st.index) /\ n \in Nat /\ n <= MaxSnapshots
      /\ MaxSnapshots \in Nat \ {0} /\ id \in Nat /\ id >= 1
      /\ n < MaxSnapshots => id <= n
      /\ n # 0 => st.index[1] \in 1..(MaxSnapshots + 1)
      /\ n \in 1..(MaxSnapshots - 1) => st.index[1] = 1
  BY SnapshotAssumption DEF Sound, StoreRecord, InOrder, Ids, Room
<1> DEFINE next == st2.index
<1>4. /\ Len(next) = IF n < MaxSnapshots THEN n + 1 ELSE MaxSnapshots
      /\ next[1] = IF n < MaxSnapshots THEN 1
                   ELSE IF st.index[1] <= MaxSnapshots THEN st.index[1] + 1
                   ELSE MaxSnapshots + 1
  BY <1>2, <1>3, NextIndexIs
<1> HIDE DEF n, next
<1>5. Room(st2, id)
  BY <1>3, <1>4 DEF Room, next
<1>6. new = id => id = MaxSnapshots + 1
  BY <1>2, <1>3
<1>7. ASSUME NEW m, Safe(st, m, id), next[1] <= id, id <= MaxSnapshots
      PROVE  Exists(st2, id) /\ st2.dirs[id] = st.dirs[id] /\ st.index[1] <= id
  <2>1. st.index[1] <= id
    BY <1>3, <1>4, <1>7
  <2>2. Exists(st, id)
    BY <1>7, <2>1 DEF Safe
  <2>3. ~Cleaned(st, id)
    BY <1>3, <1>4, <1>7 DEF Cleaned, n
  <2>4. id # new
    BY <1>3, <1>6, <1>7
  <2> QED
    BY <1>2, <2>1, <2>2, <2>3, <2>4 DEF Others
<1> QED
  BY <1>1, <1>5, <1>6, <1>7 DEF Safe, next

\* A new snapshot is safe for a change that is not made yet.
LEMMA CreatedIsSafe ==
    ASSUME NEW st, Sound(st), NEW c \in SUBSET Changes,
           NEW st2, st2 = Created(st, c), NEW id, id = GenerateId(st)
    PROVE  /\ Room(st2, id)
           /\ \A m : m \notin c => Safe(st2, m, id)
           /\ Exists(st2, id) => st2.dirs[id].content = c
           /\ Head(st2.index) <= MaxSnapshots => Exists(st2, id)
<1> DEFINE n == Len(st.index)
<1>2. /\ id = n + 1 /\ st2.index = NextIndex(st.index)
      /\ Exists(st2, id) <=> ~Cleaned(st, id)
      /\ Exists(st2, id) => st2.dirs[id] = [content |-> c, health |-> "UNKNOWN"]
  BY CreatedIs
<1>3. /\ st.index \in Seq(Ids) /\ InOrder(st.index) /\ n \in Nat /\ n <= MaxSnapshots
      /\ MaxSnapshots \in Nat \ {0}
      /\ n # 0 => st.index[1] \in 1..(MaxSnapshots + 1)
  BY SnapshotAssumption DEF Sound, StoreRecord, InOrder, Ids
<1> DEFINE next == st2.index
<1>4. /\ next \in Seq(Ids)
      /\ Len(next) = IF n < MaxSnapshots THEN n + 1 ELSE MaxSnapshots
      /\ next[1] = IF n < MaxSnapshots THEN 1
                   ELSE IF st.index[1] <= MaxSnapshots THEN st.index[1] + 1
                   ELSE MaxSnapshots + 1
  BY <1>2, <1>3, NextIndexIs
<1> HIDE DEF next
<1>5. Head(next) = next[1]
  BY <1>3, <1>4
<1> HIDE DEF n
<1>6. Room(st2, id)
  BY <1>2, <1>3, <1>4 DEF Room, next
<1>7. n < MaxSnapshots => Exists(st2, id)
  BY <1>2, <1>3 DEF Cleaned, n
<1>8. Exists(st2, id) => st2.dirs[id].content = c /\ st2.dirs[id].health # "FAIL"
  BY <1>2
<1>9. next[1] <= MaxSnapshots => Exists(st2, id)
  <2> SUFFICES ASSUME next[1] <= MaxSnapshots, n = MaxSnapshots
               PROVE  Exists(st2, id)
    BY <1>3, <1>7
  <2>1. st.index[1] # id
    BY <1>2, <1>3, <1>4
  <2> QED
    BY <1>2, <2>1 DEF Cleaned
<1>10. id <= MaxSnapshots => Exists(st2, id)
  BY <1>2, <1>3, <1>7
<1> QED
  BY <1>5, <1>6, <1>8, <1>9, <1>10 DEF Safe, next

\* A creation that fails spares the numbers in use as well.
LEMMA TornKeeps ==
    ASSUME NEW st, Sound(st), NEW c \in SUBSET Changes,
           NEW st2 \in TornCreations(st, c),
           NEW id \in Ids, Room(st, id)
    PROVE  Room(st2, id) /\ \A m : Safe(st, m, id) => Safe(st2, m, id)
<1>1. PICK new : new = GenerateId(st)
  OBVIOUS
<1>2. SameBut(new, st, st2)
  BY <1>1, TornIs
<1>3. new = id => id = MaxSnapshots + 1
  <2>1. /\ Len(st.index) \in Nat /\ Len(st.index) <= MaxSnapshots
        /\ MaxSnapshots \in Nat /\ id \in Nat
    BY SnapshotAssumption DEF Sound, StoreRecord, InOrder, Ids
  <2> QED
    BY <1>1, <2>1 DEF Room, GenerateId
<1>4. id <= MaxSnapshots => id # new
  BY <1>3, SnapshotAssumption DEF Ids
<1> QED
  BY <1>2, <1>4 DEF SameBut, Room, Safe

\* A mark leaves the snapshots of the others as they are, and its own unless
\* it is "FAIL".
LEMMA MarkedKeeps ==
    ASSUME NEW st, Sound(st), NEW marked \in Ids, NEW h \in Health,
           NEW st2, st2 = Marked(st, marked, h), NEW id \in Ids
    PROVE  /\ Room(st, id) => Room(st2, id)
           /\ (id # marked \/ h # "FAIL") =>
                 \A m : Safe(st, m, id) => Safe(st2, m, id)
<1>1. /\ SameBut(marked, st, st2)
      /\ Exists(st2, marked) <=> Exists(st, marked)
      /\ Exists(st, marked) => /\ st2.dirs[marked].content = st.dirs[marked].content
                               /\ st2.dirs[marked].health \in {h, st.dirs[marked].health}
  BY MarkedIs
<1>2. CASE id # marked
  BY <1>1, <1>2 DEF SameBut, Room, Safe
<1>3. CASE id = marked
  BY <1>1, <1>3 DEF SameBut, Room, Safe
<1> QED
  BY <1>2, <1>3

\* No directory of the store contains the change m.
Lacks(st, m) == \A i \in Ids : Exists(st, i) => m \notin st.dirs[i].content

\* A snapshot contains a change only if the runtime or an older one did.
LEMMA LacksKeeps ==
    ASSUME NEW st, Sound(st), NEW m, Lacks(st, m), NEW st2,
           \/ \E c \in SUBSET Changes : m \notin c /\ st2 = Created(st, c)
           \/ \E c \in SUBSET Changes : m \notin c /\ st2 \in TornCreations(st, c)
           \/ \E id \in Ids, h \in Health : st2 = Marked(st, id, h)
    PROVE  Lacks(st2, m)
<1>1. ASSUME NEW c \in SUBSET Changes, m \notin c, st2 = Created(st, c)
      PROVE  Lacks(st2, m)
  <2>1. PICK id : id = GenerateId(st)
    OBVIOUS
  <2>2. /\ Exists(st2, id) => st2.dirs[id] = [content |-> c, health |-> "UNKNOWN"]
        /\ Others(id, st, st2)
    BY <1>1, <2>1, CreatedIs
  <2> QED
    BY <1>1, <2>2 DEF Lacks, Others
<1>2. ASSUME NEW c \in SUBSET Changes, m \notin c, st2 \in TornCreations(st, c)
      PROVE  Lacks(st2, m)
  <2>1. PICK id : id = GenerateId(st)
    OBVIOUS
  <2>2. /\ SameBut(id, st, st2) /\ id \in Ids
        /\ st2.dirs[id].content \in
              Torn(c, IF Exists(st, id) THEN st.dirs[id].content ELSE {})
    BY <1>2, <2>1, TornIs
  <2>3. m \notin st2.dirs[id].content
    BY <1>2, <2>2 DEF Lacks, Torn
  <2> QED
    BY <2>2, <2>3 DEF Lacks, SameBut
<1>3. ASSUME NEW id \in Ids, NEW h \in Health, st2 = Marked(st, id, h)
      PROVE  Lacks(st2, m)
  <2>1. /\ SameBut(id, st, st2)
        /\ Exists(st2, id) <=> Exists(st, id)
        /\ Exists(st, id) => st2.dirs[id].content = st.dirs[id].content
    BY <1>3, MarkedIs
  <2> QED
    BY <2>1 DEF Lacks, SameBut
<1> QED
  BY <1>1, <1>2, <1>3

-----------------------------------------------------------------------------
(* The mutations. *)

Before == {"new", "governance", "lock"}

Refusals == {"rejected", "pending_approval", "failed"}

\* Before the lock a request has no snapshot and has changed nothing; from the
\* change to the verdict it has both, unless an operator took the change away;
\* it has no result until it is done, and has no snapshot if it is refused.
RequestsKnown ==
    \A m \in Mutations :
        /\ pc[m] \in Before => snap[m] = NoId
        /\ snap[m] = NoId => m \notin runtime /\ Lacks(store, m)
        /\ InProgress(m) => snap[m] # NoId /\ (m \in runtime \/ m \in operated)
        /\ pc[m] # "done" => result[m] = "none" /\ recorded[m] = "none"
        /\ result[m] \in Refusals => snap[m] = NoId

\* No two mutations have the same snapshot, but for the number used again.
SnapsApart ==
    /\ \A m \in Mutations : snap[m] # NoId => Room(store, snap[m])
    /\ \A m, m2 \in Mutations :
          m # m2 /\ snap[m] = snap[m2] => snap[m] \in {NoId, MaxSnapshots + 1}

\* A mutation that has not ended, crashed or not, can be undone.
SnapsKept ==
    \A m \in Mutations :
        pc[m] # "done" /\ snap[m] # NoId => Safe(store, m, snap[m])

\* The inductive invariant of the executor.
MutationInv ==
    /\ TypeOK /\ Sound(store)
    /\ RequestsKnown /\ SnapsApart /\ SnapsKept
    /\ ActiveIsHolder /\ AllOrNothing /\ RollbackPoint

\* The requests are as they were, but for m, and so are the changes of the
\* others, but for those an operator had a hand in.
Turned(m, p, s, r, c) ==
    /\ pc' = [pc EXCEPT ![m] = p] /\ snap' = [snap EXCEPT ![m] = s]
    /\ result' = [result EXCEPT ![m] = r] /\ recorded' = [recorded EXCEPT ![m] = c]
    /\ operated' = operated /\ runtime' \subseteq Changes
    /\ \A m2 \in Mutations : m2 # m =>
          /\ m2 \notin operated => (m2 \in runtime' <=> m2 \in runtime)
          /\ snap[m2] = NoId => m2 \notin runtime' /\ Lacks(store', m2)

\* A turn that does right by its own request does right by all.
LEMMA TurnedKeeps ==
    ASSUME TypeOK, RequestsKnown, AllOrNothing, NEW m \in Mutations,
           NEW p \in Points, NEW s \in Ids \cup {NoId},
           NEW r \in Statuses, NEW c \in Records, Turned(m, p, s, r, c),
           p \in Before => s = NoId,
           s = NoId => m \notin runtime' /\ Lacks(store', m),
           p \in {"checks", "commit"} => s # NoId /\ (m \in runtime' \/ m \in operated),
           p # "done" => r = "none" /\ c = "none",
           r = "success" => m \in runtime' \/ m \in operated,
           c = "rollback" => m \notin runtime' \/ m \in operated,
           r \in Refusals => s = NoId
    PROVE  /\ RequestsKnown' /\ AllOrNothing'
           /\ pc' \in [Mutations -> Points] /\ snap' \in [Mutations -> Ids \cup {NoId}]
           /\ result' \in [Mutations -> Statuses]
           /\ recorded' \in [Mutations -> Records]
           /\ operated' \subseteq Mutations
<1>1. /\ pc' \in [Mutations -> Points] /\ snap' \in [Mutations -> Ids \cup {NoId}]
      /\ result' \in [Mutations -> Statuses]
      /\ recorded' \in [Mutations -> Records]
      /\ operated' = operated /\ operated \subseteq Mutations
  BY DEF TypeOK, Turned
<1>2. /\ pc'[m] = p /\ snap'[m] = s /\ result'[m] = r /\ recorded'[m] = c
      /\ \A m2 \in Mutations : m2 # m =>
            /\ pc'[m2] = pc[m2] /\ snap'[m2] = snap[m2]
            /\ result'[m2] = result[m2] /\ recorded'[m2] = recorded[m2]
            /\ m2 \notin operated => (m2 \in runtime' <=> m2 \in runtime)
            /\ snap[m2] = NoId => m2 \notin runtime' /\ Lacks(store', m2)
  BY DEF TypeOK, Turned
<1>3. ASSUME NEW m2 \in Mutations
      PROVE  /\ pc'[m2] \in Before => snap'[m2] = NoId
             /\ snap'[m2] = NoId => m2 \notin runtime' /\ Lacks(store', m2)
             /\ pc'[m2] \in {"checks", "commit"} =>
                   snap'[m2] # NoId /\ (m2 \in runtime' \/ m2 \in operated)
             /\ pc'[m2] # "done" => result'[m2] = "none" /\ recorded'[m2] = "none"
             /\ result'[m2] \in Refusals => snap'[m2] = NoId
  <2>1. CASE m2 = m
    BY <1>2, <2>1
  <2>2. CASE m2 # m
    BY <1>2, <2>2 DEF RequestsKnown, InProgress
  <2> QED
    BY <2>1, <2>2
<1>4. RequestsKnown'
  BY <1>1, <1>3 DEF RequestsKnown, InProgress, Lacks, Exists
<1>5. AllOrNothing'
  <2> SUFFICES ASSUME NEW m2 \in Mutations
               PROVE  /\ result'[m2] \in Refusals => m2 \notin runtime'
                      /\ result'[m2] = "success" /\ m2 \notin operated => m2 \in runtime'
                      /\ recorded'[m2] = "rollback" /\ m2 \notin operated =>
                            m2 \notin runtime'
    BY <1>1 DEF AllOrNothing, Refusals
  <2>1. result'[m2] \in Refusals => m2 \notin runtime'
    BY <1>3
  <2>2. CASE m2 = m
    BY <1>2, <2>1, <2>2
  <2>3. CASE m2 # m
    BY <1>2, <2>1, <2>3 DEF AllOrNothing
  <2> QED
    BY <2>2, <2>3
<1> QED
  BY <1>1, <1>4, <1>5

\* The snapshots of the other mutations, in a store in which m has the number id.
Apart(st, m, id) ==
    /\ id # NoId => Room(st, id)
    /\ \A m2 \in Mutations : m2 # m /\ snap[m2] # NoId =>
          /\ Room(st, snap[m2])
          /\ pc[m2] # "done" => Safe(st, m2, snap[m2])
          /\ snap[m2] = id => id = MaxSnapshots + 1

\* A turn that spares the snapshots of the others keeps them apart and safe.
LEMMA ApartKeeps ==
    ASSUME TypeOK, SnapsApart, NEW m \in Mutations,
           NEW p \in Points, NEW s \in Ids \cup {NoId},
           NEW r, NEW c, Turned(m, p, s, r, c),
           Apart(store', m, s), p # "done" /\ s # NoId => Safe(store', m, s)
    PROVE  SnapsApart' /\ SnapsKept'
<1>1. /\ pc'[m] = p /\ snap'[m] = s
      /\ \A m2 \in Mutations : m2 # m => pc'[m2] = pc[m2] /\ snap'[m2] = snap[m2]
  BY DEF TypeOK, Turned
<1>2. \A m2 \in Mutations : snap'[m2] # NoId => Room(store', snap'[m2])
  BY <1>1 DEF Apart
<1>3. ASSUME NEW a \in Mutations, NEW b \in Mutations, a # b, snap'[a] = snap'[b]
      PROVE  snap'[a] \in {NoId, MaxSnapshots + 1}
  <2>1. CASE a = m
    BY <1>1, <1>3, <2>1 DEF Apart
  <2>2. CASE b = m
    BY <1>1, <1>3, <2>2 DEF Apart
  <2>3. CASE a # m /\ b # m
    BY <1>1, <1>3, <2>3 DEF SnapsApart
  <2> QED
    BY <2>1, <2>2, <2>3
<1>4. \A m2 \in Mutations :
         pc'[m2] # "done" /\ snap'[m2] # NoId => Safe(store', m2, snap'[m2])
  BY <1>1 DEF Apart
<1> QED
  BY <1>2, <1>3, <1>4 DEF SnapsApart, SnapsKept, Room, Safe

\* In a state of the invariant the snapshots are apart.
LEMMA IsApart ==
    ASSUME MutationInv, NEW m \in Mutations
    PROVE  Apart(store, m, snap[m]) /\ snap[m] \in Ids \cup {NoId}
<1>1. ASSUME NEW m2 \in Mutations, m2 # m, snap[m2] # NoId, snap[m2] = snap[m]
      PROVE  snap[m] = MaxSnapshots + 1
  BY <1>1 DEF MutationInv, SnapsApart
<1> QED
  BY <1>1 DEF MutationInv, SnapsApart, SnapsKept, Apart, TypeOK

\* A turn that changes neither the runtime nor a snapshot: on the way to the
\* lock, a refusal, or a success.
LEMMA StillKeeps ==
    ASSUME MutationInv, NEW m \in Mutations,
           NEW p \in {"governance", "lock", "done"}, NEW r \in Statuses, NEW c \in Records,
           pc' = [pc EXCEPT ![m] = p],
           result' = [result EXCEPT ![m] = r], recorded' = [recorded EXCEPT ![m] = c],
           UNCHANGED <<runtime, store, snap, freeze, operated>>,
           \/ p # "done" /\ pc[m] \in Before /\ r = "none" /\ c = "none"
           \/ /\ p = "done" /\ pc[m] \in Before
              /\ r \in Refusals /\ c # "rollback"
           \/ p = "done" /\ pc[m] = "commit" /\ r = "success" /\ c = "success",
           ActiveIsHolder',
           lock' \in Mutations \cup {NoOne}, active' \in Mutations \cup {NoOne}
    PROVE  MutationInv'
<1> DEFINE s == snap[m]
<1>1. /\ TypeOK /\ RequestsKnown /\ AllOrNothing /\ SnapsApart /\ Sound(store)
      /\ Apart(store, m, s) /\ s \in Ids \cup {NoId}
  BY IsApart DEF MutationInv
<1>2. /\ pc[m] \in Before => s = NoId
      /\ pc[m] = "commit" => s # NoId /\ (m \in runtime \/ m \in operated)
      /\ p \in Points
      /\ \A m2 \in Mutations : snap[m2] = NoId => m2 \notin runtime /\ Lacks(store, m2)
  BY <1>1 DEF RequestsKnown, InProgress, Points
<1>3. Turned(m, p, s, r, c)
  BY <1>1, <1>2 DEF Turned, TypeOK, Lacks, Exists
<1>4. /\ p \in Before => s = NoId
      /\ s = NoId => m \notin runtime' /\ Lacks(store', m)
      /\ p \in {"checks", "commit"} => s # NoId /\ (m \in runtime' \/ m \in operated)
      /\ p # "done" => r = "none" /\ c = "none"
      /\ r = "success" => m \in runtime' \/ m \in operated
      /\ c = "rollback" => m \notin runtime' \/ m \in operated
      /\ r \in Refusals => s = NoId
  BY <1>2 DEF Before, Refusals
<1> HIDE DEF s
<1>5. /\ RequestsKnown' /\ AllOrNothing'
      /\ pc' \in [Mutations -> Points] /\ snap' \in [Mutations -> Ids \cup {NoId}]
      /\ result' \in [Mutations -> Statuses]
      /\ recorded' \in [Mutations -> Records]
      /\ operated' \subseteq Mutations
  BY <1>1, <1>2, <1>3, <1>4, TurnedKeeps
<1>6. TypeOK'
  BY <1>1, <1>5 DEF TypeOK
<1>7. Apart(store', m, s) /\ (p # "done" /\ s # NoId => Safe(store', m, s))
  BY <1>1, <1>2
<1>8. SnapsApart' /\ SnapsKept'
  BY <1>1, <1>2, <1>3, <1>7, ApartKeeps
<1>9. RollbackPoint'
  <2>1. \A m2 \in Mutations : pc'[m2] \in {"checks", "commit"} => InProgress(m2)
    BY <1>1 DEF TypeOK, InProgress
  <2> QED
    BY <2>1 DEF MutationInv, RollbackPoint, InProgress, Exists
<1> QED
  BY <1>1, <1>5, <1>6, <1>8, <1>9 DEF MutationInv

\* The snapshot id is the runtime rt without the change m, but for what an
\* operator put in or out.
GoesBack(m, st, id, rt) ==
    Exists(st, id) => st.dirs[id].content \ operated = rt \ (operated \cup {m})

\* Requests without a snapshot have left no trace, neither in the runtime nor
\* in a store.
Untouched(m, st) ==
    \A m2 \in Mutations : m2 # m /\ snap[m2] = NoId => m2 \notin runtime /\ Lacks(st, m2)

\* What a rollback does: the change m may be gone from the runtime, and is gone
\* when the rollback is recorded; the other changes are as they were.
RolledBack(m, st, id) ==
    /\ \E c \in Records : /\ c = "rollback" => m \notin runtime' \/ m \in operated
                          /\ Turned(m, "done", id, "rolled_back", c)
    /\ store' = st \/ store' = Marked(st, id, "FAIL")
    /\ Sound(store')
    /\ lock' = NoOne /\ active' = NoOne /\ freeze' = freeze

\* Every outcome of a rollback is one of these.
LEMMA RollbackIs ==
    ASSUME TypeOK, NEW m \in Mutations, NEW st, Sound(st), NEW id \in Ids,
           NEW rt \in {runtime, runtime \cup {m}},
           GoesBack(m, st, id, rt), Untouched(m, st),
           Rollback(m, st, id, rt), operated' = operated
    PROVE  RolledBack(m, st, id)
<1>1. /\ lock' = NoOne /\ active' = NoOne /\ freeze' = freeze
      /\ snap' = [snap EXCEPT ![m] = id]
      /\ runtime \subseteq Changes /\ m \in Changes
  BY DEF Rollback, Unlock, TypeOK, Mutations
<1>2. /\ \A m2 \in Mutations : m2 # m => (m2 \in rt <=> m2 \in runtime)
      /\ rt \subseteq Changes
  BY <1>1
<1>3. ASSUME Exists(st, id)
      PROVE  /\ st.dirs[id].content \subseteq Changes
             /\ m \in st.dirs[id].content => m \in operated
             /\ \A m2 \in Mutations : m2 # m =>
                   /\ m2 \notin operated => (m2 \in st.dirs[id].content <=> m2 \in runtime)
                   /\ snap[m2] = NoId => m2 \notin st.dirs[id].content
  <2>1. st.dirs[id].content \in SUBSET Changes
    BY <1>3 DEF Sound, StoreRecord, Directories, Exists, Snapshot
  <2>2. st.dirs[id].content \ operated = rt \ (operated \cup {m})
    BY <1>3 DEF GoesBack
  <2>3. \A m2 \in Mutations : m2 # m /\ snap[m2] = NoId => m2 \notin st.dirs[id].content
    BY <1>3 DEF Untouched, Lacks
  <2> QED
    BY <1>2, <2>1, <2>2, <2>3
<1>4. CASE Restored(m, st, id)
  <2>1. /\ Exists(st, id) /\ runtime' = st.dirs[id].content
        /\ store' = Marked(st, id, "FAIL")
        /\ pc' = [pc EXCEPT ![m] = "done"]
        /\ result' = [result EXCEPT ![m] = "rolled_back"]
        /\ recorded' = [recorded EXCEPT ![m] = "rollback"]
    BY <1>4 DEF Restored, Return
  <2>2. Sound(store')
    BY <2>1, MarkedIs DEF Health
  <2>3. \A m2 \in Mutations : m2 # m /\ snap[m2] = NoId => Lacks(store', m2)
    <3> SUFFICES ASSUME NEW m2 \in Mutations, m2 # m, snap[m2] = NoId
                 PROVE  Lacks(store', m2)
      OBVIOUS
    <3>1. Lacks(st, m2) /\ "FAIL" \in Health
      BY DEF Untouched, Health
    <3> QED
      BY <2>1, <3>1, LacksKeeps
  <2>4. Turned(m, "done", id, "rolled_back", "rollback")
    BY <1>1, <1>3, <2>1, <2>3 DEF Turned
  <2>5. m \notin runtime' \/ m \in operated
    BY <1>3, <2>1
  <2> QED
    BY <1>1, <2>1, <2>2, <2>4, <2>5 DEF Records, RolledBack
<1>5. CASE NotRestored(m, st, id, rt)
  <2>1. /\ runtime' \in IF Exists(st, id) THEN Torn(st.dirs[id].content, rt) ELSE {rt}
        /\ store' = st
        /\ pc' = [pc EXCEPT ![m] = "done"]
        /\ result' = [result EXCEPT ![m] = "rolled_back"]
        /\ recorded' = [recorded EXCEPT ![m] = "none"]
    BY <1>5 DEF NotRestored, Return
  <2>2. /\ runtime' \subseteq Changes
        /\ \A m2 \in Mutations : m2 # m =>
              /\ m2 \notin operated => (m2 \in runtime' <=> m2 \in runtime)
              /\ snap[m2] = NoId => m2 \notin runtime'
    <3>1. CASE ~Exists(st, id)
      BY <1>2, <2>1, <3>1 DEF Untouched
    <3>2. CASE Exists(st, id)
      <4>1. /\ runtime' \subseteq st.dirs[id].content \cup rt
            /\ st.dirs[id].content \cap rt \subseteq runtime'
        BY <2>1, <3>2 DEF Torn
      <4> QED
        BY <1>2, <1>3, <3>2, <4>1 DEF Untouched
    <3> QED
      BY <3>1, <3>2
  <2>3. \A m2 \in Mutations : m2 # m /\ snap[m2] = NoId => Lacks(store', m2)
    BY <2>1 DEF Untouched
  <2>4. Turned(m, "done", id, "rolled_back", "none")
    BY <1>1, <2>1, <2>2, <2>3 DEF Turned
  <2> QED
    BY <1>1, <2>1, <2>4 DEF Records, RolledBack
<1> QED
  BY <1>4, <1>5 DEF Rollback

\* A rollback keeps the invariant.
LEMMA RollbackKeeps ==
    ASSUME MutationInv, NEW m \in Mutations, lock \in {m, NoOne},
           NEW st, Sound(st), NEW id \in Ids, Apart(st, m, id),
           NEW rt \in {runtime, runtime \cup {m}},
           GoesBack(m, st, id, rt), Untouched(m, st),
           Rollback(m, st, id, rt), operated' = operated
    PROVE  MutationInv'
<1>1. TypeOK /\ RequestsKnown /\ AllOrNothing /\ SnapsApart /\ ActiveIsHolder
  BY DEF MutationInv
<1>0. RolledBack(m, st, id)
  BY <1>1, RollbackIs
<1>2. /\ store' = st \/ store' = Marked(st, id, "FAIL")
      /\ Sound(store')
      /\ lock' = NoOne /\ active' = NoOne /\ freeze' = freeze
  BY <1>0 DEF RolledBack
<1>3. PICK c \in Records : /\ c = "rollback" => m \notin runtime' \/ m \in operated
                           /\ Turned(m, "done", id, "rolled_back", c)
  BY <1>0 DEF RolledBack
<1>4. /\ "done" \in Points /\ "done" \notin Before
      /\ "rolled_back" \in Statuses \ Refusals /\ id # NoId /\ NoId \notin Ids
  BY SnapshotAssumption DEF Points, Before, Statuses, Refusals, Ids, NoId
<1>5. /\ RequestsKnown' /\ AllOrNothing'
      /\ pc' \in [Mutations -> Points] /\ snap' \in [Mutations -> Ids \cup {NoId}]
      /\ result' \in [Mutations -> Statuses]
      /\ recorded' \in [Mutations -> Records]
      /\ operated' \subseteq Mutations
  BY <1>1, <1>3, <1>4, TurnedKeeps
<1>6. TypeOK'
  <2>1. StoreType(store') /\ runtime' \subseteq Changes
    BY <1>2, <1>3, SoundHasType DEF Turned
  <2> QED
    BY <1>1, <1>2, <1>5, <2>1 DEF TypeOK
<1>7. Apart(store', m, id)
  <2>1. CASE store' = st
    BY <2>1
  <2>2. CASE store' = Marked(st, id, "FAIL")
    <3>1. Room(store', id)
      BY <1>4, <2>2, MarkedKeeps DEF Apart, Health
    <3>2. ASSUME NEW m2 \in Mutations, m2 # m, snap[m2] # NoId
          PROVE  /\ Room(store', snap[m2])
                 /\ pc[m2] # "done" => Safe(store', m2, snap[m2])
                 /\ snap[m2] = id => id = MaxSnapshots + 1
      <4>1. /\ snap[m2] \in Ids /\ Room(st, snap[m2])
            /\ pc[m2] # "done" => Safe(st, m2, snap[m2])
            /\ snap[m2] = id => id = MaxSnapshots + 1
        BY <1>1, <3>2 DEF Apart, TypeOK
      <4>2. Room(store', snap[m2])
        BY <2>2, <4>1, MarkedKeeps DEF Health
      <4>3. CASE snap[m2] # id
        BY <2>2, <4>1, <4>2, <4>3, MarkedKeeps DEF Health
      <4>4. CASE snap[m2] = id
        BY <4>1, <4>2, <4>4, SnapshotAssumption DEF Safe
      <4> QED
        BY <4>3, <4>4
    <3> QED
      BY <3>1, <3>2 DEF Apart
  <2> QED
    BY <1>2, <2>1, <2>2
<1>8. SnapsApart' /\ SnapsKept'
  BY <1>1, <1>3, <1>4, <1>7, ApartKeeps
<1>9. \A m2 \in Mutations : ~(pc'[m2] \in {"checks", "commit"})
  <2>1. /\ pc'[m] = "done"
        /\ \A m2 \in Mutations : m2 # m => pc'[m2] = pc[m2]
    BY <1>1, <1>3 DEF Turned, TypeOK
  <2> QED
    BY <1>1, <2>1, NoOneAssumption DEF ActiveIsHolder, InProgress
<1>10. ActiveIsHolder' /\ RollbackPoint'
  BY <1>2, <1>9, NoOneAssumption DEF ActiveIsHolder, RollbackPoint, InProgress
<1> QED
  BY <1>2, <1>5, <1>6, <1>8, <1>10 DEF MutationInv

\* A request without a snapshot leaves no trace in what is copied or marked.
LEMMA StaysUntouched ==
    ASSUME MutationInv, NEW st,
           \/ st = Created(store, runtime)
           \/ st \in TornCreations(store, runtime)
           \/ \E id \in Ids, h \in Health : st = Marked(store, id, h)
    PROVE  \A m2 \in Mutations : snap[m2] = NoId => m2 \notin runtime /\ Lacks(st, m2)
<1> SUFFICES ASSUME NEW m2 \in Mutations, snap[m2] = NoId
             PROVE  m2 \notin runtime /\ Lacks(st, m2)
  OBVIOUS
<1>1. /\ m2 \notin runtime /\ Lacks(store, m2) /\ Sound(store)
      /\ runtime \in SUBSET Changes
  BY DEF MutationInv, RequestsKnown, TypeOK
<1> QED
  BY <1>1, LacksKeeps

\* A creation by m spares the snapshots of the others.
LEMMA CreatedIsApart ==
    ASSUME MutationInv, NEW m \in Mutations, NEW st, st = Created(store, runtime),
           NEW id, id = GenerateId(store)
    PROVE  Sound(st) /\ id \in Ids /\ Apart(st, m, id) /\ Untouched(m, st)
<1>1. Sound(store) /\ runtime \in SUBSET Changes
  BY DEF MutationInv, TypeOK
<1>2. Sound(st) /\ id \in Ids
  BY <1>1, CreatedIs
<1>3. Room(st, id)
  BY <1>1, CreatedIsSafe
<1>4. ASSUME NEW m2 \in Mutations, m2 # m, snap[m2] # NoId
      PROVE  /\ Room(st, snap[m2])
             /\ pc[m2] # "done" => Safe(st, m2, snap[m2])
             /\ snap[m2] = id => id = MaxSnapshots + 1
  <2>1. /\ snap[m2] \in Ids /\ Room(store, snap[m2])
        /\ pc[m2] # "done" => Safe(store, m2, snap[m2])
    BY <1>4 DEF MutationInv, SnapsApart, SnapsKept, TypeOK
  <2> QED
    BY <1>1, <2>1, CreatedKeeps
<1>5. Untouched(m, st)
  BY StaysUntouched DEF Untouched
<1> QED
  BY <1>2, <1>3, <1>4, <1>5 DEF Apart

\* With the lock free, nobody is in progress.
LEMMA FreeLock ==
    ASSUME MutationInv, lock = NoOne
    PROVE  \A m2 \in Mutations : ~InProgress(m2)
BY NoOneAssumption DEF MutationInv, ActiveIsHolder

\* A change that was made keeps the invariant.
LEMMA ApplyKeeps ==
    ASSUME MutationInv, NEW m \in Mutations, Apply(m), operated' = operated
    PROVE  MutationInv'
<1>1. PICK id : id = GenerateId(store)
  OBVIOUS
<1>2. PICK st : st = Created(store, runtime)
  OBVIOUS
<1>3. /\ pc[m] = "lock" /\ lock = NoOne /\ lock' = m /\ active' = m
      /\ store' = st /\ snap' = [snap EXCEPT ![m] = id]
      /\ runtime' = runtime \cup {m} /\ pc' = [pc EXCEPT ![m] = "checks"]
      /\ UNCHANGED <<freeze, result, recorded>>
  BY <1>1, <1>2 DEF Apply
<1>4. /\ TypeOK /\ RequestsKnown /\ AllOrNothing /\ SnapsApart /\ Sound(store)
      /\ runtime \in SUBSET Changes /\ m \in Changes
  BY DEF MutationInv, TypeOK, Mutations
<1>5. m \notin runtime /\ result[m] = "none" /\ recorded[m] = "none"
  BY <1>3, <1>4 DEF RequestsKnown, Before
<1>6. /\ Sound(st) /\ id \in Ids /\ Apart(st, m, id) /\ Untouched(m, st)
  BY <1>1, <1>2, CreatedIsApart
<1>7. /\ Safe(st, m, id)
      /\ Exists(st, id) => st.dirs[id].content = runtime
      /\ Head(st.index) <= MaxSnapshots => Exists(st, id)
  BY <1>1, <1>2, <1>4, <1>5, CreatedIsSafe
<1>8. /\ "checks" \in Points /\ "checks" \notin Before
      /\ "none" \in Statuses \ Refusals /\ "none" \in Records
      /\ id # NoId /\ NoId \notin Ids
  BY <1>6, SnapshotAssumption DEF Points, Before, Statuses, Refusals, Records, Ids, NoId
<1>9. Turned(m, "checks", id, "none", "none")
  BY <1>3, <1>4, <1>5, <1>6 DEF Turned, TypeOK, Untouched
<1>10. m \in runtime'
  BY <1>3
<1>11. /\ RequestsKnown' /\ AllOrNothing'
       /\ pc' \in [Mutations -> Points] /\ snap' \in [Mutations -> Ids \cup {NoId}]
       /\ result' \in [Mutations -> Statuses]
       /\ recorded' \in [Mutations -> Records]
       /\ operated' \subseteq Mutations
  BY <1>4, <1>6, <1>8, <1>9, <1>10, TurnedKeeps
<1>12. TypeOK'
  <2>1. StoreType(store') /\ runtime' \subseteq Changes
    BY <1>3, <1>4, <1>6, SoundHasType
  <2> QED
    BY <1>3, <1>4, <1>11, <2>1 DEF TypeOK
<1>13. SnapsApart' /\ SnapsKept'
  BY <1>3, <1>4, <1>6, <1>7, <1>8, <1>9, ApartKeeps
<1>14. \A m2 \in Mutations : pc'[m2] \in {"checks", "commit"} <=> m2 = m
  BY <1>3, <1>4, FreeLock DEF TypeOK, InProgress
<1>15. ActiveIsHolder'
  BY <1>3, <1>14 DEF ActiveIsHolder, InProgress
<1>16. RollbackPoint'
  <2> SUFFICES /\ GoesBack(m, st, id, runtime \cup {m})
               /\ Head(st.index) <= MaxSnapshots => Exists(st, id)
    <3>1. snap'[m] = id
      BY <1>3, <1>4 DEF TypeOK
    <3> QED
      BY <1>3, <1>14, <3>1 DEF RollbackPoint, GoesBack, InProgress, Exists
  <2> QED
    BY <1>5, <1>7 DEF GoesBack
<1> QED
  BY <1>3, <1>6, <1>11, <1>12, <1>13, <1>15, <1>16 DEF MutationInv

\* So does one that failed, with its snapshot to go back to ...
LEMMA ApplyFailsKeeps ==
    ASSUME MutationInv, NEW m \in Mutations, ApplyFails(m), operated' = operated
    PROVE  MutationInv'
<1>1. PICK id : id = GenerateId(store)
  OBVIOUS
<1>2. PICK st : st = Created(store, runtime)
  OBVIOUS
<1>3. pc[m] = "lock" /\ lock = NoOne
  BY DEF ApplyFails
<1>4. PICK rt \in {runtime, runtime \cup {m}} : Rollback(m, st, id, rt)
  BY <1>1, <1>2 DEF ApplyFails
<1>5. m \notin runtime /\ runtime \in SUBSET Changes /\ Sound(store)
  BY <1>3 DEF MutationInv, RequestsKnown, Before, TypeOK
<1>6. Sound(st) /\ id \in Ids /\ Apart(st, m, id) /\ Untouched(m, st)
  BY <1>1, <1>2, CreatedIsApart
<1>7. Exists(st, id) => st.dirs[id].content = runtime
  BY <1>1, <1>2, <1>5, CreatedIsSafe
<1>8. lock \in {m, NoOne} /\ GoesBack(m, st, id, rt)
  BY <1>3, <1>5, <1>7 DEF GoesBack
<1> HIDE DEF MutationInv
<1> QED
  BY <1>4, <1>6, <1>8, RollbackKeeps

\* ... and one whose checks or whose record of success failed.
LEMMA LateRollbackKeeps ==
    ASSUME MutationInv, NEW m \in Mutations, InProgress(m),
           Rollback(m, store, snap[m], runtime), operated' = operated
    PROVE  MutationInv'
<1>1. snap[m] \in Ids
  BY DEF MutationInv, RequestsKnown, TypeOK
<1>2. Sound(store) /\ lock = m /\ Apart(store, m, snap[m])
  BY IsApart DEF MutationInv, ActiveIsHolder
<1>3. GoesBack(m, store, snap[m], runtime) /\ Untouched(m, store)
  BY DEF MutationInv, RollbackPoint, RequestsKnown, GoesBack, Untouched
<1> QED
  BY <1>1, <1>2, <1>3, RollbackKeeps

\* A snapshot that fails leaves the runtime alone and spares the other snapshots.
LEMMA SnapshotFailsKeeps ==
    ASSUME MutationInv, NEW m \in Mutations, SnapshotFails(m), operated' = operated
    PROVE  MutationInv'
<1>1. /\ pc[m] = "lock" /\ lock = NoOne /\ lock' = NoOne /\ active' = NoOne
      /\ store' \in TornCreations(store, runtime)
      /\ pc' = [pc EXCEPT ![m] = "done"]
      /\ result' = [result EXCEPT ![m] = "failed"]
      /\ recorded' = [recorded EXCEPT ![m] = "failure"]
      /\ UNCHANGED <<runtime, freeze, snap>>
  BY DEF SnapshotFails, Return, Unlock
<1>2. /\ TypeOK /\ RequestsKnown /\ AllOrNothing /\ SnapsApart /\ Sound(store)
      /\ runtime \in SUBSET Changes
  BY DEF MutationInv, TypeOK
<1>3. snap[m] = NoId /\ m \notin runtime
  BY <1>1, <1>2 DEF RequestsKnown, Before
<1>4. Sound(store')
  BY <1>1, <1>2, TornIs
<1>5. /\ "done" \in Points /\ "done" \notin Before
      /\ "failed" \in Statuses /\ "failure" \in Records
      /\ NoId \in Ids \cup {NoId}
  BY DEF Points, Before, Statuses, Records
<1>6. \A m2 \in Mutations : snap[m2] = NoId => m2 \notin runtime /\ Lacks(store', m2)
  BY <1>1, StaysUntouched
<1>7. Turned(m, "done", NoId, "failed", "failure")
  BY <1>1, <1>2, <1>3, <1>6 DEF Turned, TypeOK
<1>8. /\ RequestsKnown' /\ AllOrNothing'
      /\ pc' \in [Mutations -> Points] /\ snap' \in [Mutations -> Ids \cup {NoId}]
      /\ result' \in [Mutations -> Statuses]
      /\ recorded' \in [Mutations -> Records]
      /\ operated' \subseteq Mutations
  BY <1>1, <1>2, <1>3, <1>5, <1>6, <1>7, TurnedKeeps
<1>9. TypeOK'
  BY <1>1, <1>2, <1>4, <1>8, SoundHasType DEF TypeOK
<1>10. Apart(store', m, NoId)
  <2>1. ASSUME NEW m2 \in Mutations, m2 # m, snap[m2] # NoId
        PROVE  /\ Room(store', snap[m2])
               /\ pc[m2] # "done" => Safe(store', m2, snap[m2])
               /\ snap[m2] = NoId => NoId = MaxSnapshots + 1
    <3>1. /\ snap[m2] \in Ids /\ Room(store, snap[m2])
          /\ pc[m2] # "done" => Safe(store, m2, snap[m2])
      BY <2>1 DEF MutationInv, SnapsApart, SnapsKept, TypeOK
    <3> QED
      BY <1>1, <1>2, <2>1, <3>1, TornKeeps
  <2> QED
    BY <2>1 DEF Apart
<1>11. SnapsApart' /\ SnapsKept'
  BY <1>2, <1>5, <1>7, <1>10, ApartKeeps
<1>12. \A m2 \in Mutations : ~(pc'[m2] \in {"checks", "commit"})
  BY <1>1, <1>2, FreeLock DEF TypeOK, InProgress
<1>13. ActiveIsHolder' /\ RollbackPoint'
  BY <1>1, <1>12, NoOneAssumption DEF ActiveIsHolder, RollbackPoint, InProgress
<1> QED
  BY <1>4, <1>8, <1>9, <1>11, <1>13 DEF MutationInv

\* The mark PASS changes no snapshot.
LEMMA ChecksPassKeeps ==
    ASSUME MutationInv, NEW m \in Mutations, ChecksPass(m), operated' = operated
    PROVE  MutationInv'
<1> DEFINE id == snap[m]
<1>1. /\ pc[m] = "checks" /\ store' = Marked(store, id, "PASS")
      /\ pc' = [pc EXCEPT ![m] = "commit"]
      /\ UNCHANGED <<runtime, freeze, lock, active, snap, result, recorded>>
  BY DEF ChecksPass, local
<1>2. /\ TypeOK /\ RequestsKnown /\ AllOrNothing /\ SnapsApart /\ Sound(store)
      /\ SnapsKept /\ ActiveIsHolder /\ RollbackPoint /\ InProgress(m)
  BY <1>1 DEF MutationInv, InProgress
<1>3. /\ id \in Ids /\ id # NoId /\ (m \in runtime \/ m \in operated)
      /\ result[m] = "none" /\ recorded[m] = "none"
  BY <1>1, <1>2 DEF RequestsKnown, TypeOK
<1>4. Apart(store, m, id) /\ Safe(store, m, id)
  BY <1>1, <1>2, <1>3, IsApart DEF SnapsKept
<1> HIDE DEF id
<1>5. "PASS" \in Health /\ "PASS" # "FAIL"
  BY DEF Health
<1>6. /\ Sound(store') /\ SameBut(id, store, store')
      /\ Exists(store', id) <=> Exists(store, id)
      /\ Exists(store, id) => store'.dirs[id].content = store.dirs[id].content
  BY <1>1, <1>2, <1>3, <1>5, MarkedIs
<1>7. /\ "commit" \in Points /\ "commit" \notin Before
      /\ "none" \in Statuses \ Refusals /\ "none" \in Records
  BY DEF Points, Before, Statuses, Refusals, Records
<1>8. Turned(m, "commit", id, "none", "none")
  <2>1. \A m2 \in Mutations : snap[m2] = NoId => m2 \notin runtime /\ Lacks(store', m2)
    BY <1>1, <1>3, <1>5, StaysUntouched
  <2> QED
    BY <1>1, <1>2, <1>3, <2>1 DEF Turned, TypeOK, id
<1>9. m \in runtime' \/ m \in operated
  BY <1>1, <1>3
<1>10. /\ RequestsKnown' /\ AllOrNothing'
       /\ pc' \in [Mutations -> Points] /\ snap' \in [Mutations -> Ids \cup {NoId}]
       /\ result' \in [Mutations -> Statuses]
       /\ recorded' \in [Mutations -> Records]
       /\ operated' \subseteq Mutations
  BY <1>2, <1>3, <1>7, <1>8, <1>9, TurnedKeeps
<1>11. TypeOK'
  BY <1>1, <1>2, <1>6, <1>10, SoundHasType DEF TypeOK
<1>12. Apart(store', m, id) /\ Safe(store', m, id)
  <2>1. Room(store', id) /\ Safe(store', m, id)
    BY <1>1, <1>2, <1>3, <1>4, <1>5, MarkedKeeps DEF Apart
  <2>2. ASSUME NEW m2 \in Mutations, m2 # m, snap[m2] # NoId
        PROVE  /\ Room(store', snap[m2])
               /\ pc[m2] # "done" => Safe(store', m2, snap[m2])
               /\ snap[m2] = id => id = MaxSnapshots + 1
    <3>1. /\ snap[m2] \in Ids /\ Room(store, snap[m2])
          /\ pc[m2] # "done" => Safe(store, m2, snap[m2])
          /\ snap[m2] = id => id = MaxSnapshots + 1
      BY <1>2, <1>4, <2>2 DEF Apart, TypeOK
    <3> QED
      BY <1>1, <1>2, <1>3, <1>5, <3>1, MarkedKeeps
  <2> QED
    BY <2>1, <2>2 DEF Apart
<1>13. SnapsApart' /\ SnapsKept'
  BY <1>2, <1>3, <1>7, <1>8, <1>12, ApartKeeps
<1>14. \A m2 \in Mutations : pc'[m2] \in {"checks", "commit"} <=> InProgress(m2)
  BY <1>1, <1>2 DEF TypeOK, InProgress
<1>15. ActiveIsHolder'
  BY <1>1, <1>2, <1>14 DEF ActiveIsHolder, InProgress
<1>16. RollbackPoint'
  <2>1. \A m2 \in Mutations : pc'[m2] \in {"checks", "commit"} => m2 = m
    BY <1>2, <1>14 DEF ActiveIsHolder
  <2>2. /\ GoesBack(m, store, id, runtime)
        /\ Head(store.index) <= id /\ Head(store.index) <= MaxSnapshots => Exists(store, id)
    BY <1>2 DEF RollbackPoint, GoesBack, id
  <2>3. /\ Exists(store', id) => store'.dirs[id].content \ operated = runtime \ (operated \cup {m})
        /\ Head(store'.index) <= id /\ Head(store'.index) <= MaxSnapshots => Exists(store', id)
    BY <1>6, <2>2 DEF SameBut, GoesBack
  <2>4. snap'[m] = id
    BY <1>1 DEF id
  <2> QED
    BY <1>1, <2>1, <2>3, <2>4 DEF RollbackPoint, InProgress
<1> QED
  BY <1>6, <1>10, <1>11, <1>13, <1>15, <1>16 DEF MutationInv

\* A manual snapshot disturbs one snapshot at most, the one with the number used
\* again; what a mutation in progress would get wrong then, is put down.
LEMMA ManualCreateKeeps ==
    ASSUME MutationInv, ManualCreate
    PROVE  MutationInv'
<1>1. PICK id : id = GenerateId(store)
  OBVIOUS
<1>2. PICK st : st = store'
  OBVIOUS
<1>3. /\ st = Created(store, runtime) \/ st \in TornCreations(store, runtime)
      /\ operated' = operated \cup Overwritten(st)
      /\ UNCHANGED <<runtime, freeze, pc, lock, active, snap, result, recorded>>
  BY <1>2 DEF ManualCreate, local
<1>4. /\ TypeOK /\ RequestsKnown /\ AllOrNothing /\ SnapsApart /\ Sound(store)
      /\ runtime \in SUBSET Changes /\ SnapsKept /\ RollbackPoint /\ ActiveIsHolder
      /\ id \in Nat /\ id = Len(store.index) + 1
      /\ MaxSnapshots \in Nat /\ Len(store.index) <= MaxSnapshots
  BY <1>1, SnapshotAssumption
     DEF MutationInv, TypeOK, Sound, StoreRecord, InOrder, GenerateId
<1>5. /\ Sound(st)
      /\ Head(st.index) <= MaxSnapshots /\ id = MaxSnapshots + 1 => Exists(st, id)
      /\ \A i \in Ids : i # id /\ Exists(st, i) =>
            Exists(store, i) /\ st.dirs[i] = store.dirs[i]
  <2>1. CASE st = Created(store, runtime)
    <3>1. Sound(st) /\ Others(id, store, st)
      BY <1>1, <1>4, <2>1, CreatedIs
    <3>2. Head(st.index) <= MaxSnapshots => Exists(st, id)
      BY <1>1, <1>4, <2>1, CreatedIsSafe
    <3> QED
      BY <3>1, <3>2 DEF Others
  <2>2. CASE st \in TornCreations(store, runtime)
    <3>1. Sound(st) /\ SameBut(id, store, st) /\ Exists(st, id)
      BY <1>1, <1>4, <2>2, TornIs
    <3> QED
      BY <3>1 DEF SameBut
  <2> QED
    BY <1>3, <2>1, <2>2
<1>6. Overwritten(st) \subseteq Mutations
  <2>1. \A i \in Ids : Exists(st, i) => st.dirs[i].content \subseteq Changes
    BY <1>5 DEF Sound, StoreRecord, Directories, Exists, Snapshot
  <2>2. \A m \in Mutations : Exists(st, snap[m]) => snap[m] \in Ids
    BY <1>5 DEF Sound, StoreRecord, Directories, Exists
  <2> QED
    BY <1>4, <2>1, <2>2 DEF Overwritten, Difference, Mutations
<1>7. TypeOK'
  <2>1. StoreType(store')
    BY <1>2, <1>5, SoundHasType
  <2> QED
    BY <1>3, <1>4, <1>6, <2>1 DEF TypeOK
<1>8. RequestsKnown' /\ AllOrNothing' /\ ActiveIsHolder'
  <2>1. \A m \in Mutations : snap[m] = NoId => m \notin runtime /\ Lacks(st, m)
    BY <1>3, StaysUntouched
  <2> QED
    BY <1>2, <1>3, <1>4, <2>1
       DEF RequestsKnown, AllOrNothing, ActiveIsHolder, InProgress, Lacks, Exists
<1>9. ASSUME NEW m \in Mutations, snap[m] # NoId
      PROVE  /\ Room(st, snap[m]) /\ (pc[m] # "done" => Safe(st, m, snap[m]))
             /\ snap[m] \in Ids /\ Room(store, snap[m])
  <2>1. /\ snap[m] \in Ids /\ Room(store, snap[m])
        /\ pc[m] # "done" => Safe(store, m, snap[m])
    BY <1>4, <1>9 DEF SnapsApart, SnapsKept, TypeOK
  <2>2. CASE st = Created(store, runtime)
    BY <1>4, <2>1, <2>2, CreatedKeeps
  <2>3. CASE st \in TornCreations(store, runtime)
    BY <1>4, <2>1, <2>3, TornKeeps
  <2> QED
    BY <1>3, <2>1, <2>2, <2>3
<1>10. SnapsApart' /\ SnapsKept'
  <2>1. \A m \in Mutations : snap'[m] # NoId => Room(store', snap'[m])
    BY <1>2, <1>3, <1>9
  <2>2. \A m \in Mutations :
           pc'[m] # "done" /\ snap'[m] # NoId => Safe(store', m, snap'[m])
    BY <1>2, <1>3, <1>9
  <2> QED
    BY <1>3, <1>4, <2>1, <2>2 DEF SnapsApart, SnapsKept, Room, Safe
<1>11. RollbackPoint'
  <2> SUFFICES ASSUME NEW m \in Mutations, InProgress(m)
               PROVE  /\ Exists(st, snap[m]) =>
                            st.dirs[snap[m]].content \ operated'
                               = runtime \ (operated' \cup {m})
                      /\ Head(st.index) <= snap[m] /\ Head(st.index) <= MaxSnapshots =>
                            Exists(st, snap[m])
    BY <1>2, <1>3 DEF RollbackPoint, InProgress, Exists
  <2>1. /\ snap[m] # NoId /\ snap[m] \in 1..(MaxSnapshots + 1)
        /\ Room(store, snap[m]) /\ Safe(st, m, snap[m])
    BY <1>4, <1>9 DEF RequestsKnown, InProgress, Ids
  <2>2. st.index[1] = Head(st.index)
    OBVIOUS
  <2>3. CASE snap[m] = id
    <3>1. id = MaxSnapshots + 1
      BY <1>4, <2>1, <2>3 DEF Room
    <3>2. ASSUME Exists(st, id)
          PROVE  Difference(st.dirs[id].content, runtime \ {m}) \subseteq operated'
      BY <1>1, <1>3, <2>3, <3>2 DEF Overwritten
    <3> QED
      BY <1>5, <2>3, <3>1, <3>2 DEF Difference
  <2>4. CASE snap[m] # id
    <3>1. snap[m] <= MaxSnapshots
      BY <1>4, <2>1, <2>4 DEF Room
    <3>2. Head(st.index) <= snap[m] => Exists(st, snap[m])
      BY <2>1, <2>2, <3>1 DEF Safe
    <3>3. ASSUME Exists(st, snap[m])
          PROVE  st.dirs[snap[m]].content \ operated = runtime \ (operated \cup {m})
      <4>1. Exists(store, snap[m]) /\ st.dirs[snap[m]] = store.dirs[snap[m]]
        BY <1>5, <2>1, <2>4, <3>3 DEF Ids
      <4> QED
        BY <1>4, <4>1 DEF RollbackPoint
    <3> QED
      BY <1>3, <3>2, <3>3
  <2> QED
    BY <2>3, <2>4
<1> QED
  BY <1>2, <1>5, <1>7, <1>8, <1>10, <1>11 DEF MutationInv

\* A restore by hand puts changes in or out, and that is put down.
LEMMA ManualRestoreKeeps ==
    ASSUME MutationInv, ManualRestore
    PROVE  MutationInv'
<1>1. PICK id \in DOMAIN store.dirs : runtime' \in Torn(store.dirs[id].content, runtime)
  BY DEF ManualRestore
<1>2. /\ operated' = operated \cup Difference(runtime', runtime)
      /\ UNCHANGED <<store, freeze, pc, lock, active, snap, result, recorded>>
  BY DEF ManualRestore, local
<1>3. /\ TypeOK /\ RequestsKnown /\ AllOrNothing /\ SnapsApart /\ Sound(store)
      /\ SnapsKept /\ RollbackPoint /\ ActiveIsHolder /\ runtime \subseteq Changes
  BY DEF MutationInv, TypeOK
<1>4. Exists(store, id) /\ id \in Ids /\ store.dirs[id].content \subseteq Changes
  BY <1>3 DEF Sound, StoreRecord, Directories, Exists, Snapshot
<1>5. /\ runtime' \subseteq store.dirs[id].content \cup runtime
      /\ runtime' \subseteq Changes
  BY <1>1, <1>3, <1>4 DEF Torn
<1>6. TypeOK'
  <2>1. StoreType(store') /\ operated' \subseteq Mutations
    BY <1>2, <1>3, <1>5 DEF TypeOK, Difference, Mutations
  <2> QED
    BY <1>2, <1>3, <1>5, <2>1 DEF TypeOK
<1>7. /\ operated \subseteq operated'
      /\ \A c : c \notin operated' => (c \in runtime' <=> c \in runtime)
  BY <1>2 DEF Difference
<1>8. \A m \in Mutations : snap[m] = NoId => m \notin runtime'
  BY <1>3, <1>4, <1>5 DEF RequestsKnown, Lacks
<1>9. RequestsKnown'
  <2>1. \A m \in Mutations : InProgress(m) => m \in runtime' \/ m \in operated'
    BY <1>3, <1>7 DEF RequestsKnown
  <2> QED
    BY <1>2, <1>3, <1>8, <2>1 DEF RequestsKnown, InProgress, Lacks, Exists
<1>10. AllOrNothing'
  BY <1>2, <1>3, <1>7, <1>8 DEF AllOrNothing, RequestsKnown, Refusals
<1>11. SnapsApart' /\ SnapsKept' /\ ActiveIsHolder'
  BY <1>2, <1>3
     DEF SnapsApart, SnapsKept, ActiveIsHolder, InProgress, Room, Safe, Exists
<1>12. RollbackPoint'
  <2> SUFFICES ASSUME NEW m \in Mutations, InProgress(m), Exists(store, snap[m])
               PROVE  store.dirs[snap[m]].content \ operated'
                         = runtime' \ (operated' \cup {m})
    BY <1>2, <1>3 DEF RollbackPoint, InProgress, Exists
  <2>1. store.dirs[snap[m]].content \ operated = runtime \ (operated \cup {m})
    BY <1>3 DEF RollbackPoint
  <2> QED
    BY <1>7, <2>1
<1> QED
  BY <1>2, <1>3, <1>6, <1>9, <1>10, <1>11, <1>12 DEF MutationInv

\* A crash releases the lock and loses the requests, not the disk.
LEMMA CrashKeeps ==
    ASSUME MutationInv, Crash
    PROVE  MutationInv'
<1>1. /\ pc' = [m \in Mutations |-> IF pc[m] \in {"new", "done"} THEN pc[m] ELSE "lost"]
      /\ lock' = NoOne /\ active' = NoOne
      /\ UNCHANGED <<runtime, store, freeze, snap, result, recorded, operated>>
  BY DEF Crash, local
<1>2. /\ TypeOK /\ RequestsKnown /\ AllOrNothing /\ SnapsApart /\ SnapsKept /\ Sound(store)
  BY DEF MutationInv
<1>3. \A m \in Mutations : /\ pc'[m] = pc[m] \/ pc'[m] = "lost"
                           /\ pc'[m] \in {"new", "done", "lost"}
                           /\ pc[m] = "done" => pc'[m] = "done"
  BY <1>1
<1>4. pc' \in [Mutations -> Points]
  BY <1>1, <1>2 DEF TypeOK, Points
<1>5. TypeOK'
  BY <1>1, <1>2, <1>4 DEF TypeOK
<1>6. RequestsKnown'
  BY <1>1, <1>2, <1>3 DEF RequestsKnown, InProgress, Before, Lacks, Exists
<1>7. AllOrNothing' /\ SnapsApart'
  BY <1>1, <1>2 DEF AllOrNothing, SnapsApart
<1>8. SnapsKept'
  BY <1>1, <1>2, <1>3 DEF SnapsKept
<1>9. ActiveIsHolder' /\ RollbackPoint'
  BY <1>1, <1>3, NoOneAssumption DEF ActiveIsHolder, RollbackPoint, InProgress
<1> QED
  BY <1>1, <1>2, <1>5, <1>6, <1>7, <1>8, <1>9 DEF MutationInv

\* Each turn of a request keeps the invariant.
LEMMA TurnKeeps ==
    ASSUME MutationInv, NEW m \in Mutations, Turn(m)
    PROVE  MutationInv'
<1>1. TypeOK /\ ActiveIsHolder /\ RequestsKnown /\ operated' = operated
  BY DEF MutationInv, Turn
<1>2. \A p : pc' = [pc EXCEPT ![m] = p] =>
         pc'[m] = p /\ \A m2 \in Mutations : m2 # m => pc'[m2] = pc[m2]
  BY <1>1 DEF TypeOK
<1>3. /\ lock \in Mutations \cup {NoOne} /\ active \in Mutations \cup {NoOne}
      /\ result' = result /\ pc[m] # "done" => result' = [result EXCEPT ![m] = "none"]
      /\ recorded' = recorded /\ pc[m] # "done" => recorded' = [recorded EXCEPT ![m] = "none"]
  BY <1>1 DEF TypeOK, RequestsKnown
<1>4. {"none", "rejected", "pending_approval", "success", "failed"} \subseteq Statuses
  BY DEF Statuses
<1>5. /\ {"none", "success", "failure"} \subseteq Records
      /\ Refusals = {"rejected", "pending_approval", "failed"}
  BY DEF Records, Refusals
<1>6. ASSUME NEW p \in {"governance", "lock", "done"}, pc[m] \in Before,
             pc' = [pc EXCEPT ![m] = p], lock' = lock, active' \in {active, NoOne}
      PROVE  ActiveIsHolder'
  BY <1>1, <1>2, <1>6 DEF ActiveIsHolder, InProgress, Before
<1> HIDE DEF MutationInv
<1>7. CASE RefuseFrozen(m) \/ RefuseCapability(m)
  <2>1. /\ pc[m] \in Before /\ pc' = [pc EXCEPT ![m] = "done"]
        /\ result' = [result EXCEPT ![m] = "rejected"]
        /\ recorded' = [recorded EXCEPT ![m] = "none"]
        /\ UNCHANGED <<runtime, store, snap, freeze>> /\ lock' = lock /\ active' = active
    BY <1>7 DEF RefuseFrozen, RefuseCapability, Return, Before
  <2>2. ActiveIsHolder'
    BY <1>6, <2>1
  <2> QED
    BY <1>1, <1>3, <1>4, <1>5, <2>1, <2>2, StillKeeps
<1>8. CASE Propose(m) \/ GovernanceApproves(m)
  <2>1. PICK p \in {"governance", "lock"} : pc' = [pc EXCEPT ![m] = p]
    BY <1>8 DEF Propose, GovernanceApproves
  <2>2. /\ pc[m] \in Before /\ pc[m] # "done" /\ result' = result /\ recorded' = recorded
        /\ UNCHANGED <<runtime, store, snap, freeze>> /\ lock' = lock /\ active' = active
    BY <1>8 DEF Propose, GovernanceApproves, Before, local
  <2>3. ActiveIsHolder'
    BY <1>6, <2>1, <2>2
  <2>4. /\ result' = [result EXCEPT ![m] = "none"]
        /\ recorded' = [recorded EXCEPT ![m] = "none"]
        /\ p # "done" /\ p \in {"governance", "lock", "done"}
    BY <1>3, <2>1, <2>2
  <2> QED
    BY <1>1, <1>3, <1>4, <1>5, <2>1, <2>2, <2>3, <2>4, StillKeeps
<1>9. CASE GovernanceRejects(m) \/ GovernanceDefers(m)
  <2>1. PICK r \in {"rejected", "pending_approval"}, c \in {"none", "failure"} :
           /\ result' = [result EXCEPT ![m] = r]
           /\ recorded' = [recorded EXCEPT ![m] = c]
    BY <1>9 DEF GovernanceRejects, GovernanceDefers, Return
  <2>2. /\ pc[m] \in Before /\ pc' = [pc EXCEPT ![m] = "done"]
        /\ UNCHANGED <<runtime, store, snap, freeze>> /\ lock' = lock /\ active' = active
    BY <1>9 DEF GovernanceRejects, GovernanceDefers, Return, Before
  <2>3. ActiveIsHolder'
    BY <1>6, <2>2
  <2> QED
    BY <1>1, <1>3, <1>4, <1>5, <2>1, <2>2, <2>3, StillKeeps
<1>10. CASE LockTimeout(m)
  <2>1. /\ pc[m] \in Before /\ pc' = [pc EXCEPT ![m] = "done"]
        /\ result' = [result EXCEPT ![m] = "failed"]
        /\ recorded' = [recorded EXCEPT ![m] = "failure"]
        /\ UNCHANGED <<runtime, store, snap, freeze>> /\ lock' = lock /\ active' = NoOne
    BY <1>10 DEF LockTimeout, Return, Before
  <2>2. ActiveIsHolder'
    BY <1>6, <2>1
  <2> QED
    BY <1>1, <1>3, <1>4, <1>5, <2>1, <2>2, StillKeeps
<1>11. CASE Commit(m)
  <2>1. /\ pc[m] = "commit" /\ pc' = [pc EXCEPT ![m] = "done"]
        /\ result' = [result EXCEPT ![m] = "success"]
        /\ recorded' = [recorded EXCEPT ![m] = "success"]
        /\ UNCHANGED <<runtime, store, snap, freeze>> /\ lock' = NoOne /\ active' = NoOne
    BY <1>11 DEF Commit, Return, Unlock
  <2>2. ActiveIsHolder'
    BY <1>1, <1>2, <2>1, NoOneAssumption DEF ActiveIsHolder, InProgress
  <2> QED
    BY <1>1, <1>4, <1>5, <2>1, <2>2, StillKeeps
<1>12. CASE ChecksFail(m) \/ CommitFails(m)
  <2>1. InProgress(m) /\ Rollback(m, store, snap[m], runtime)
    BY <1>12 DEF ChecksFail, CommitFails, InProgress
  <2> QED
    BY <1>1, <2>1, LateRollbackKeeps
<1> QED
  BY <1>1, <1>7, <1>8, <1>9, <1>10, <1>11, <1>12,
     ApplyKeeps, ApplyFailsKeeps, SnapshotFailsKeeps, ChecksPassKeeps DEF Turn

\* The first state satisfies the invariant.
LEMMA MutationInitInv == Init => MutationInv
<1> SUFFICES ASSUME Init PROVE MutationInv
  OBVIOUS
<1>1. Sound(store) /\ StoreType(store)
  BY EmptyIsSound, SoundHasType DEF Init
<1>2. TypeOK
  BY <1>1 DEF Init, TypeOK, Points, Statuses, Records
<1> QED
  BY <1>1, <1>2, NoOneAssumption
     DEF Init, MutationInv, RequestsKnown, SnapsApart, SnapsKept, ActiveIsHolder,
         AllOrNothing, RollbackPoint, InProgress, Before, Refusals, Lacks, Exists, EmptyStore

\* Every behaviour of the executor satisfies it.
LEMMA MutationInvariance == Spec => []MutationInv
<1>1. ASSUME MutationInv, [Next]_vars
      PROVE  MutationInv'
  <2>1. CASE \E m \in Mutations : Turn(m)
    BY <1>1, <2>1, TurnKeeps
  <2>2. CASE ManualCreate
    BY <1>1, <2>2, ManualCreateKeeps
  <2>3. CASE ManualRestore
    BY <1>1, <2>3, ManualRestoreKeeps
  <2>4. CASE Crash
    BY <1>1, <2>4, CrashKeeps
  <2>5. CASE ToggleFreeze \/ UNCHANGED vars
    <3>1. /\ UNCHANGED <<runtime, store, pc, lock, active, snap, result, recorded, operated>>
          /\ freeze' = ~freeze \/ freeze' = freeze
      BY <2>5 DEF ToggleFreeze, vars, local
    <3>2. freeze' \in BOOLEAN
      BY <1>1, <3>1 DEF MutationInv, TypeOK
    <3>3. TypeOK' /\ RequestsKnown' /\ AllOrNothing' /\ ActiveIsHolder' /\ RollbackPoint'
      BY <1>1, <3>1, <3>2
         DEF MutationInv, TypeOK, RequestsKnown, AllOrNothing, ActiveIsHolder,
             RollbackPoint, InProgress, Lacks, Exists
    <3>4. SnapsApart' /\ SnapsKept'
      BY <1>1, <3>1 DEF MutationInv, SnapsApart, SnapsKept
    <3> QED
      BY <1>1, <3>1, <3>3, <3>4 DEF MutationInv
  <2> QED
    BY <1>1, <2>1, <2>2, <2>3, <2>4, <2>5 DEF Next
<1> QED
  BY <1>1, MutationInitInv, PTL DEF Spec

\* Every turn keeps the executor's data well-typed.
THEOREM MutationTypeInvariance == Spec => []TypeOK
<1>1. MutationInv => TypeOK
  BY DEF MutationInv
<1> QED
  BY <1>1, MutationInvariance, PTL

\* For any number of concurrent mutations, any failures and any snapshots and
\* restores by hand: a refusal or a failure is not in the runtime; a reported
\* success is and a recorded rollback is not, unless an operator's call moved
\* that very change.
THEOREM MutationsAreAllOrNothing == Spec => []AllOrNothing
<1>1. MutationInv => AllOrNothing
  BY DEF MutationInv
<1> QED
  BY <1>1, MutationInvariance, PTL

\* A mutation in progress can go back to the runtime without its change; an
\* operator's snapshot or restore spoils that only for the changes it moves.
THEOREM RollbackPointInvariance == Spec => []RollbackPoint
<1>1. MutationInv => RollbackPoint
  BY DEF MutationInv
<1> QED
  BY <1>1, MutationInvariance, PTL

\* The active mutation is the holder of the lock, and the only one in progress.
THEOREM ActiveIsTheHolder == Spec => []ActiveIsHolder
<1>1. MutationInv => ActiveIsHolder
  BY DEF MutationInv
<1> QED
  BY <1>1, MutationInvariance, PTL

\* Mutations are in progress one at a time, whatever time-outs and crashes.
THEOREM OneAtATime ==
    Spec => [](\A m, m2 \in Mutations : InProgress(m) /\ InProgress(m2) => m = m2)
<1>1. MutationInv => \A m, m2 \in Mutations : InProgress(m) /\ InProgress(m2) => m = m2
  BY DEF MutationInv, ActiveIsHolder
<1> QED
  BY <1>1, MutationInvariance, PTL

\* What a crash leaves half done can be undone from the disk while the snapshot
\* of the mutation is in the index under a number of its own.
THEOREM HalfDoneCanBeUndone == Spec => []HalfDoneIsRecoverable
<1>1. ASSUME MutationInv PROVE HalfDoneIsRecoverable
  <2> SUFFICES ASSUME NEW m \in runtime, pc[m] = "lost",
                      snap[m] \in Head(store.index) .. MaxSnapshots
               PROVE  \E id \in DOMAIN store.dirs :
                         m \notin store.dirs[id].content /\ store.dirs[id].health # "FAIL"
    BY DEF HalfDoneIsRecoverable
  <2>1. /\ m \in Mutations /\ Sound(store) /\ RequestsKnown /\ SnapsApart /\ SnapsKept
        /\ snap \in [Mutations -> Ids \cup {NoId}]
    BY <1>1 DEF MutationInv, TypeOK, Mutations
  <2>2. snap[m] # NoId /\ snap[m] \in Ids
    BY <2>1 DEF RequestsKnown
  <2>3. Room(store, snap[m]) /\ Safe(store, m, snap[m])
    BY <2>1, <2>2 DEF SnapsApart, SnapsKept
  <2>4. /\ store.index \in Seq(Ids) /\ Len(store.index) # 0
    BY <2>1, <2>2, <2>3, SnapshotAssumption DEF Sound, StoreRecord, Room, Ids
  <2>5. Head(store.index) = store.index[1] /\ store.index[1] \in Ids
    BY <2>4
  <2>6. store.index[1] <= snap[m] /\ snap[m] <= MaxSnapshots
    BY <2>2, <2>5, SnapshotAssumption DEF Ids
  <2> QED
    BY <2>3, <2>6 DEF Safe, Exists
<1> QED
  BY <1>1, MutationInvariance, PTL
=============================================================================
