--------------------------- MODULE SnapshotEngine ---------------------------
(***************************************************************************)
(* The snapshots of src/app/snapshot_engine.py: copies of the runtime      *)
(* directory under snap-NNNN, an index on disk, a cleanup that keeps the   *)
(* newest MaxSnapshots.                                                    *)
(*                                                                         *)
(* The runtime is the set of changes it contains.  rsync copies file by    *)
(* file, so a copy that fails leaves its target with some of the changes   *)
(* it should have and some it should not.  (The Dockerfile installs rsync; *)
(* the rmtree and copytree of a system without it are not modelled.)       *)
(***************************************************************************)
EXTENDS Naturals, Sequences

CONSTANTS
    Changes,            \* the changes a runtime can contain
    MaxSnapshots        \* max_snapshots (100 in the code)

ASSUME SnapshotAssumption == MaxSnapshots \in Nat \ {0}

VARIABLES
    runtime,            \* the runtime directory
    store               \* the snapshots directory: dirs, index and current

Health == {"NONE", "UNKNOWN", "PASS", "FAIL"}     \* NONE: no meta.json
Ids    == 1..(MaxSnapshots + 1)         \* snap-0001 ...
NoId   == 0

StoreType(st) ==
    /\ DOMAIN st.dirs \subseteq Ids
    /\ \A i \in DOMAIN st.dirs :
          st.dirs[i].content \subseteq Changes /\ st.dirs[i].health \in Health
    /\ st.index \in Seq(Ids)
    /\ Len(st.index) <= MaxSnapshots
    /\ st.current \in Ids \cup {NoId}

EmptyStore == [dirs |-> <<>>, index |-> <<>>, current |-> NoId]

\* What a copy of "from" over "to" can leave behind when it fails.
Torn(from, to) ==
    {r \in SUBSET (from \cup to) : from \cap to \subseteq r}

-----------------------------------------------------------------------------
(* The operations, as functions of the store. *)

\* Wrong on purpose, like the other definitions marked "Wrong": counts from zero.
GenerateIdFromZero(st) == Len(st.index)

GenerateId(st) == Len(st.index) + 1

Exists(st, id) == id \in DOMAIN st.dirs

WithDir(st, id, content, health) ==
    [st EXCEPT !.dirs = [i \in DOMAIN @ \cup {id} |->
        IF i = id THEN [content |-> content, health |-> health] ELSE @[i]]]

\* Wrong: the comparison off by one, either way.
CleanupLate(st) ==
    IF Len(st.index) <= MaxSnapshots + 1 THEN st
    ELSE [st EXCEPT !.index = Tail(@),
                    !.dirs  = [i \in DOMAIN @ \ {Head(st.index)} |-> @[i]]]
CleanupEarly(st) ==
    IF Len(st.index) < MaxSnapshots THEN st
    ELSE [st EXCEPT !.index = Tail(@),
                    !.dirs  = [i \in DOMAIN @ \ {Head(st.index)} |-> @[i]]]

\* One snapshot was added, so the loop of _cleanup_old_snapshots runs at most once.
Cleanup(st) ==
    IF Len(st.index) <= MaxSnapshots THEN st
    ELSE [st EXCEPT !.index = Tail(@),
                    !.dirs  = [i \in DOMAIN @ \ {Head(st.index)} |-> @[i]]]

\* Wrong: does not become the current snapshot; copies over what is there.
CreatedUnnamed(st, content) ==
    LET id == GenerateId(st)
        copied == WithDir(st, id, content, "UNKNOWN")
    IN  Cleanup([copied EXCEPT !.index = Append(@, id)])
CreatedOver(st, content) ==
    LET id  == GenerateId(st)
        old == IF Exists(st, id) THEN st.dirs[id].content ELSE {}
        copied == WithDir(st, id, content \cup old, "UNKNOWN")
    IN  Cleanup([copied EXCEPT !.index = Append(@, id), !.current = id])

\* create_snapshot(): copy, meta.json, index, cleanup.
Created(st, content) ==
    LET id == GenerateId(st)
        copied == WithDir(st, id, content, "UNKNOWN")
    IN  Cleanup([copied EXCEPT !.index = Append(@, id), !.current = id])

\* create_snapshot() whose copy fails or is killed: the directory is there, the
\* index does not know it.
TornCreations(st, content) ==
    LET id  == GenerateId(st)
        old == IF Exists(st, id) THEN st.dirs[id]
               ELSE [content |-> {}, health |-> "NONE"]
    IN  {WithDir(st, id, c, old.health) : c \in Torn(content, old.content)}

\* mark_health() does nothing when the snapshot's meta.json is not there.
Marked(st, id, health) ==
    IF Exists(st, id) /\ st.dirs[id].health # "NONE"
    THEN WithDir(st, id, st.dirs[id].content, health) ELSE st
=============================================================================
