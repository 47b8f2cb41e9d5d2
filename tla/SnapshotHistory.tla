--------------------------- MODULE SnapshotHistory ---------------------------
(***************************************************************************)
(* The snapshot engine under its callers: a runtime that changes, snapshots *)
(* that are created and restored through main.py, copies that fail.        *)
(***************************************************************************)
EXTENDS SnapshotEngine

CONSTANT MaxCreates     \* bound: snapshots created in a behaviour

ASSUME MaxCreatesAssumption == MaxCreates \in Nat

VARIABLES
    created,            \* how many snapshots were created
    taken,              \* history: what the runtime held when a snapshot was taken
    torn                \* history: the last creation failed

historyVars == <<runtime, store, created, taken, torn>>

HistoryTypeOK ==
    /\ runtime \subseteq Changes
    /\ StoreType(store)
    /\ created \in 0..MaxCreates
    /\ taken \in [Ids -> SUBSET Changes]
    /\ torn \in BOOLEAN

HistoryInit ==
    /\ runtime = {}
    /\ store = EmptyStore
    /\ created = 0
    /\ taken = [i \in Ids |-> {}]
    /\ torn = FALSE

\* Mutations and operators edit the runtime.
Edit ==
    /\ \E c \in Changes : runtime' \in {runtime \cup {c}, runtime \ {c}}
    /\ UNCHANGED <<store, created, taken, torn>>

CreateSnapshot ==
    /\ created < MaxCreates
    /\ store' = Created(store, runtime)
    /\ created' = created + 1
    /\ taken' = [taken EXCEPT ![GenerateId(store)] = runtime]
    /\ torn' = FALSE
    /\ UNCHANGED runtime

CreateFails ==
    /\ store' \in TornCreations(store, runtime)
    /\ torn' = TRUE
    /\ UNCHANGED <<runtime, created, taken>>

\* restore_snapshot() raises ValueError when the directory is missing.
RestoreSnapshot(id) ==
    /\ Exists(store, id)
    /\ runtime' = store.dirs[id].content
    /\ UNCHANGED <<store, created, taken, torn>>

RestoreFails(id) ==
    /\ Exists(store, id)
    /\ runtime' \in Torn(store.dirs[id].content, runtime)
    /\ UNCHANGED <<store, created, taken, torn>>

HistoryNext ==
    \/ Edit \/ CreateSnapshot \/ CreateFails
    \/ \E id \in Ids : RestoreSnapshot(id) \/ RestoreFails(id)

HistorySpec == HistoryInit /\ [][HistoryNext]_historyVars

-----------------------------------------------------------------------------
(* Properties. *)

\* The index ends with the current snapshot, and every snapshot of the index
\* but those whose number is used again still has its directory.
IndexOnDisk ==
    /\ store.index # <<>> => store.current = store.index[Len(store.index)]
    /\ \A i \in 1..Len(store.index) :
          store.index[i] <= MaxSnapshots => Exists(store, store.index[i])

\* For the first 2 * MaxSnapshots creations the newest snapshot can be restored
\* and is the runtime as it was when it was taken.  The bound is exact: the next
\* creation deletes its own directory: once the index
\* is full, its length plus one is the number of the snapshot before.  A failed creation may
\* have disturbed it, once numbers are used again; the next one repairs that.
LatestRestorable ==
    (created \in 1..(2 * MaxSnapshots) /\ ~torn) =>
        /\ Exists(store, store.current)
        /\ store.dirs[store.current].content = taken[store.current]

\* Until the index is full no snapshot in it is disturbed, not even by copies
\* that fail: each still holds what the runtime held when it was taken.
IntactUntilFull ==
    created <= MaxSnapshots =>
        \A i \in 1..Len(store.index) :
            /\ Exists(store, store.index[i])
            /\ store.dirs[store.index[i]].content = taken[store.index[i]]
=============================================================================
