--------------------------- MODULE EpochAuthority ---------------------------
(***************************************************************************)
(* The epochs of src/app/epoch_authority.py.  The gate commits under the   *)
(* effect's type, so an epoch takes one effect of each type.  No method    *)
(* awaits: each is one step of whoever calls it.                           *)
(***************************************************************************)
EXTENDS Naturals, Sequences

CONSTANTS
    Types,              \* the effect types of effect_boundary.py
    MaxEffects,         \* max_effects_per_epoch (100)
    MaxHistory,         \* max_history_size (1000)
    MaxEpochs           \* bound: epochs created in a behaviour

ASSUME EpochAssumption == MaxEffects \in Nat /\ MaxHistory \in Nat \ {0}

VARIABLES
    epochs,             \* every Epoch object, in the order of creation
    current,            \* current_epoch, or NoEpoch
    epochHistory        \* epoch_history

epochVars == <<epochs, current, epochHistory>>

NoEpoch == 0

EpochRecord == [effects : Seq(Types), status : {"open", "closed"}, late : BOOLEAN]

EpochTypeOK ==
    /\ epochs \in Seq(EpochRecord)
    /\ current \in {NoEpoch} \cup DOMAIN epochs
    /\ epochHistory \in Seq(DOMAIN epochs)
    /\ Len(epochHistory) <= MaxHistory

EpochInit ==
    /\ epochs = <<>>
    /\ current = NoEpoch
    /\ epochHistory = <<>>

-----------------------------------------------------------------------------
Committed(effect) ==
    \E i \in DOMAIN epochs[current].effects : epochs[current].effects[i] = effect

\* There is an open epoch, inside its window, with room, without this effect.
CanCommitEffect(effect) ==
    /\ current # NoEpoch
    /\ epochs[current].status = "open"
    /\ ~epochs[current].late
    /\ Len(epochs[current].effects) < MaxEffects
    /\ ~Committed(effect)

\* Wrong on purpose, to show what the properties notice; likewise every
\* definition below that is marked "Wrong": relies on an earlier check.
CommitUnchecked(effect) ==
    /\ epochs' = IF current # NoEpoch
                 THEN [epochs EXCEPT ![current].effects = Append(@, effect)]
                 ELSE epochs
    /\ UNCHANGED <<current, epochHistory>>

CommitEffect(effect) ==
    /\ epochs' = IF CanCommitEffect(effect)
                 THEN [epochs EXCEPT ![current].effects = Append(@, effect)]
                 ELSE epochs
    /\ UNCHANGED <<current, epochHistory>>

\* epoch_history[-max_history_size:]
TrimHistory(s) == IF Len(s) > MaxHistory THEN Tail(s) ELSE s

\* Status CLOSED, then into the history.
ClosedEpochs  == [epochs EXCEPT ![current].status = "closed"]
ClosedHistory == TrimHistory(Append(epochHistory, current))

\* Wrong: an epoch that is replaced is dropped.
CreateOver ==
    /\ Len(epochs) < MaxEpochs
    /\ epochs' = Append(epochs, [effects |-> <<>>, status |-> "open", late |-> FALSE])
    /\ current' = Len(epochs) + 1
    /\ UNCHANGED epochHistory

\* An epoch that is still open is closed first.
CreateEpoch ==
    /\ Len(epochs) < MaxEpochs
    /\ LET open == current # NoEpoch
       IN  /\ epochs' = Append(IF open THEN ClosedEpochs ELSE epochs,
                               [effects |-> <<>>, status |-> "open", late |-> FALSE])
           /\ epochHistory' = IF open THEN ClosedHistory ELSE epochHistory
    /\ current' = Len(epochs) + 1

\* The current epoch is always open, so force makes no difference.
CloseEpoch ==
    /\ current # NoEpoch
    /\ epochs' = ClosedEpochs
    /\ epochHistory' = ClosedHistory
    /\ current' = NoEpoch

\* cleanup_expired_epochs(): expire_epoch() files the epoch as EXPIRED, and the
\* loop over the history turns that into CLOSED at once.
CleanupEpochs ==
    IF current # NoEpoch /\ epochs[current].late THEN CloseEpoch
    ELSE UNCHANGED epochVars

\* The commit window of the current epoch passes.
EpochLapses ==
    /\ current # NoEpoch
    /\ ~epochs[current].late
    /\ epochs' = [epochs EXCEPT ![current].late = TRUE]
    /\ UNCHANGED <<current, epochHistory>>

-----------------------------------------------------------------------------
(* Properties. *)

\* The sequence h holds the epochs up to the n-th, as many as the bound allows.
KeepsLast(h, n) ==
    /\ Len(h) = IF n > MaxHistory THEN MaxHistory ELSE n
    /\ \A i \in 1..Len(h) : h[i] = n - Len(h) + i

\* The current epoch is the newest one and the only open one; all others are in
\* the history, in the order of creation, up to its bound.
EpochsInOrder ==
    /\ current \in {NoEpoch, Len(epochs)}
    /\ \A e \in DOMAIN epochs : epochs[e].status = "open" <=> e = current
    /\ KeepsLast(epochHistory, IF current = NoEpoch THEN Len(epochs) ELSE Len(epochs) - 1)

Ledger == INSTANCE EpochLedger WITH
              Effects <- Types,
              ledger  <- [e \in DOMAIN epochs |-> epochs[e].effects],
              open    <- current # NoEpoch

\* Epochs record each effect once, within their bound, and nothing is ever
\* written to an epoch that has been closed or replaced ("Close current epoch
\* and make effects irreversible"), although an execution spans several awaits.
ImplementsLedger == Ledger!Spec
=============================================================================
