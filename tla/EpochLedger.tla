---------------------------- MODULE EpochLedger ----------------------------
(***************************************************************************)
(* What src/app/epoch_authority.py promises: a ledger of epochs, of which  *)
(* only the last can be written to and only while it is open; each epoch   *)
(* records an effect at most once, and at most MaxEffects of them.         *)
(***************************************************************************)
EXTENDS Naturals, Sequences

CONSTANTS
    Effects,            \* what can be recorded
    MaxEffects          \* max_effects_per_epoch

VARIABLES
    ledger,             \* for each epoch ever created, the effects recorded in it
    open                \* the last of them takes effects

Init == ledger = <<>> /\ open = FALSE

Open  == ledger' = Append(ledger, <<>>) /\ open' = TRUE
Close == open /\ open' = FALSE /\ UNCHANGED ledger

Record(effect) ==
    /\ open
    /\ LET last == ledger[Len(ledger)]
       IN  /\ Len(last) < MaxEffects
           /\ \A i \in DOMAIN last : last[i] # effect
           /\ ledger' = [ledger EXCEPT ![Len(ledger)] = Append(last, effect)]
    /\ UNCHANGED open

Next == Open \/ Close \/ \E effect \in Effects : Record(effect)

Spec == Init /\ [][Next]_<<ledger, open>>
=============================================================================
