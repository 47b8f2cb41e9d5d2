SPECIFICATION Spec
CONSTANTS
    Types <- MCTypes
    Checked <- MCChecked
    QuorumTypes <- MCQuorumTypes
    MaxEffects = 2
    MaxHistory = 1
    MaxEpochs = 2
    Calls = {x1, x2, x3}
    MaxPending = 2
    NoToken = NoToken
SYMMETRY CallSymmetry
INVARIANTS EpochsInOrder PendingIsOpen RecordedWasExecuted RecordedUnlessOvertaken CountersAddUp
PROPERTY ImplementsLedger
