SPECIFICATION Spec
CONSTANTS
    Changes = {m1, m2}
    NoOne = NoOne
    MaxSnapshots = 3
INVARIANTS TypeOK AllOrNothing RollbackPoint ActiveIsHolder HalfDoneIsRecoverable
PROPERTY Answered
