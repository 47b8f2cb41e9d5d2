SPECIFICATION Spec
CONSTANTS
    Changes = {m1, m2}
    NoOne = NoOne
    MaxSnapshots = 2
PROPERTY RollbackUndoes
