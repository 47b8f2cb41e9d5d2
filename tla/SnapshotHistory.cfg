SPECIFICATION HistorySpec
CONSTANTS
    Changes = {c1, c2}
    MaxSnapshots = 2
    MaxCreates = 7
INVARIANTS HistoryTypeOK IndexOnDisk LatestRestorable IntactUntilFull
