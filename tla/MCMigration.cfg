\* Every origin, three racing processes, two crashes, a little use afterwards.
CONSTANTS
    Process = {p1, p2, p3}
    Commitment = {c1}
    Origins = {0, 1, 2, 3, 4, 5, 6}
    Histories = {TRUE, FALSE}
    MaxEpoch = 2
    MaxCrash = 2
SPECIFICATION FairSpec
INVARIANTS TypeOK VersionDescribesSchema OpenedFileIsCurrent
PROPERTIES EpochsNeverReused EveryOpenerGetsIn
CHECK_DEADLOCK FALSE
