\* One process creates the file and dies on the way.
CONSTANTS
    Process = {p1}
    Commitment = {c1}
    Origins = {0}
    Histories = {TRUE}
    MaxEpoch = 1
    MaxCrash = 1
SPECIFICATION Spec
INVARIANT InterruptedOpenCanBeRetried
CHECK_DEADLOCK FALSE
