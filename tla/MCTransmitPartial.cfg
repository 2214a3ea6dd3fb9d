SPECIFICATION Spec
CONSTANTS
    WriteCounts <- UpTo2
    ReadCounts <- UpTo3
    Allows <- Partial
INVARIANTS
    NoPanic
\* Both ends may be dropped, after which nothing happens.
CHECK_DEADLOCK FALSE
