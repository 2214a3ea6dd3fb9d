SPECIFICATION Spec
CONSTANTS
    WriteCounts <- UpTo2
    ReadCounts <- UpTo3
    Allows <- Probes
INVARIANTS
    NothingLost
\* Both ends may be dropped, after which nothing happens.
CHECK_DEADLOCK FALSE
