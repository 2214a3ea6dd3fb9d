SPECIFICATION Spec
CONSTANTS
    WriteCounts <- UpTo2
    ReadCounts <- UpTo3
    Allows <- Nothing
INVARIANTS
    DefaultOnlyIfUnwritten
\* Both ends may be dropped, after which nothing happens.
CHECK_DEADLOCK FALSE
