SPECIFICATION FairSpec
CONSTANTS
    WriteCounts <- UpTo2
    ReadCounts <- UpTo3
    Allows <- Nothing
INVARIANTS
    TypeOK
    NoPanic
    Conservation
    InOrder
    NothingLost
    NeverBothParked
    NoLeak
    OneValue
PROPERTIES
    PendingEnds
\* Both ends may be dropped, after which nothing happens.
CHECK_DEADLOCK FALSE
