SPECIFICATION Spec
CONSTANTS
    r1 = r1
    r2 = r2
    r3 = r3
    r4 = r4
    Reps <- MCReps
    MaxHandle <- MCMaxHandle
    MaxSlots <- MCMaxSlots
    Indexes <- IssuedIndexes
INVARIANTS
    TypeOK
    FreeListOK
    IndexesAgree
    NoPanic
PROPERTY
    RefinesHandleMap
