SPECIFICATION FairSpec
CONSTANTS
    Key = {k1}
    MaxSession = 3
    MaxSequence = 3
    MaxEdit = 1
INVARIANTS
    TypeOK
    AppliedWasDone
    DoubtCloses
PROPERTIES
    ImplementsContract
    ClaimEnds
    CatchesUp
CHECK_DEADLOCK FALSE
