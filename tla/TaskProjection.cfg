SPECIFICATION FairSpec
CONSTANTS
    Agent = {a1, a2}
    Probe = {p1, p2}
    Histories <- MCHistories
    Ahead = 1
    SecondTicks = 2
    MaxTime = 3
INVARIANTS
    TypeOK
    DetailsAgree
    OutcomeKept
PROPERTIES
    ImplementsContract
    OutcomeForward
    ProjectedOnce
    OrphanedOnce
    LaterEventKept
    StuckEnds
CHECK_DEADLOCK FALSE
