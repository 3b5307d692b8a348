SPECIFICATION Spec
CONSTANTS
    Scheduler = {s1, s2}
    Cadence <- MCCadence
    MaxSlot = 3
    MaxToken = 3
    MaxRevision = 5
INVARIANTS
    TypeOK
    AcceptedOnce
    OneOracle
    FailureStops
    OneOpenHold
PROPERTIES
    NoWorkUnderHold
    ImplementsContract
SYMMETRY Symmetry
CHECK_DEADLOCK FALSE
