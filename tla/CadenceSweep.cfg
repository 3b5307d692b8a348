SPECIFICATION SweepSpec
CONSTANTS
    Scheduler = {s1}
    Cadence <- MCCadence
    MaxSlot = 2
    MaxToken = 2
    MaxRevision = 5
INVARIANTS
    SweepTypeOK
    WedgedByOperator
PROPERTIES
    CadenceEnds
    OrdinaryEnds
CHECK_DEADLOCK FALSE
