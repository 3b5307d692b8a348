SPECIFICATION SweepSpec
CONSTANTS
    Scheduler = {s1}
    Cadence <- MCCadence
    MaxSlot = 2
    MaxToken = 2
    MaxRevision = 5
PROPERTIES
    OrdinaryAlwaysEnds
CHECK_DEADLOCK FALSE
