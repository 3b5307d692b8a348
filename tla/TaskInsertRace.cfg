SPECIFICATION Spec
CONSTANTS
    Agent = {a1, a2}
    Probe = {p1}
    Histories <- MCHistories
    Ahead = 1
    SecondTicks = 2
    MaxTime = 3
PROPERTIES
    TerminalWins
CHECK_DEADLOCK FALSE
