SPECIFICATION FairSpec
CONSTANTS
    Agent = {a1, a2}
    NoAgent = NoAgent
    fire = fire
    probe = probe
    purge = purge
    Command <- MCCommand
    Fire <- MCFire
    Redeliverable <- MCRedeliverable
    NoCommand = NoCommand
    Worker = {w1}
    Issuer = {i1}
    ResponseWindow = 2
    RedispatchWindow = 2
    MinInterval = 1
    MaxGeneration = 2
    MaxIssued = 1
PROPERTIES
    EventuallySettled
CHECK_DEADLOCK FALSE
