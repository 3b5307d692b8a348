SPECIFICATION Spec
CONSTANTS
    Agent = {a1, a2}
    NoAgent = NoAgent
    fire = fire
    probe = probe
    purge = purge
    Command <- MCCommand
    Fire <- MCFire
    Redeliverable <- MCRedeliverable
    NoCommand = NoCommand
    Worker = {w1, w2}
    Issuer = {i1}
    ResponseWindow = 2
    RedispatchWindow = 2
    MinInterval = 1
    MaxGeneration = 3
    MaxIssued = 1
INVARIANTS
    ClaimantIsOwner
CHECK_DEADLOCK FALSE
