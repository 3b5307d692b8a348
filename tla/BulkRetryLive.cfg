SPECIFICATION FairSpec
CONSTANTS
    Agent = {a1}
    NoAgent = NoAgent
    Child = {c1, c2}
    NoChild = NoChild
    Worker = {w1}
    NoWorker = NoWorker
    Coordinator = {k1}
    MaxInFlight = 1
    ResponseWindow = 1
    RedispatchWindow = 2
    MinInterval = 1
    ParentWindow = 2
    MaxControls = 1
PROPERTIES
    EventuallyDecided
