CONSTANTS
    Replica = {a, b}
    Gatekeeper = gk
    Pushed = {"own", "t1"}
    Queued = {"t2"}
    OnChain = {"^on"}
    Subscribed = {"t1", "t2", "own"}
    Shared = {"t1", "t2"}
    Addressed = {a}
    Report = "t1"
    Update = "^on"
    MayDummy = {b}
    MayRestart = {a}
    MaxInputs = 2
    MaxBlocks = 2
    MaxFaults = 1
SPECIFICATION FairSpec
INVARIANTS
    KeepsWhatIsExpected
PROPERTIES
    ExactlyOnceInOrder
    EventuallyHandled
