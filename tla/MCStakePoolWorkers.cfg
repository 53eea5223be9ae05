CONSTANTS
    alice = alice
    bob = bob
    w1 = w1
    w2 = w2
    None = None
    User = {alice}
    Operator <- MCOperator
    PoolOwner = {alice}
    Pid = {0}
    Worker = {w1, w2}
    Funds = 40
    Contribution = {20}
    Demand = {20}
    MinContribution = 3
    Cap = {30}
    GracePeriod = 0
    MaxPoolWorkers = 2
    Switch = {TRUE, FALSE}
    UNIT = 10
    ONE = 1024
    Dust = 2
    VE = 2
    V = {0, 2}
    StakeAmount = {20}
    CoolDowns = {1, 2}
    GkInSync = TRUE
    PriceFloor = 3
    Drift = 0
SPECIFICATION Spec
SYMMETRY MCWorkerSymmetry
INVARIANTS
    CapRespected
    PreimagesMatchStakes
    ReleasingExact
