CONSTANTS
    alice = alice
    bob = bob
    w1 = w1
    w2 = w2
    None = None
    User = {alice, bob}
    Operator <- MCOperator
    PoolOwner = {alice}
    Pid = {0}
    Worker = {w1}
    Funds = 20
    Contribution = {20}
    Demand = {20}
    MinContribution = 3
    Cap = {}
    GracePeriod = 0
    MaxPoolWorkers = 1
    Switch = {}
    UNIT = 10
    ONE = 1024
    Dust = 2
    VE = 2
    V = {0, 1, 2}
    StakeAmount = {20}
    CoolDowns = {1}
    GkInSync = TRUE
    PriceFloor = 3
    Drift = 0
SPECIFICATION FairSpec
PROPERTY RequestsServed
