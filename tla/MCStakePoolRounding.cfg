CONSTANTS
    alice = alice
    bob = bob
    w1 = w1
    w2 = w2
    None = None
    User = {alice, bob}
    Operator <- MCOperator
    PoolOwner = {alice}
    Pid = {0}
    Worker = {w1}
    Funds = 200
    Contribution = {200}
    Demand = {100}
    MinContribution = 6
    Cap = {}
    GracePeriod = 0
    MaxPoolWorkers = 1
    Switch = {}
    UNIT = 7
    ONE = 4096
    Dust = 5
    VE = 2
    V = {0, 2}
    StakeAmount = {200}
    CoolDowns = {1}
    GkInSync = TRUE
    PriceFloor = 3
    Drift = 5
SPECIFICATION Spec
CONSTRAINT MCDrift
INVARIANTS
    SharesConserved
    NoIdleStake
