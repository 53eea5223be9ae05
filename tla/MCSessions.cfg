CONSTANTS
    UNIT = 10
    ONE = 1024
    Dust = 1
    None = None
    Miner = {m1, m2}
    Worker = {w1, w2}
    VE = 2
    V = {0, 2}
    StakeAmount = {1}
    CoolDowns = {1, 2}
    GkInSync = FALSE
    Key = {k1, k2}
    PRuntime = {p}
    Genesis = {g}
    Iterations = {1}
    Second = 2
    MAX_SCORE = 6
    MinInitP = 6
    BlockGap = {2, 3}
    Age = {2, 4}
    MaxSince = 1
SPECIFICATION SessionsSpec
SYMMETRY MCSymmetry
INVARIANTS
    BindingInv
    StakeIffInSession
    CoolDownMeasured
    OnlineMinersExact
    WorkersTold
    HeartbeatsTimely
    OneMasterKey
PROPERTY StakeHeldThroughCoolDown
