CONSTANTS
    alice = alice
    bob = bob
    w1 = w1
    w2 = w2
    None = None
    User = {alice, bob}
    Pid = {0}
    Worker = {w1, w2}
    PoolOwner <- MCPoolOwner
    Shares = {0, 70, 105}
    Payout = {41000}
    Treasury = {9000}
    MILLION = 1000
    Commission = {333, 960}
    Funds = {100}
    ED = 3
    UNIT = 7
    ONE = 4096
    Dust = 5
    MaxMessages = 2
SPECIFICATION Spec
SYMMETRY MCSymmetry
INVARIANTS
    DebtsEarned
    RewardsShared
    RewardsAccounted
