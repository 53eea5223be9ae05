---------------------------- MODULE MCStakePool ----------------------------
(* StakePool for TLC: two users; alice owns the pools and operates the workers. *)
EXTENDS StakePool

CONSTANTS alice, bob,
          PriceFloor,  \* bound: pools whose price falls below 1/PriceFloor are not followed
          Drift        \* bound: units that rounding may have cost a user or a pool

MCOperator == [w \in Worker |-> alice]

MCWorkerSymmetry == Permutations(Worker)

\* A price that halves at every slash has no end otherwise.
MCPriceFloor ==
    \A pid \in Pools : StakePools[pid].total_shares <= PriceFloor * StakePools[pid].total_stake

\* Only what rounding costs is followed: a step further down is a slash.
MCDrift ==
    /\ \A u \in User : FreeBalance[u] >= Funds - Drift
    /\ \A pid \in Pools : StakePools[pid].total_shares <= StakePools[pid].total_stake + Drift
=============================================================================
