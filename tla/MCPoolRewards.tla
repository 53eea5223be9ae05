--------------------------- MODULE MCPoolRewards ---------------------------
(* Pool rewards for TLC: alice owns every pool. *)
EXTENDS PoolRewards

CONSTANTS alice, bob

MCPoolOwner == [pid \in Pid |-> alice]
MCSymmetry == Permutations(Worker)
=============================================================================
