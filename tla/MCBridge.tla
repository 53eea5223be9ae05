------------------------------ MODULE MCBridge ------------------------------
(* Bridge for TLC: four accounts that may be relayers, one proposal of one chain. *)
EXTENDS Bridge, TLC

MCSymmetry == Permutations(Account)
=============================================================================
