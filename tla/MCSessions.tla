----------------------------- MODULE MCSessions -----------------------------
(* Sessions for TLC: two miner accounts, two workers, any caller. *)
EXTENDS Sessions, TLC

MCSymmetry == Permutations(Miner) \cup Permutations(Worker) \cup Permutations(Key)
=============================================================================
