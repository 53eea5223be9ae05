---------------------------- MODULE BalanceMath ----------------------------
(***************************************************************************)
(* Balances and the fixed-point arithmetic of the pallets.                 *)
(*                                                                         *)
(* A balance is a natural number of the smallest unit, UNIT of which make  *)
(* a coin.  A fixed-point number is a natural number of parts, ONE of      *)
(* which make 1; every operation truncates it, as U64F64 does.  A balance  *)
(* is converted to a fixed-point number of coins and back, and loses part  *)
(* of a unit each time: bmul(n, ONE) is n or n - 1.  Balances of at most   *)
(* Dust units are dust.  UNIT, ONE and Dust are 10^12, 2^64 and 1000 in    *)
(* the code; the models keep UNIT well below ONE, and Dust above the few   *)
(* units that a computation may lose.                                      *)
(***************************************************************************)
EXTENDS Integers

CONSTANTS UNIT, ONE, Dust

ASSUME BalanceMathAssumption ==
    /\ UNIT \in Nat \ {0}
    /\ ONE \in Nat
    /\ UNIT <= ONE   \* no positive balance is converted to zero
    /\ Dust \in Nat

Lesser(a, b) == IF a <= b THEN a ELSE b

\* Saturating subtraction of unsigned integers.
SaturatingSub(a, b) == IF a <= b THEN 0 ELSE a - b

balance_close_to_zero(n) == n <= Dust

is_nondust_balance(n) == ~balance_close_to_zero(n)

\* The two components of extract_dust(n): what is kept and what is dropped.
NonDust(n) == IF balance_close_to_zero(n) THEN 0 ELSE n
DustOf(n)  == IF balance_close_to_zero(n) THEN n ELSE 0

\* A balance as a fixed-point number of coins, and back.
to_fixed(n) == (n * ONE) \div UNIT
from_fixed(v) == (v * UNIT) \div ONE

\* balance_convert::mul and div: a balance times / by a fixed-point number y, y # 0.
bmul(n, y) == from_fixed((to_fixed(n) * y) \div ONE)
bdiv(n, y) == from_fixed((to_fixed(n) * ONE) \div y)

\* The fixed-point quotient of two balances, m # 0.
FixedRatio(n, m) == (to_fixed(n) * ONE) \div to_fixed(m)
=============================================================================
