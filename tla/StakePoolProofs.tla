-------------------------- MODULE StakePoolProofs ---------------------------
(***************************************************************************)
(* What is proved of the stake pools, for any number of pools, workers and *)
(* users: every step of the two pallets is a step of the mining pallet; the *)
(* four maps that say which pool a worker belongs to agree; and the amounts, *)
(* the queues and their index keep what StakePool states of them. The last *)
(* are from PoolInv, an inductive invariant of which a call on a pool keeps *)
(* the part of that pool (Sound) and leaves the others.  The first part of *)
(* the module says what the operators of StakePool return, and what they   *)
(* preserve of the one pool they are applied to: the calls are compositions *)
(* of these.                                                               *)
(***************************************************************************)
EXTENDS StakePool, SumTheorems

-----------------------------------------------------------------------------
(* Fixed-point amounts *)

\* Quotients of amounts are amounts.
LEMMA DivNat == ASSUME NEW a \in Nat, NEW b \in Nat \ {0} PROVE a \div b \in Nat
  OBVIOUS

\* Products of amounts are amounts.
LEMMA TimesNat == ASSUME NEW a \in Nat, NEW b \in Nat PROVE a * b \in Nat
  OBVIOUS

\* A quotient is positive when its divisor is the smaller.
LEMMA DivPositive == ASSUME NEW a \in Nat, NEW b \in Nat \ {0}, b <= a PROVE a \div b # 0
  OBVIOUS

\* A multiple is not less than what it is a multiple of.
LEMMA TimesGrows == ASSUME NEW a \in Nat, NEW n \in Nat \ {0} PROVE a <= n * a
  OBVIOUS

\* Multiplication by an amount is monotone.
LEMMA MulLe == ASSUME NEW a \in Nat, NEW y \in Nat, NEW k \in Nat, y <= k PROVE a * y <= a * k
  OBVIOUS

\* A quotient of at most b times the divisor is at most b.
LEMMA DivLe == ASSUME NEW a \in Nat, NEW b \in Nat, NEW k \in Nat \ {0}, a <= b * k PROVE a \div k <= b
  OBVIOUS

\* Division rounds down.
LEMMA DivTimesLe == ASSUME NEW a \in Nat, NEW k \in Nat \ {0} PROVE (a \div k) * k <= a /\ a \div k \in Nat
  OBVIOUS

\* The conversions between amounts and fixed-point numbers (balance_convert.rs), and that an
\* amount that is not zero has a fixed-point number that is not.
LEMMA FixedNat ==
    /\ \A n \in Nat : to_fixed(n) \in Nat /\ from_fixed(n) \in Nat
    /\ \A n \in Nat \ {0} : to_fixed(n) # 0
<1>1. UNIT \in Nat \ {0} /\ ONE \in Nat \ {0} /\ UNIT <= ONE
  BY BalanceMathAssumption
<1>2. ASSUME NEW n \in Nat PROVE to_fixed(n) \in Nat /\ from_fixed(n) \in Nat
  <2>1. n * ONE \in Nat /\ n * UNIT \in Nat
    BY <1>1, TimesNat
  <2> QED BY <1>1, <2>1, DivNat DEF to_fixed, from_fixed
<1>3. ASSUME NEW n \in Nat \ {0} PROVE to_fixed(n) # 0
  <2>1. n * ONE \in Nat /\ ONE <= n * ONE
    BY <1>1, TimesNat, TimesGrows
  <2>2. UNIT <= n * ONE
    BY <1>1, <2>1
  <2> QED BY <1>1, <2>1, <2>2, DivPositive DEF to_fixed
<1> QED BY <1>2, <1>3

\* The fixed-point operations of balance_convert.rs give amounts.
LEMMA BalancesNat ==
    /\ \A n, y \in Nat : bmul(n, y) \in Nat
    /\ \A n \in Nat, y \in Nat \ {0} : bdiv(n, y) \in Nat
    /\ \A n \in Nat, m \in Nat \ {0} : FixedRatio(n, m) \in Nat
<1>1. ONE \in Nat \ {0}
  BY BalanceMathAssumption
<1>2. ASSUME NEW n \in Nat, NEW y \in Nat PROVE bmul(n, y) \in Nat
  <2>1. to_fixed(n) * y \in Nat
    BY FixedNat, TimesNat
  <2>2. (to_fixed(n) * y) \div ONE \in Nat
    BY <1>1, <2>1, DivNat
  <2> QED BY <2>2, FixedNat DEF bmul
<1>3. ASSUME NEW n \in Nat, NEW y \in Nat \ {0}
      PROVE  (to_fixed(n) * ONE) \div y \in Nat
  <2>1. to_fixed(n) * ONE \in Nat
    BY <1>1, FixedNat, TimesNat
  <2> QED BY <2>1, DivNat
<1>4. \A n \in Nat, y \in Nat \ {0} : bdiv(n, y) \in Nat
  BY <1>3, FixedNat DEF bdiv
<1>5. \A n \in Nat, m \in Nat \ {0} : FixedRatio(n, m) \in Nat
  BY <1>3, FixedNat DEF FixedRatio
<1> QED BY <1>2, <1>4, <1>5

\* A balance times at most one is no more than the balance, for all the rounding on the way.
LEMMA PartOfBalance ==
    ASSUME NEW n \in Nat, NEW y \in Nat, y <= ONE
    PROVE  bmul(n, y) \in Nat /\ bmul(n, y) <= n
<1>1. UNIT \in Nat \ {0} /\ ONE \in Nat \ {0}
  BY BalanceMathAssumption
<1> DEFINE f == to_fixed(n)
           g == (f * y) \div ONE
<1>2. f \in Nat /\ f * UNIT <= n * ONE
  <2>1. n * ONE \in Nat
    BY <1>1, TimesNat
  <2> QED BY <1>1, <2>1, DivTimesLe DEF to_fixed
<1>3. bmul(n, y) = (g * UNIT) \div ONE
  BY DEF bmul, from_fixed
<1> HIDE DEF f
<1>4. f * y \in Nat /\ f * y <= f * ONE
  BY <1>1, <1>2, TimesNat, MulLe
<1>5. g \in Nat /\ g <= f
  BY <1>1, <1>2, <1>4, DivLe, DivNat
<1> HIDE DEF g
<1>6. g * UNIT \in Nat /\ g * UNIT <= f * UNIT
  <2>1. UNIT * g <= UNIT * f /\ UNIT * g = g * UNIT /\ UNIT * f = f * UNIT
    BY <1>1, <1>2, <1>5, MulLe
  <2> QED BY <1>1, <1>5, <2>1, TimesNat
<1>7. g * UNIT <= n * ONE /\ n * ONE \in Nat /\ f * UNIT \in Nat
  BY <1>1, <1>2, <1>6, TimesNat
<1>8. (g * UNIT) \div ONE <= n
  BY <1>1, <1>6, <1>7, DivLe
<1> QED BY <1>3, <1>8, BalancesNat

\* What a balance keeps and the dust it drops add up to the balance.
LEMMA DustNat ==
    ASSUME NEW n \in Nat
    PROVE  NonDust(n) \in Nat /\ DustOf(n) \in Nat /\ NonDust(n) + DustOf(n) = n
  BY DEF NonDust, DustOf, balance_close_to_zero

\* The lesser of two amounts.
LEMMA LesserNat ==
    ASSUME NEW a \in Nat, NEW b \in Nat
    PROVE  Lesser(a, b) \in Nat /\ Lesser(a, b) <= a /\ Lesser(a, b) <= b
  BY DEF Lesser

-----------------------------------------------------------------------------
(* Sequences *)

\* The elements of a sequence over a set.
LEMMA Members == ASSUME NEW S, NEW s \in Seq(S) PROVE \A i \in DOMAIN s : s[i] \in S
  OBVIOUS

\* What Append does, element by element.
LEMMA Appended ==
    ASSUME NEW S, NEW x \in Seq(S), NEW e \in S, NEW y, y = Append(x, e)
    PROVE  y \in Seq(S) /\ Len(x) \in Nat /\ Len(y) = Len(x) + 1
           /\ y[Len(x) + 1] = e /\ \A i \in 1..Len(x) : y[i] = x[i]
  OBVIOUS

\* What is left of a sequence without its first k elements.
LEMMA Suffix ==
    ASSUME NEW S, NEW s \in Seq(S), NEW k \in Nat, k <= Len(s)
    PROVE  /\ SubSeq(s, k + 1, Len(s)) \in Seq(S)
           /\ Len(SubSeq(s, k + 1, Len(s))) = Len(s) - k
           /\ \A j \in 1..(Len(s) - k) : SubSeq(s, k + 1, Len(s))[j] = s[k + j]
<1> DEFINE n == Len(s)
<1>1. n \in Nat /\ s \in [1..n -> S]
  OBVIOUS
<1> DEFINE b == [j \in 1..(n - k) |-> s[k + j]]
<1>2. SubSeq(s, k + 1, n) = b
  OBVIOUS
<1>3. b \in Seq(S) /\ Len(b) = n - k
  <2>1. n - k \in Nat
    BY <1>1
  <2>2. PICK m \in Nat : m = n - k
    BY <2>1
  <2>3. \A j \in 1..m : s[k + j] \in S
    BY <1>1, <2>2
  <2>4. b = [j \in 1..m |-> s[k + j]]
    BY <2>2
  <2> HIDE DEF b
  <2>5. b \in [1..m -> S]
    BY <2>3, <2>4
  <2>6. b \in Seq(S) /\ Len(b) = m
    BY <2>5
  <2> QED BY <2>2, <2>6
<1>4. \A j \in 1..(n - k) : b[j] = s[k + j]
  OBVIOUS
<1> HIDE DEF b
<1> QED BY <1>2, <1>3, <1>4, Zenon DEF n

\* Two sequences, one after the other.
LEMMA Joined ==
    ASSUME NEW S, NEW a \in Seq(S), NEW b \in Seq(S)
    PROVE  /\ a \o b \in Seq(S)
           /\ Len(a \o b) = Len(a) + Len(b)
           /\ \A j \in 1..Len(a) : (a \o b)[j] = a[j]
           /\ \A j \in 1..Len(b) : (a \o b)[Len(a) + j] = b[j]
  OBVIOUS

\* Min picks a member of the set.
LEMMA MinIsMember ==
    ASSUME NEW S \in SUBSET Nat, S # {}
    PROVE  Min(S) \in S
  BY LeastNatural DEF Min

-----------------------------------------------------------------------------
(* One pool, as a call reads and writes it *)

\* What the calls on a pool read and write: its record, its stakers, the ledger, the balances.
Ctx == [p : PoolInfo, s : [User -> UserStakeInfo], ledger : [User -> Nat],
        bal : [User -> Nat], ok : BOOLEAN]

\* The shares of each user, as a function to sum.
Shares(s) == [u \in User |-> s[u].shares]

\* The pool's total_shares are the shares of its stakers.
SharesMatch(p, s) == p.total_shares = SumFunctionOnSet(Shares(s), User)

\* What a user has locked, elsewhere and here, is in the ledger; the ledger is in the balance.
LocksCovered(c, other) ==
    \A u \in User : other[u] + c.s[u].locked <= c.ledger[u] /\ c.ledger[u] <= c.bal[u]

\* A queue as the calls leave it: amounts above dust, and one request of a user.
QueueFits(queue) ==
    \A i, j \in DOMAIN queue :
        /\ is_nondust_balance(queue[i].shares)
        /\ queue[i].user = queue[j].user => i = j

\* The ages of a queue's requests.
Ages(queue) == {queue[i].age : i \in DOMAIN queue}

\* What the calls on a pool preserve of its record, its stakers, the ledger and the balances:
\* "other" is what users have locked elsewhere, "staked" what is in sessions, "ages" the ages
\* the requests may have, "limit" a bound of the pool's stake.
Sound(c, other, staked, ages, limit, cap, releasing) ==
    /\ c \in Ctx
    /\ SharesMatch(c.p, c.s)
    /\ LocksCovered(c, other)
    /\ c.p.total_stake <= c.p.free_stake + staked
    /\ QueueFits(c.p.withdraw_queue)
    /\ Ages(c.p.withdraw_queue) \subseteq ages
    /\ c.p.total_stake <= limit
    /\ c.p.cap = cap
    /\ c.p.releasing_stake = releasing

-----------------------------------------------------------------------------
(* Withdraw queues *)

\* A queue without its front, which is taken off.
LEMMA RestOfQueue ==
    ASSUME NEW queue \in Seq(WithdrawInfo), queue # <<>>, QueueFits(queue)
    PROVE  /\ Tail(queue) \in Seq(WithdrawInfo) /\ QueueFits(Tail(queue))
           /\ Ages(Tail(queue)) \subseteq Ages(queue)
<1> DEFINE tail == Tail(queue)
<1>1. Len(queue) \in Nat \ {0} /\ DOMAIN queue = 1..Len(queue)
  OBVIOUS
<1>2. tail \in Seq(WithdrawInfo) /\ Len(tail) = Len(queue) - 1
      /\ \A i \in 1..Len(tail) : tail[i] = queue[i + 1]
  BY <1>1
<1> HIDE DEF tail
<1>3. DOMAIN tail = 1..(Len(queue) - 1)
  BY <1>2
<1>4. \A i \in DOMAIN tail : i + 1 \in DOMAIN queue /\ tail[i] = queue[i + 1]
  BY <1>1, <1>2, <1>3
<1>5. QueueFits(tail)
  <2> SUFFICES ASSUME NEW i \in DOMAIN tail, NEW j \in DOMAIN tail
               PROVE  /\ is_nondust_balance(tail[i].shares)
                      /\ tail[i].user = tail[j].user => i = j
    BY DEF QueueFits
  <2>1. /\ i + 1 \in DOMAIN queue /\ tail[i] = queue[i + 1]
        /\ j + 1 \in DOMAIN queue /\ tail[j] = queue[j + 1]
    BY <1>4
  <2>2. /\ is_nondust_balance(queue[i + 1].shares)
        /\ queue[i + 1].user = queue[j + 1].user => i + 1 = j + 1
    BY <2>1 DEF QueueFits
  <2>3. i \in Int /\ j \in Int
    BY <1>1, <1>3
  <2> QED BY <2>1, <2>2, <2>3
<1>6. Ages(tail) \subseteq Ages(queue)
  BY <1>4 DEF Ages
<1> QED BY <1>2, <1>5, <1>6 DEF tail

\* The first request of a queue, with the shares it still asks for.
Remainder(queue, shares) ==
    [user |-> Head(queue).user, shares |-> shares, age |-> Head(queue).age]

\* A queue whose front is taken off, or replaced by what is left of its request.
LEMMA ServedQueue ==
    ASSUME NEW queue \in Seq(WithdrawInfo), queue # <<>>, QueueFits(queue),
           NEW shares \in Nat, is_nondust_balance(shares),
           NEW left, left = Remainder(queue, shares)
    PROVE  /\ Tail(queue) \in Seq(WithdrawInfo) /\ QueueFits(Tail(queue))
           /\ Ages(Tail(queue)) \subseteq Ages(queue)
           /\ <<left>> \o Tail(queue) \in Seq(WithdrawInfo) /\ QueueFits(<<left>> \o Tail(queue))
           /\ Ages(<<left>> \o Tail(queue)) \subseteq Ages(queue)
<1> DEFINE tail == Tail(queue)
           new == <<left>> \o tail
<1>1. Len(queue) \in Nat \ {0} /\ DOMAIN queue = 1..Len(queue) /\ Head(queue) = queue[1]
      /\ queue[1] \in WithdrawInfo
  OBVIOUS
<1>2. tail \in Seq(WithdrawInfo) /\ Len(tail) = Len(queue) - 1
      /\ \A i \in 1..Len(tail) : tail[i] = queue[i + 1]
  BY <1>1
<1>3. left \in WithdrawInfo /\ left.user = queue[1].user /\ left.age = queue[1].age
      /\ left.shares = shares
  BY <1>1 DEF WithdrawInfo, Remainder
<1> HIDE DEF tail
<1>4. new \in Seq(WithdrawInfo) /\ Len(new) = Len(queue) /\ new[1] = left
      /\ \A i \in 2..Len(queue) : new[i] = queue[i]
  <2>1. <<left>> \in Seq(WithdrawInfo) /\ Len(<<left>>) = 1
    BY <1>3
  <2>2. new \in Seq(WithdrawInfo) /\ Len(new) = 1 + Len(tail)
    BY <1>2, <2>1
  <2>3. new[1] = left
    BY <1>2, <2>1
  <2>4. ASSUME NEW i \in 2..Len(queue) PROVE new[i] = queue[i]
    <3>1. new[i] = tail[i - 1]
      BY <1>1, <1>2, <2>1
    <3> QED BY <1>1, <1>2, <3>1
  <2>5. Len(new) = Len(queue)
    <3> HIDE DEF new
    <3>1. Len(tail) = Len(queue) - 1
      BY <1>2
    <3>2. Len(queue) \in Nat
      BY <1>1
    <3> QED BY <2>2, <3>1, <3>2
  <2> QED BY <2>2, <2>3, <2>4, <2>5
<1> HIDE DEF new
<1>5. DOMAIN tail = 1..(Len(queue) - 1) /\ DOMAIN new = 1..Len(queue)
  BY <1>2, <1>4
<1>6. \A i \in DOMAIN tail : i + 1 \in DOMAIN queue /\ tail[i] = queue[i + 1]
  BY <1>1, <1>2, <1>5
<1>7. \A i \in DOMAIN new : /\ i \in DOMAIN queue
                            /\ new[i].user = queue[i].user /\ new[i].age = queue[i].age
                            /\ new[i].shares \in {shares, queue[i].shares}
  <2> SUFFICES ASSUME NEW i \in DOMAIN new
               PROVE  /\ i \in DOMAIN queue
                      /\ new[i].user = queue[i].user /\ new[i].age = queue[i].age
                      /\ new[i].shares \in {shares, queue[i].shares}
    OBVIOUS
  <2>1. CASE i = 1
    BY <1>1, <1>3, <1>4, <2>1
  <2>2. CASE i # 1
    <3>1. i \in 2..Len(queue)
      BY <1>1, <1>5, <2>2
    <3> QED BY <1>1, <1>4, <3>1
  <2> QED BY <2>1, <2>2
<1>8. QueueFits(tail)
  BY <1>1, <1>5, <1>6 DEF QueueFits
<1>9. QueueFits(new)
  BY <1>1, <1>5, <1>7 DEF QueueFits
<1>10. Ages(tail) \subseteq Ages(queue) /\ Ages(new) \subseteq Ages(queue)
  BY <1>6, <1>7 DEF Ages
<1> QED BY <1>2, <1>4, <1>8, <1>9, <1>10 DEF tail, new

\* The queue without a user's requests: requests of the queue, none of the user, none twice.
LEMMA WithoutFits ==
    ASSUME NEW queue \in Seq(WithdrawInfo), QueueFits(queue), NEW u
    PROVE  /\ Without(queue, u) \in Seq(WithdrawInfo)
           /\ QueueFits(Without(queue, u))
           /\ \A i \in DOMAIN Without(queue, u) :
                 \E j \in DOMAIN queue : Without(queue, u)[i] = queue[j] /\ queue[j].user # u
<1> DEFINE K(n) == {x \in Seq(WithdrawInfo) :
                      /\ QueueFits(x)
                      /\ \A i \in DOMAIN x :
                            \E j \in 1..n : x[i] = queue[j] /\ queue[j].user # u}
           step(n, x) == IF queue[n].user = u THEN x ELSE Append(x, queue[n])
           F(h, n) == h = [i \in 0..n |-> IF i = 0 THEN <<>> ELSE step(i, h[i - 1])]
           b == Len(queue)
           retained == CHOOSE h : F(h, b)
<1>1. Without(queue, u) = retained[b]
  BY DEF Without
<1>2. b \in Nat /\ DOMAIN queue = 1..b
  OBVIOUS
<1>3. <<>> \in K(0)
  BY DEF QueueFits
<1>4. ASSUME NEW n \in Nat, n + 1 <= b, NEW x \in K(n) PROVE step(n + 1, x) \in K(n + 1)
  <2>1. n + 1 \in DOMAIN queue /\ queue[n + 1] \in WithdrawInfo
    BY <1>2, <1>4
  <2>2. \A i \in DOMAIN x : \E j \in 1..(n + 1) : x[i] = queue[j] /\ queue[j].user # u
    BY <1>4
  <2>3. CASE queue[n + 1].user = u
    BY <2>2, <2>3
  <2>4. CASE queue[n + 1].user # u
    <3> DEFINE y == Append(x, queue[n + 1])
    <3>1. y \in Seq(WithdrawInfo) /\ Len(x) \in Nat /\ Len(y) = Len(x) + 1
          /\ y[Len(x) + 1] = queue[n + 1] /\ \A i \in 1..Len(x) : y[i] = x[i]
      BY <2>1
    <3> HIDE DEF y
    <3>2. DOMAIN x = 1..Len(x) /\ DOMAIN y = 1..(Len(x) + 1)
      BY <3>1
    <3>3. \A i \in DOMAIN y : i \in DOMAIN x \/ i = Len(x) + 1
      BY <3>1, <3>2
    <3>4. \A i \in DOMAIN x : y[i] = x[i]
      BY <3>1, <3>2
    <3>5. \A i \in DOMAIN x : x[i].user # queue[n + 1].user
      <4> SUFFICES ASSUME NEW i \in DOMAIN x, x[i].user = queue[n + 1].user PROVE FALSE
        OBVIOUS
      <4>1. PICK j \in 1..n : x[i] = queue[j]
        BY <1>4
      <4>2. j \in DOMAIN queue /\ j # n + 1
        BY <1>2, <1>4
      <4> QED BY <2>1, <4>1, <4>2 DEF QueueFits
    <3>6. is_nondust_balance(queue[n + 1].shares)
      BY <2>1 DEF QueueFits
    <3>7. QueueFits(y)
      <4> SUFFICES ASSUME NEW i \in DOMAIN y, NEW j \in DOMAIN y
                   PROVE  /\ is_nondust_balance(y[i].shares)
                          /\ y[i].user = y[j].user => i = j
        BY DEF QueueFits
      <4>1. CASE i \in DOMAIN x /\ j \in DOMAIN x
        BY <3>4, <4>1 DEF QueueFits
      <4>2. CASE i \in DOMAIN x /\ j = Len(x) + 1
        BY <3>1, <3>4, <3>5, <4>2 DEF QueueFits
      <4>3. CASE i = Len(x) + 1 /\ j \in DOMAIN x
        BY <3>1, <3>4, <3>5, <3>6, <4>3
      <4>4. CASE i = Len(x) + 1 /\ j = Len(x) + 1
        BY <3>1, <3>6, <4>4
      <4> QED BY <3>3, <4>1, <4>2, <4>3, <4>4
    <3>8. \A i \in DOMAIN y : \E j \in 1..(n + 1) : y[i] = queue[j] /\ queue[j].user # u
      <4>1. n + 1 \in 1..(n + 1)
        OBVIOUS
      <4> SUFFICES ASSUME NEW i \in DOMAIN y
                   PROVE  \E j \in 1..(n + 1) : y[i] = queue[j] /\ queue[j].user # u
        OBVIOUS
      <4> HIDE DEF K, step
      <4>2. CASE i \in DOMAIN x
        BY <2>2, <3>4, <4>2
      <4>3. CASE i = Len(x) + 1
        BY <2>4, <3>1, <4>1, <4>3
      <4> QED BY <3>3, <4>2, <4>3
    <3>9. y \in K(n + 1)
      BY <3>1, <3>7, <3>8
    <3> QED BY <2>4, <3>9 DEF y
  <2> QED BY <2>3, <2>4
<1> HIDE DEF step, K
<1>5. \A n \in Nat : \E h : F(h, n)
  <2> DEFINE I == {n \in Nat : \E h : F(h, n)}
  <2>1. 0 \in I
    <3>1. F([i \in 0..0 |-> <<>>], 0)
      OBVIOUS
    <3>2. \E h : F(h, 0)
      BY <3>1
    <3> HIDE DEF F
    <3> QED BY <3>2
  <2>2. ASSUME NEW n \in Nat, n \in I PROVE n + 1 \in I
    <3>1. PICK h : F(h, n)
      BY <2>2
    <3> DEFINE g == [i \in 0..(n + 1) |-> IF i <= n THEN h[i] ELSE step(n + 1, h[n])]
    <3>2. F(g, n + 1)
      <4>1. \A i \in 0..(n + 1) : g[i] = IF i = 0 THEN <<>> ELSE step(i, g[i - 1])
        <5> SUFFICES ASSUME NEW i \in 0..(n + 1)
                     PROVE  g[i] = IF i = 0 THEN <<>> ELSE step(i, g[i - 1])
          OBVIOUS
        <5>1. CASE i = 0
          BY <3>1, <5>1
        <5>2. CASE i # 0 /\ i <= n
          <6>1. i \in 0..n /\ i - 1 \in 0..n /\ i - 1 \in 0..(n + 1) /\ i - 1 <= n
            BY <5>2
          <6>2. g[i] = h[i] /\ g[i - 1] = h[i - 1]
            BY <5>2, <6>1
          <6>3. h[i] = step(i, h[i - 1])
            BY <3>1, <5>2, <6>1
          <6> QED BY <5>2, <6>2, <6>3
        <5>3. CASE i = n + 1
          <6>1. i - 1 = n /\ ~(i <= n) /\ n \in 0..(n + 1) /\ i # 0
            BY <5>3
          <6> QED BY <5>3, <6>1
        <5> QED BY <5>1, <5>2, <5>3
      <4> QED BY <4>1
    <3>3. \E k : F(k, n + 1)
      BY <3>2
    <3> HIDE DEF F
    <3> QED BY <3>3
  <2> QED BY <2>1, <2>2, SetInduction
<1>6. F(retained, b)
  BY <1>2, <1>5
<1> HIDE DEF retained
<1>7. \A n \in Nat : n <= b => retained[n] \in K(n)
  <2> DEFINE I == {n \in Nat : n <= b => retained[n] \in K(n)}
  <2>1. 0 \in I
    BY <1>2, <1>3, <1>6
  <2>2. ASSUME NEW n \in Nat, n \in I PROVE n + 1 \in I
    <3> SUFFICES ASSUME n + 1 <= b PROVE retained[n + 1] \in K(n + 1)
      OBVIOUS
    <3>1. n + 1 \in 0..b /\ n + 1 # 0 /\ (n + 1) - 1 = n /\ n <= b
      BY <1>2
    <3>2. retained[n + 1] = step(n + 1, retained[n])
      BY <1>6, <3>1
    <3>3. retained[n] \in K(n)
      BY <2>2, <3>1
    <3> QED BY <1>4, <3>2, <3>3
  <2> QED BY <2>1, <2>2, SetInduction
<1>8. retained[b] \in K(b)
  BY <1>2, <1>7
<1> QED BY <1>1, <1>2, <1>8 DEF K

\* push_withdraw_in_queue: the user's new request at the end, older ones of the user dropped.
NewQueue(queue, u, shares) ==
    Append(Without(queue, u), [user |-> u, shares |-> shares, age |-> 0])

\* A new request of the user, in place of an older one.
LEMMA NewRequestFits ==
    ASSUME NEW queue \in Seq(WithdrawInfo), QueueFits(queue), NEW u \in User,
           NEW shares \in Nat, is_nondust_balance(shares)
    PROVE  /\ NewQueue(queue, u, shares) \in Seq(WithdrawInfo)
           /\ QueueFits(NewQueue(queue, u, shares))
           /\ Ages(NewQueue(queue, u, shares)) \subseteq Ages(queue) \cup {0}
<1> DEFINE x == Without(queue, u)
           request == [user |-> u, shares |-> shares, age |-> 0]
           new == NewQueue(queue, u, shares)
<1>1. /\ x \in Seq(WithdrawInfo) /\ QueueFits(x)
      /\ \A i \in DOMAIN x : \E j \in DOMAIN queue : x[i] = queue[j] /\ queue[j].user # u
  BY WithoutFits
<1>2. new = Append(x, request)
  BY DEF NewQueue
<1> HIDE DEF x, new
<1>3. request \in WithdrawInfo /\ request.user = u /\ request.shares = shares /\ request.age = 0
  BY StakePoolAssumption DEF WithdrawInfo, Age
<1> HIDE DEF request
<1>4. new \in Seq(WithdrawInfo) /\ Len(x) \in Nat /\ Len(new) = Len(x) + 1
      /\ new[Len(x) + 1] = request /\ \A i \in 1..Len(x) : new[i] = x[i]
  BY <1>1, <1>2, <1>3, Appended
<1>5. DOMAIN x = 1..Len(x) /\ DOMAIN new = 1..(Len(x) + 1)
  BY <1>1, <1>4
<1>6. \A i \in DOMAIN new : (i \in DOMAIN x /\ new[i] = x[i]) \/ i = Len(x) + 1
  BY <1>4, <1>5
<1>7. QueueFits(new)
  <2> SUFFICES ASSUME NEW i \in DOMAIN new, NEW j \in DOMAIN new
               PROVE  /\ is_nondust_balance(new[i].shares)
                      /\ new[i].user = new[j].user => i = j
    BY DEF QueueFits
  <2>1. CASE i \in DOMAIN x /\ new[i] = x[i] /\ j \in DOMAIN x /\ new[j] = x[j]
    BY <1>1, <2>1 DEF QueueFits
  <2>2. CASE i \in DOMAIN x /\ new[i] = x[i] /\ j = Len(x) + 1
    BY <1>1, <1>3, <1>4, <2>2 DEF QueueFits
  <2>3. CASE i = Len(x) + 1 /\ j \in DOMAIN x /\ new[j] = x[j]
    BY <1>1, <1>3, <1>4, <2>3
  <2>4. CASE i = Len(x) + 1 /\ j = Len(x) + 1
    BY <1>3, <1>4, <2>4
  <2> QED BY <1>6, <2>1, <2>2, <2>3, <2>4
<1>8. Ages(new) \subseteq Ages(queue) \cup {0}
  BY <1>1, <1>3, <1>4, <1>6 DEF Ages
<1> QED BY <1>4, <1>7, <1>8 DEF new

\* A queue without its i-th request.
LEMMA RemovedFits ==
    ASSUME NEW queue \in Seq(WithdrawInfo), QueueFits(queue), NEW i \in 1..Len(queue)
    PROVE  /\ RemoveAt(queue, i) \in Seq(WithdrawInfo)
           /\ QueueFits(RemoveAt(queue, i))
           /\ Ages(RemoveAt(queue, i)) \subseteq Ages(queue)
<1> DEFINE n == Len(queue)
           a == SubSeq(queue, 1, i - 1)
           b == SubSeq(queue, i + 1, n)
           new == a \o b
<1>1. n \in Nat /\ DOMAIN queue = 1..n
  OBVIOUS
<1>2. a \in Seq(WithdrawInfo) /\ Len(a) = i - 1 /\ \A j \in 1..(i - 1) : a[j] = queue[j]
  BY <1>1
<1>3. b \in Seq(WithdrawInfo) /\ Len(b) = n - i /\ \A j \in 1..(n - i) : b[j] = queue[i + j]
  <2>1. PICK k \in Nat : k = i
    BY <1>1
  <2>2. k <= n
    BY <1>1, <2>1
  <2>3. SubSeq(queue, k + 1, n) \in Seq(WithdrawInfo) /\ Len(SubSeq(queue, k + 1, n)) = n - k
        /\ \A j \in 1..(n - k) : SubSeq(queue, k + 1, n)[j] = queue[k + j]
    BY <2>2, Suffix
  <2> QED BY <2>1, <2>3
<1>4. RemoveAt(queue, i) = new
  BY DEF RemoveAt
<1> HIDE DEF a, b
<1>5. /\ new \in Seq(WithdrawInfo) /\ Len(new) = n - 1
      /\ \A j \in 1..(i - 1) : new[j] = queue[j]
      /\ \A j \in i..(n - 1) : new[j] = queue[j + 1]
  <2>1. /\ new \in Seq(WithdrawInfo) /\ Len(new) = Len(a) + Len(b)
        /\ \A j \in 1..Len(a) : new[j] = a[j]
        /\ \A j \in 1..Len(b) : new[Len(a) + j] = b[j]
    <3>1. a \in Seq(WithdrawInfo) /\ b \in Seq(WithdrawInfo)
      BY <1>2, <1>3
    <3>2. PICK x \in Seq(WithdrawInfo) : x = a
      BY <3>1
    <3>3. PICK y \in Seq(WithdrawInfo) : y = b
      BY <3>1
    <3>4. /\ x \o y \in Seq(WithdrawInfo) /\ Len(x \o y) = Len(x) + Len(y)
          /\ \A j \in 1..Len(x) : (x \o y)[j] = x[j]
          /\ \A j \in 1..Len(y) : (x \o y)[Len(x) + j] = y[j]
      BY Joined
    <3>5. new = x \o y
      BY <3>2, <3>3
    <3> HIDE DEF new
    <3> QED BY <3>2, <3>3, <3>4, <3>5
  <2> HIDE DEF new
  <2>2. Len(new) = n - 1
    BY <1>1, <1>2, <1>3, <2>1
  <2>3. ASSUME NEW j \in 1..(i - 1) PROVE new[j] = queue[j]
    BY <1>2, <2>1
  <2>4. ASSUME NEW j \in i..(n - 1) PROVE new[j] = queue[j + 1]
    <3>1. new[j] = b[j - (i - 1)]
      <4>1. PICK k \in 1..Len(b) : k = j - (i - 1)
        BY <1>1, <1>3
      <4>2. new[Len(a) + k] = b[k] /\ Len(a) + k = j
        BY <1>1, <1>2, <2>1, <4>1
      <4> QED BY <4>1, <4>2
    <3>2. j - (i - 1) \in 1..(n - i) /\ i + (j - (i - 1)) = j + 1
      BY <1>1
    <3> QED BY <1>3, <3>1, <3>2
  <2> QED BY <2>1, <2>2, <2>3, <2>4
<1> HIDE DEF new
<1>6. DOMAIN new = 1..(n - 1)
  BY <1>5
<1> DEFINE at(j) == IF j < i THEN j ELSE j + 1
<1>7. \A j \in DOMAIN new : at(j) \in DOMAIN queue /\ new[j] = queue[at(j)]
  BY <1>1, <1>5, <1>6
<1>8. \A j, k \in DOMAIN new : at(j) = at(k) => j = k
  BY <1>6
<1> HIDE DEF at
<1>9. QueueFits(new)
  BY <1>7, <1>8 DEF QueueFits
<1>10. Ages(new) \subseteq Ages(queue)
  BY <1>7 DEF Ages
<1> QED BY <1>4, <1>5, <1>9, <1>10

\* A queue one of whose requests asks for other shares.
LEMMA RepairedFits ==
    ASSUME NEW queue \in Seq(WithdrawInfo), QueueFits(queue), NEW i \in DOMAIN queue,
           NEW shares \in Nat, is_nondust_balance(shares), NEW new,
           new = [queue EXCEPT ![i] = [user |-> @.user, shares |-> shares, age |-> @.age]]
    PROVE  new \in Seq(WithdrawInfo) /\ QueueFits(new) /\ Ages(new) \subseteq Ages(queue)
<1> DEFINE r == [user |-> queue[i].user, shares |-> shares, age |-> queue[i].age]
<1>1. queue[i] \in WithdrawInfo
  OBVIOUS
<1>2. r \in WithdrawInfo /\ r.user = queue[i].user /\ r.age = queue[i].age /\ r.shares = shares
  BY <1>1 DEF WithdrawInfo
<1>3. new = [queue EXCEPT ![i] = r]
  OBVIOUS
<1> HIDE DEF r
<1>4. new \in Seq(WithdrawInfo) /\ DOMAIN new = DOMAIN queue /\ new[i] = r
      /\ \A j \in DOMAIN queue \ {i} : new[j] = queue[j]
  BY <1>2, <1>3
<1>5. \A j \in DOMAIN new : j \in DOMAIN queue /\ new[j].user = queue[j].user
        /\ new[j].age = queue[j].age /\ (new[j].shares = shares \/ new[j].shares = queue[j].shares)
  BY <1>2, <1>4
<1>6. QueueFits(new)
  BY <1>5 DEF QueueFits
<1>7. Ages(new) \subseteq Ages(queue)
  BY <1>5 DEF Ages
<1> QED BY <1>4, <1>6, <1>7

\* The requests of a queue a block later.
LEMMA AgedQueue ==
    ASSUME NEW queue \in Seq(WithdrawInfo), QueueFits(queue), NEW new,
           new = [i \in DOMAIN queue |->
                    [user |-> queue[i].user, shares |-> queue[i].shares, age |-> Older(queue[i].age)]]
    PROVE  /\ new \in Seq(WithdrawInfo) /\ QueueFits(new)
           /\ Ages(new) = {Older(a) : a \in Ages(queue)}
<1>1. \A a \in Age : Older(a) \in Age
  BY StakePoolAssumption DEF Age, Older, Lesser
<1>2. DOMAIN queue = 1..Len(queue) /\ Len(queue) \in Nat /\ \A i \in DOMAIN queue : queue[i] \in WithdrawInfo
  OBVIOUS
<1>3. \A i \in DOMAIN queue :
         [user |-> queue[i].user, shares |-> queue[i].shares, age |-> Older(queue[i].age)] \in WithdrawInfo
  BY <1>1, <1>2 DEF WithdrawInfo
<1>4. new \in Seq(WithdrawInfo)
  BY <1>2, <1>3
<1>5. DOMAIN new = DOMAIN queue
      /\ \A i \in DOMAIN new : new[i].user = queue[i].user /\ new[i].shares = queue[i].shares
                               /\ new[i].age = Older(queue[i].age)
  OBVIOUS
<1>6. QueueFits(new)
  BY <1>5 DEF QueueFits
<1>7. Ages(new) = {Older(a) : a \in Ages(queue)}
  BY <1>5 DEF Ages
<1> QED BY <1>4, <1>6, <1>7

-----------------------------------------------------------------------------
(* Adding, removing and slashing stake *)

\* The price of a share is an amount.
LEMMA PriceNat == ASSUME NEW p \in PoolInfo, HasPrice(p) PROVE share_price(p) \in Nat
  BY BalancesNat DEF HasPrice, share_price, PoolInfo

\* What a staker is slashed is not more than what is locked.
LEMMA SlashNat == ASSUME NEW c \in Ctx, NEW u \in User
  PROVE SlashOf(c, u) \in Nat /\ SlashOf(c, u) <= c.s[u].locked
<1>1. c.s[u].shares \in Nat /\ c.s[u].locked \in Nat /\ c.p \in PoolInfo
  BY DEF Ctx, UserStakeInfo
<1>2. CASE HasPrice(c.p)
  <2> DEFINE worth == Lesser(bmul(c.s[u].shares, share_price(c.p)), c.s[u].locked)
  <2>1. bmul(c.s[u].shares, share_price(c.p)) \in Nat
    BY <1>1, <1>2, PriceNat, BalancesNat
  <2>2. worth \in Nat /\ worth <= c.s[u].locked
    BY <1>1, <2>1, LesserNat
  <2> HIDE DEF worth
  <2>3. NonDust(worth) \in Nat /\ NonDust(worth) <= worth
    BY <2>2, DustNat
  <2>4. SlashOf(c, u) = c.s[u].locked - NonDust(worth)
    BY <1>2 DEF SlashOf, worth
  <2> QED BY <1>1, <2>2, <2>3, <2>4
<1>3. CASE ~HasPrice(c.p)
  BY <1>1, <1>3 DEF SlashOf
<1> QED BY <1>2, <1>3

\* Two stakers' maps that differ in one user's shares.
LEMMA SharesChange ==
    ASSUME NEW s \in [User -> UserStakeInfo], NEW u \in User, NEW info \in UserStakeInfo,
           NEW t, t = [s EXCEPT ![u] = info]
    PROVE  SumFunctionOnSet(Shares(t), User) =
             SumFunctionOnSet(Shares(s), User) + info.shares - s[u].shares
<1> DEFINE f == Shares(s)
           g == Shares(t)
<1>1. t \in [User -> UserStakeInfo]
  OBVIOUS
<1>2. \A v \in User : f[v] \in Int /\ g[v] \in Int
  BY <1>1 DEF UserStakeInfo, Shares
<1>3. \A v \in User \ {u} : g[v] = f[v]
  BY DEF Shares
<1>4. g[u] = info.shares /\ f[u] = s[u].shares
  BY DEF Shares
<1> HIDE DEF f, g
<1>5. SumFunctionOnSet(g, User) = SumFunctionOnSet(f, User) + g[u] - f[u]
  BY <1>2, <1>3, StakePoolAssumption, SumChange
<1> QED BY <1>4, <1>5 DEF f, g

\* maybe_settle_slash takes the slash off the lock, the ledger and the balance alike.
LEMMA SettleSound ==
    ASSUME NEW other \in [User -> Nat], NEW staked \in Nat, NEW ages, NEW limit, NEW cap,
           NEW releasing, NEW c, Sound(c, other, staked, ages, limit, cap, releasing),
           NEW u \in User
    PROVE  /\ Sound(maybe_settle_slash(c, u), other, staked, ages, limit, cap, releasing)
           /\ maybe_settle_slash(c, u).p = c.p
           /\ maybe_settle_slash(c, u).bal[u] - maybe_settle_slash(c, u).ledger[u]
                = c.bal[u] - c.ledger[u]
<1> DEFINE lost == SlashOf(c, u)
           actual == IF is_nondust_balance(lost) THEN Lesser(lost, c.bal[u]) ELSE 0
           info == [locked |-> c.s[u].locked - lost, shares |-> c.s[u].shares]
           t == [c.s EXCEPT ![u] = info]
           ledger == [c.ledger EXCEPT ![u] = SaturatingSub(@, actual)]
           bal == [c.bal EXCEPT ![u] = @ - actual]
           d == [p |-> c.p, ok |-> c.ok, s |-> t, ledger |-> ledger, bal |-> bal]
<1>1. maybe_settle_slash(c, u) = d
  BY DEF maybe_settle_slash
<1>2. c \in Ctx /\ c.s[u] \in UserStakeInfo /\ c.s[u].locked \in Nat /\ c.s[u].shares \in Nat
      /\ c.ledger[u] \in Nat /\ c.bal[u] \in Nat /\ c.s \in [User -> UserStakeInfo]
      /\ c.ledger \in [User -> Nat] /\ c.bal \in [User -> Nat] /\ other[u] \in Nat
  BY DEF Sound, Ctx, UserStakeInfo
<1>3. lost \in Nat /\ lost <= c.s[u].locked
  BY <1>2, SlashNat
<1> HIDE DEF lost
<1>4. other[u] + c.s[u].locked <= c.ledger[u] /\ c.ledger[u] <= c.bal[u]
  BY DEF Sound, LocksCovered
<1>5. actual \in {0, lost}
  BY <1>2, <1>3, <1>4 DEF Lesser
<1> HIDE DEF actual
<1>6. SaturatingSub(c.ledger[u], actual) = c.ledger[u] - actual
  BY <1>2, <1>3, <1>4, <1>5 DEF SaturatingSub
<1>7. info \in UserStakeInfo /\ info.shares = c.s[u].shares /\ info.locked = c.s[u].locked - lost
  BY <1>2, <1>3 DEF UserStakeInfo
<1> HIDE DEF info
<1>8. t \in [User -> UserStakeInfo] /\ ledger \in [User -> Nat] /\ bal \in [User -> Nat]
  BY <1>2, <1>3, <1>4, <1>5, <1>6, <1>7
<1>9. d \in Ctx
  BY <1>2, <1>8 DEF Ctx
<1>10. SumFunctionOnSet(Shares(t), User) =
             SumFunctionOnSet(Shares(c.s), User) + info.shares - c.s[u].shares
  BY <1>2, <1>7, SharesChange
<1>11. SharesMatch(d.p, d.s)
  <2>1. c.p.total_shares \in Nat
    BY <1>2 DEF Ctx, PoolInfo
  <2>2. SumFunctionOnSet(Shares(c.s), User) = c.p.total_shares
    BY DEF Sound, SharesMatch
  <2>3. SumFunctionOnSet(Shares(t), User) = c.p.total_shares
    BY <1>2, <1>7, <1>10, <2>1, <2>2
  <2> HIDE DEF t
  <2> QED BY <2>3 DEF SharesMatch
<1>12. LocksCovered(d, other)
  <2> SUFFICES ASSUME NEW v \in User
               PROVE  other[v] + t[v].locked <= ledger[v] /\ ledger[v] <= bal[v]
    BY DEF LocksCovered
  <2>1. CASE v = u
    BY <1>2, <1>3, <1>4, <1>5, <1>6, <1>7, <2>1
  <2>2. CASE v # u
    <3>1. t[v] = c.s[v] /\ ledger[v] = c.ledger[v] /\ bal[v] = c.bal[v]
      BY <1>2, <2>2
    <3> QED BY <3>1 DEF Sound, LocksCovered
  <2> QED BY <2>1, <2>2
<1>13. d.p = c.p /\ d.bal[u] - d.ledger[u] = c.bal[u] - c.ledger[u]
  BY <1>2, <1>3, <1>4, <1>5, <1>6
<1> HIDE DEF d
<1> QED BY <1>1, <1>9, <1>11, <1>12, <1>13 DEF Sound

\* A call that fails on the way leaves what it had.
LEMMA FailedSound ==
    ASSUME NEW other, NEW staked, NEW ages, NEW limit, NEW cap, NEW releasing, NEW c,
           Sound(c, other, staked, ages, limit, cap, releasing)
    PROVE  Sound(Failed(c), other, staked, ages, limit, cap, releasing)
<1>1. Failed(c) \in Ctx
  BY DEF Sound, Failed, Ctx
<1>2. Failed(c).p = c.p /\ Failed(c).s = c.s /\ Failed(c).ledger = c.ledger /\ Failed(c).bal = c.bal
  BY DEF Failed
<1> HIDE DEF Failed
<1> QED BY <1>1, <1>2 DEF Sound, LocksCovered

\* remove_stake pays no more than the pool has free and the user has locked.
LEMMA PayoutNat ==
    ASSUME NEW c \in Ctx, NEW u \in User, NEW shares \in Nat, HasPrice(c.p)
    PROVE  /\ Payout(c, u, shares) \in Nat
           /\ Payout(c, u, shares) <= c.p.free_stake
           /\ Payout(c, u, shares) <= c.s[u].locked
<1>1. c.s[u].locked \in Nat /\ c.p.free_stake \in Nat /\ c.p \in PoolInfo
  BY DEF Ctx, UserStakeInfo, PoolInfo
<1>2. bmul(shares, share_price(c.p)) \in Nat
  BY <1>1, PriceNat, BalancesNat
<1> DEFINE a == Lesser(bmul(shares, share_price(c.p)), c.p.free_stake)
<1>3. a \in Nat /\ a <= c.p.free_stake
  BY <1>1, <1>2, LesserNat
<1> HIDE DEF a
<1>4. Lesser(a, c.s[u].locked) \in Nat /\ Lesser(a, c.s[u].locked) <= a
      /\ Lesser(a, c.s[u].locked) <= c.s[u].locked
  BY <1>1, <1>3, LesserNat
<1>5. Payout(c, u, shares) = Lesser(a, c.s[u].locked)
  BY DEF Payout, a
<1> QED BY <1>1, <1>3, <1>4, <1>5

\* What is left of a pool's total and free stake: everything is dropped when the total is dust.
LEMMA PaidOut ==
    ASSUME NEW stake \in Nat, NEW free_stake \in Nat, NEW staked \in Nat, NEW amount \in Nat,
           amount <= free_stake, stake <= free_stake + staked
    PROVE  LET empties == balance_close_to_zero(stake - amount)
               total == IF empties THEN 0 ELSE stake - amount
               free == IF empties THEN 0 ELSE free_stake - amount
           IN  total \in Nat /\ free \in Nat /\ total <= stake /\ total <= free + staked
<1>1. Dust \in Nat
  BY BalanceMathAssumption
<1>2. CASE balance_close_to_zero(stake - amount)
  BY <1>2
<1>3. CASE ~balance_close_to_zero(stake - amount)
  <2>1. stake - amount \in Nat /\ stake - amount <= stake
    BY <1>1, <1>3 DEF balance_close_to_zero
  <2>2. free_stake - amount \in Nat /\ stake - amount <= free_stake - amount + staked
    OBVIOUS
  <2> QED BY <1>3, <2>1, <2>2
<1> QED BY <1>2, <1>3

\* What is paid and dropped of a lock is in the ledger and in the balance: nothing saturates.
LEMMA PaidFromLedger ==
    ASSUME NEW o \in Nat, NEW locked \in Nat, NEW amount \in Nat, NEW dust \in Nat,
           NEW rest \in Nat, NEW l \in Nat, NEW b \in Nat,
           locked = amount + dust + rest, o + locked <= l, l <= b
    PROVE  /\ SaturatingSub(l, amount + dust) = l - amount - dust
           /\ SaturatingSub(b, dust) = b - dust
           /\ l - amount - dust \in Nat /\ b - dust \in Nat
  BY DEF SaturatingSub

\* remove_stake, and its failures, keep a pool sound.
LEMMA RemoveSound ==
    ASSUME NEW other \in [User -> Nat], NEW staked \in Nat, NEW ages, NEW limit \in Nat, NEW cap,
           NEW releasing, NEW c, Sound(c, other, staked, ages, limit, cap, releasing),
           NEW u \in User, NEW shares \in Nat
    PROVE  /\ Sound(remove_stake(c, u, shares), other, staked, ages, limit, cap, releasing)
           /\ remove_stake(c, u, shares).p.withdraw_queue = c.p.withdraw_queue
<1> DEFINE user == c.s[u]
           amount == Payout(c, u, shares)
           dropped == DustOf(user.shares - shares)
           empties == balance_close_to_zero(c.p.total_stake - amount)
           dust == DustOf(user.locked - amount)
           total == IF empties THEN 0 ELSE c.p.total_stake - amount
           free == IF empties THEN 0 ELSE c.p.free_stake - amount
           info == [locked |-> NonDust(user.locked - amount), shares |-> NonDust(user.shares - shares)]
           t == [c.s EXCEPT ![u] = info]
           p == WithStake(c.p, c.p.total_shares - (shares + dropped), total, free)
           ledger == [c.ledger EXCEPT ![u] = SaturatingSub(@, amount + dust)]
           bal == [c.bal EXCEPT ![u] = SaturatingSub(@, dust)]
           d == [p |-> p, s |-> t, ok |-> c.ok, ledger |-> ledger, bal |-> bal]
<1>0. c \in Ctx /\ user \in UserStakeInfo /\ user.locked \in Nat /\ user.shares \in Nat
      /\ c.ledger[u] \in Nat /\ c.bal[u] \in Nat /\ c.s \in [User -> UserStakeInfo]
      /\ c.ledger \in [User -> Nat] /\ c.bal \in [User -> Nat] /\ other[u] \in Nat
      /\ c.ok \in BOOLEAN
  BY DEF Sound, Ctx, UserStakeInfo
<1>1. /\ c.p \in PoolInfo /\ c.p.total_shares \in Nat /\ c.p.total_stake \in Nat
      /\ c.p.free_stake \in Nat /\ c.p.releasing_stake \in Nat
      /\ c.p.owner \in PoolOwner /\ c.p.cap \in Cap \cup {None}
      /\ c.p.withdraw_queue \in Seq(WithdrawInfo)
  BY <1>0 DEF Ctx, PoolInfo
<1>2. CASE HasPrice(c.p) /\ shares <= user.shares /\ shares + dropped <= c.p.total_shares
  <2>1. remove_stake(c, u, shares) = d
    BY <1>2 DEF remove_stake, ledger_reduce
  <2>2. amount \in Nat /\ amount <= c.p.free_stake /\ amount <= user.locked
    BY <1>0, <1>2, PayoutNat
  <2> HIDE DEF amount
  <2>3. NonDust(user.locked - amount) \in Nat /\ dust \in Nat
        /\ NonDust(user.locked - amount) = user.locked - amount - dust
    BY <1>0, <2>2 DEF NonDust, DustOf, balance_close_to_zero
  <2>4. NonDust(user.shares - shares) \in Nat /\ dropped \in Nat
        /\ NonDust(user.shares - shares) = user.shares - (shares + dropped)
    BY <1>0, <1>2 DEF NonDust, DustOf, balance_close_to_zero
  <2>5. /\ total \in Nat /\ free \in Nat /\ total <= c.p.total_stake
        /\ total <= free + staked
    <3>1. c.p.total_stake <= c.p.free_stake + staked
      BY DEF Sound
    <3>2. Dust \in Nat
      BY BalanceMathAssumption
    <3> QED BY <1>1, <2>2, <3>1, PaidOut
  <2>6. info \in UserStakeInfo /\ info.shares = user.shares - (shares + dropped)
        /\ info.locked = user.locked - amount - dust
    BY <2>3, <2>4 DEF UserStakeInfo
  <2> HIDE DEF total, free, dust, dropped, info, empties
  <2>7. other[u] + user.locked <= c.ledger[u] /\ c.ledger[u] <= c.bal[u]
    BY DEF Sound, LocksCovered
  <2>8. /\ SaturatingSub(c.ledger[u], amount + dust) = c.ledger[u] - amount - dust
        /\ SaturatingSub(c.bal[u], dust) = c.bal[u] - dust
        /\ c.ledger[u] - amount - dust \in Nat /\ c.bal[u] - dust \in Nat
    <3>1. info.locked \in Nat
      BY <2>6 DEF UserStakeInfo
    <3>2. PICK rest \in Nat : rest = info.locked
      BY <3>1
    <3>3. PICK locked \in Nat : locked = user.locked
      BY <1>0
    <3>4. PICK l \in Nat : l = c.ledger[u]
      BY <1>0
    <3>5. PICK b \in Nat : b = c.bal[u]
      BY <1>0
    <3>6. PICK o \in Nat : o = other[u]
      BY <1>0
    <3>7. locked = amount + dust + rest
      BY <2>2, <2>3, <2>6, <3>2, <3>3
    <3>8. o + locked <= l /\ l <= b
      BY <2>7, <3>3, <3>4, <3>5, <3>6
    <3>9. /\ SaturatingSub(l, amount + dust) = l - amount - dust
          /\ SaturatingSub(b, dust) = b - dust
          /\ l - amount - dust \in Nat /\ b - dust \in Nat
      BY <2>2, <2>3, <3>7, <3>8, PaidFromLedger
    <3> QED BY <3>4, <3>5, <3>9
  <2>9. t \in [User -> UserStakeInfo] /\ ledger \in [User -> Nat] /\ bal \in [User -> Nat]
    BY <1>0, <2>6, <2>8
  <2>10. p \in PoolInfo /\ p.total_shares = c.p.total_shares - (shares + dropped)
         /\ p.total_stake = total /\ p.free_stake = free /\ p.cap = c.p.cap
         /\ p.releasing_stake = c.p.releasing_stake /\ p.withdraw_queue = c.p.withdraw_queue
    <3>1. c.p.total_shares - (shares + dropped) \in Nat
      BY <1>1, <1>2, <2>4
    <3> QED BY <1>1, <2>5, <3>1 DEF WithStake, PoolInfo
  <2> HIDE DEF p
  <2>11. d \in Ctx
    BY <1>0, <2>9, <2>10 DEF Ctx
  <2>12. SharesMatch(p, t)
    <3>1. SumFunctionOnSet(Shares(t), User) =
             SumFunctionOnSet(Shares(c.s), User) + info.shares - c.s[u].shares
      BY <1>0, <2>6, SharesChange
    <3>2. SumFunctionOnSet(Shares(c.s), User) = c.p.total_shares
      BY DEF Sound, SharesMatch
    <3>3. SumFunctionOnSet(Shares(t), User) = p.total_shares
      <4>1. PICK gone \in Nat : gone = shares + dropped
        BY <2>4
      <4>2. PICK new \in Nat : new = info.shares
        BY <2>6 DEF UserStakeInfo
      <4>3. user.shares = new + gone
        BY <1>0, <2>6, <4>1, <4>2
      <4>4. p.total_shares = c.p.total_shares - gone
        BY <2>10, <4>1
      <4>5. SumFunctionOnSet(Shares(t), User) = c.p.total_shares + new - user.shares
        BY <3>1, <3>2, <4>2
      <4> HIDE DEF t, user
      <4> QED BY <1>1, <4>3, <4>4, <4>5
    <3> QED BY <3>3 DEF SharesMatch
  <2>13. LocksCovered(d, other)
    <3> SUFFICES ASSUME NEW v \in User
                 PROVE  other[v] + t[v].locked <= ledger[v] /\ ledger[v] <= bal[v]
      BY DEF LocksCovered
    <3>1. CASE v = u
      <4>1. t[v] = info /\ ledger[v] = c.ledger[u] - amount - dust /\ bal[v] = c.bal[u] - dust
        BY <1>0, <2>8, <3>1
      <4> QED BY <1>0, <2>2, <2>3, <2>6, <2>7, <3>1, <4>1
    <3>2. CASE v # u
      <4>1. t[v] = c.s[v] /\ ledger[v] = c.ledger[v] /\ bal[v] = c.bal[v]
        BY <1>0, <3>2
      <4> QED BY <4>1 DEF Sound, LocksCovered
    <3> QED BY <3>1, <3>2
  <2>14. d.p = p /\ d.s = t
    OBVIOUS
  <2> HIDE DEF d, t
  <2>15. total <= limit /\ c.p.cap = cap /\ c.p.releasing_stake = releasing
    BY <1>1, <2>5 DEF Sound
  <2> QED BY <2>1, <2>5, <2>10, <2>11, <2>12, <2>13, <2>14, <2>15 DEF Sound
<1>3. CASE ~(HasPrice(c.p) /\ shares <= user.shares /\ shares + dropped <= c.p.total_shares)
  <2>1. remove_stake(c, u, shares) = Failed(c)
    BY <1>3 DEF remove_stake
  <2>2. Failed(c).p = c.p
    BY DEF Failed
  <2> QED BY <2>1, <2>2, FailedSound
<1> QED BY <1>2, <1>3

\* One user's shares and the pool's total change by as much.
LEMMA SharesMoved ==
    ASSUME NEW s \in [User -> UserStakeInfo], NEW u \in User, NEW info \in UserStakeInfo,
           NEW t, t = [s EXCEPT ![u] = info], NEW p, NEW q, SharesMatch(p, s),
           p.total_shares \in Nat, q.total_shares = p.total_shares + info.shares - s[u].shares
    PROVE  SharesMatch(q, t)
<1>1. SumFunctionOnSet(Shares(t), User) =
         SumFunctionOnSet(Shares(s), User) + info.shares - s[u].shares
  BY SharesChange
<1> QED BY <1>1 DEF SharesMatch

\* The shares bought with an amount.
LEMMA SharesForNat ==
    ASSUME NEW p \in PoolInfo, NEW amount \in Nat
    PROVE  SharesFor(p, amount) \in Nat
<1>1. CASE IsPriced(p)
  <2>1. share_price(p) \in Nat \ {0}
    BY <1>1, PriceNat DEF IsPriced
  <2> QED BY <1>1, <2>1, BalancesNat DEF SharesFor
<1>2. CASE ~IsPriced(p)
  BY <1>2 DEF SharesFor
<1> QED BY <1>1, <1>2

\* What contribute has checked: the cap, and the user's free balance.
Affordable(c, u, amount, higher) ==
    c.p.total_stake + amount <= higher /\ c.ledger[u] + amount <= c.bal[u]

\* add_stake keeps a pool sound, up to the limit that its caller has checked.
LEMMA AddSound ==
    ASSUME NEW other \in [User -> Nat], NEW staked \in Nat, NEW ages, NEW limit \in Nat, NEW cap,
           NEW releasing, NEW c, Sound(c, other, staked, ages, limit, cap, releasing),
           NEW u \in User, NEW amount \in Nat, NEW higher \in Nat,
           Affordable(c, u, amount, higher)
    PROVE  Sound(add_stake(c, u, amount), other, staked, ages, higher, cap, releasing)
<1> DEFINE shares == SharesFor(c.p, amount)
           info == [locked |-> c.s[u].locked + amount, shares |-> c.s[u].shares + shares]
           t == [c.s EXCEPT ![u] = info]
           p == WithStake(c.p, c.p.total_shares + shares, c.p.total_stake + amount,
                          c.p.free_stake + amount)
           ledger == [c.ledger EXCEPT ![u] = @ + amount]
           d == [p |-> p, s |-> t, ledger |-> ledger, bal |-> c.bal, ok |-> c.ok]
<1>1. add_stake(c, u, amount) = d
  BY DEF add_stake
<1>2. c \in Ctx /\ c.s[u] \in UserStakeInfo /\ c.s[u].locked \in Nat /\ c.s[u].shares \in Nat
      /\ c.ledger[u] \in Nat /\ c.bal[u] \in Nat /\ c.s \in [User -> UserStakeInfo]
      /\ c.ledger \in [User -> Nat] /\ c.bal \in [User -> Nat] /\ other[u] \in Nat
      /\ c.ok \in BOOLEAN
  BY DEF Sound, Ctx, UserStakeInfo
<1>3. /\ c.p \in PoolInfo /\ c.p.total_shares \in Nat /\ c.p.total_stake \in Nat
      /\ c.p.free_stake \in Nat /\ c.p.releasing_stake \in Nat
      /\ c.p.owner \in PoolOwner /\ c.p.cap \in Cap \cup {None}
      /\ c.p.withdraw_queue \in Seq(WithdrawInfo)
  BY <1>2 DEF Ctx, PoolInfo
<1>4. shares \in Nat
  BY <1>3, SharesForNat
<1> HIDE DEF shares
<1>5. info \in UserStakeInfo /\ info.shares = c.s[u].shares + shares
      /\ info.locked = c.s[u].locked + amount
  BY <1>2, <1>4 DEF UserStakeInfo
<1> HIDE DEF info
<1>6. t \in [User -> UserStakeInfo] /\ ledger \in [User -> Nat]
  BY <1>2, <1>5
<1>7. p \in PoolInfo /\ p.total_shares = c.p.total_shares + shares
      /\ p.total_stake = c.p.total_stake + amount /\ p.free_stake = c.p.free_stake + amount
      /\ p.cap = c.p.cap /\ p.releasing_stake = c.p.releasing_stake
      /\ p.withdraw_queue = c.p.withdraw_queue
  <2> DEFINE a == c.p.total_shares + shares
             b == c.p.total_stake + amount
             f == c.p.free_stake + amount
  <2>5. p = WithStake(c.p, a, b, f)
    OBVIOUS
  <2> HIDE DEF p, t, ledger, d, a, b, f
  <2>6. p \in PoolInfo /\ p.total_shares = a /\ p.total_stake = b /\ p.free_stake = f
        /\ p.cap = c.p.cap /\ p.releasing_stake = c.p.releasing_stake
        /\ p.withdraw_queue = c.p.withdraw_queue
    <3>0. /\ c.p.total_shares \in Nat /\ c.p.total_stake \in Nat /\ c.p.free_stake \in Nat
      BY <1>3
    <3>1. a \in Nat /\ b \in Nat /\ f \in Nat
      BY <1>4, <3>0 DEF a, b, f
    <3> QED BY <1>3, <2>5, <3>1 DEF WithStake, PoolInfo
  <2> QED BY <2>6 DEF a, b, f
<1> HIDE DEF p
<1>8. d \in Ctx
  BY <1>2, <1>6, <1>7 DEF Ctx
<1>9. SharesMatch(p, t)
  <2>1. p.total_shares = c.p.total_shares + info.shares - c.s[u].shares
    <3> HIDE DEF t, ledger, d
    <3>1. /\ c.p.total_shares \in Nat /\ c.s[u].shares \in Nat
      BY <1>2, <1>3
    <3>2. p.total_shares = c.p.total_shares + shares /\ info.shares = c.s[u].shares + shares
      BY <1>5, <1>7
    <3> QED BY <1>4, <3>1, <3>2
  <2>2. SharesMatch(c.p, c.s)
    BY DEF Sound
  <2> QED BY <1>2, <1>3, <1>5, <2>1, <2>2, SharesMoved
<1>10. LocksCovered(d, other)
  <2> SUFFICES ASSUME NEW v \in User
               PROVE  other[v] + t[v].locked <= ledger[v] /\ ledger[v] <= c.bal[v]
    BY DEF LocksCovered
  <2>1. other[v] + c.s[v].locked <= c.ledger[v] /\ c.ledger[v] <= c.bal[v]
    BY DEF Sound, LocksCovered
  <2>2. CASE v = u
    <3>1. t[v] = info /\ ledger[v] = c.ledger[u] + amount
      BY <1>2, <2>2
    <3> QED BY <1>2, <1>5, <2>1, <2>2, <3>1 DEF Affordable
  <2>3. CASE v # u
    <3>1. t[v] = c.s[v] /\ ledger[v] = c.ledger[v]
      BY <1>2, <2>3
    <3> QED BY <2>1, <3>1
  <2> QED BY <2>2, <2>3
<1>11. d.p = p /\ d.s = t
  OBVIOUS
<1> HIDE DEF d, t
<1>12. /\ c.p.total_stake <= c.p.free_stake + staked
       /\ c.p.cap = cap /\ c.p.releasing_stake = releasing
       /\ QueueFits(c.p.withdraw_queue) /\ Ages(c.p.withdraw_queue) \subseteq ages
  BY DEF Sound
<1>13. p.total_stake <= p.free_stake + staked /\ p.total_stake <= higher
  <2>1. /\ p.total_stake = c.p.total_stake + amount /\ p.free_stake = c.p.free_stake + amount
        /\ c.p.total_stake \in Nat /\ c.p.free_stake \in Nat
    BY <1>3, <1>7
  <2>2. c.p.total_stake + amount <= higher /\ c.p.total_stake <= c.p.free_stake + staked
    BY <1>12 DEF Affordable
  <2> HIDE DEF ledger
  <2> QED BY <2>1, <2>2
<1> QED BY <1>1, <1>7, <1>8, <1>9, <1>10, <1>11, <1>12, <1>13 DEF Sound

-----------------------------------------------------------------------------
(* The calls *)

\* A pool with another queue that fits.
LEMMA RequeueSound ==
    ASSUME NEW other, NEW staked, NEW ages, NEW limit, NEW cap, NEW releasing, NEW c,
           Sound(c, other, staked, ages, limit, cap, releasing),
           NEW queue \in Seq(WithdrawInfo), QueueFits(queue), NEW wider, Ages(queue) \subseteq wider
    PROVE  Sound(Requeue(c, queue), other, staked, wider, limit, cap, releasing)
<1> DEFINE p == WithQueue(c.p, queue)
           d == Requeue(c, queue)
<1>1. c \in Ctx /\ c.p \in PoolInfo
  BY DEF Sound, Ctx
<1>2. p \in PoolInfo /\ p.total_shares = c.p.total_shares /\ p.total_stake = c.p.total_stake
      /\ p.free_stake = c.p.free_stake /\ p.cap = c.p.cap
      /\ p.releasing_stake = c.p.releasing_stake /\ p.withdraw_queue = queue
  BY <1>1 DEF WithQueue, PoolInfo
<1> HIDE DEF p
<1>3. d \in Ctx /\ d.p = p /\ d.s = c.s /\ d.ledger = c.ledger /\ d.bal = c.bal
  BY <1>1, <1>2 DEF Ctx, Requeue, p
<1> HIDE DEF d
<1>4. SharesMatch(p, c.s)
  BY <1>2 DEF Sound, SharesMatch
<1>5. LocksCovered(d, other)
  BY <1>3 DEF Sound, LocksCovered
<1>6. Sound(d, other, staked, wider, limit, cap, releasing)
  BY <1>2, <1>3, <1>4, <1>5 DEF Sound
<1> QED BY <1>6 DEF d

\* remove_stake does not touch the queue.
LEMMA RemoveKeepsQueue ==
    ASSUME NEW c, NEW u, NEW shares
    PROVE  remove_stake(c, u, shares).p.withdraw_queue = c.p.withdraw_queue
  BY DEF remove_stake, ledger_reduce, Failed, WithStake

\* One iteration of the loop over the withdraw queue.
LEMMA FrontSound ==
    ASSUME NEW other \in [User -> Nat], NEW staked \in Nat, NEW ages, NEW limit \in Nat, NEW cap,
           NEW releasing, NEW c, Sound(c, other, staked, ages, limit, cap, releasing),
           NEW price \in Nat, c.p.withdraw_queue # <<>>
    PROVE  Sound(ProcessFront(c, price), other, staked, ages, limit, cap, releasing)
<1> DEFINE queue == c.p.withdraw_queue
           request == Head(queue)
           u == request.user
           free_shares == IF price = 0 THEN request.shares ELSE bdiv(c.p.free_stake, price)
           withdrawing == Lesser(free_shares, request.shares)
           rest == NonDust(request.shares - withdrawing)
           settled == maybe_settle_slash(c, u)
           served == remove_stake(settled, u, withdrawing)
           left == [user |-> u, shares |-> rest, age |-> request.age]
<1>1. queue \in Seq(WithdrawInfo) /\ QueueFits(queue) /\ Ages(queue) \subseteq ages
      /\ c.p.free_stake \in Nat
  BY DEF Sound, Ctx, PoolInfo
<1>2. request \in WithdrawInfo
  BY <1>1
<1>3. u \in User /\ request.shares \in Nat
  BY <1>2 DEF WithdrawInfo
<1>4. free_shares \in Nat
  <2>1. CASE price = 0
    BY <1>3, <2>1
  <2>2. CASE price # 0
    BY <1>1, <2>2, BalancesNat
  <2> QED BY <2>1, <2>2
<1> HIDE DEF free_shares
<1>5. withdrawing \in Nat /\ withdrawing <= request.shares
  BY <1>3, <1>4, LesserNat
<1> HIDE DEF withdrawing, u
<1>6. rest \in Nat /\ (rest = 0 \/ is_nondust_balance(rest))
  <2>1. request.shares - withdrawing \in Nat
    BY <1>3, <1>5
  <2> QED BY <2>1 DEF NonDust, is_nondust_balance, balance_close_to_zero
<1>7. /\ Sound(settled, other, staked, ages, limit, cap, releasing)
      /\ settled.p = c.p
  BY <1>3, SettleSound
<1> HIDE DEF settled
<1>8. /\ Sound(served, other, staked, ages, limit, cap, releasing)
      /\ served.p.withdraw_queue = settled.p.withdraw_queue
  <2>1. u \in User
    BY <1>3
  <2>2. withdrawing \in Nat
    BY <1>5
  <2>3. Sound(settled, other, staked, ages, limit, cap, releasing)
    BY <1>7
  <2>4. PICK n \in Nat : n = withdrawing
    BY <2>2
  <2>5. served = remove_stake(settled, u, n)
    BY <2>4
  <2> HIDE DEF queue, request, rest, served
  <2>6. Sound(remove_stake(settled, u, n), other, staked, ages, limit, cap, releasing)
    BY <2>1, <2>3, RemoveSound
  <2>7. remove_stake(settled, u, n).p.withdraw_queue = settled.p.withdraw_queue
    BY RemoveKeepsQueue
  <2> QED BY <2>5, <2>6, <2>7
<1>9. served.p.withdraw_queue = queue
  BY <1>7, <1>8
<1> HIDE DEF served, rest, queue, request
<1>10. CASE ~served.ok
  <2>1. ProcessFront(c, price) = served
    BY <1>10 DEF ProcessFront, served, settled, withdrawing, free_shares, u, request, queue
  <2> QED BY <1>8, <2>1
<1>11. CASE served.ok /\ rest = 0
  <2>1. ProcessFront(c, price) = Requeue(served, Tail(queue))
    BY <1>11 DEF ProcessFront, served, settled, withdrawing, free_shares, u, request, queue, rest
  <2>2. /\ Tail(queue) \in Seq(WithdrawInfo) /\ QueueFits(Tail(queue))
        /\ Ages(Tail(queue)) \subseteq Ages(queue)
    <3>1. queue # <<>>
      BY DEF queue
    <3> QED BY <1>1, <3>1, RestOfQueue
  <2>3. Ages(Tail(queue)) \subseteq ages
    BY <1>1, <2>2
  <2> QED BY <1>8, <2>1, <2>2, <2>3, RequeueSound
<1>12. CASE served.ok /\ rest # 0
  <2>1. ProcessFront(c, price) = Requeue(served, <<left>> \o Tail(queue))
    BY <1>12 DEF ProcessFront, served, settled, withdrawing, free_shares, u, request, queue, rest
  <2>2. left = Remainder(queue, rest)
    BY DEF Remainder, u, request
  <2> HIDE DEF left
  <2>3. /\ <<left>> \o Tail(queue) \in Seq(WithdrawInfo)
        /\ QueueFits(<<left>> \o Tail(queue))
        /\ Ages(<<left>> \o Tail(queue)) \subseteq Ages(queue)
    <3>1. queue # <<>>
      BY DEF queue
    <3> QED BY <1>1, <1>6, <1>12, <2>2, <3>1, ServedQueue
  <2>4. Ages(<<left>> \o Tail(queue)) \subseteq ages
    BY <1>1, <2>3
  <2> QED BY <1>8, <2>1, <2>3, <2>4, RequeueSound
<1> QED BY <1>10, <1>11, <1>12

\* The loop: what its iterations preserve, it preserves, however many it makes.
LEMMA QueueLoop ==
    ASSUME NEW c, NEW K, c \in K, c.p \in PoolInfo,
           \A x \in K : MayServe(x) /\ HasPrice(c.p) => ProcessFront(x, share_price(c.p)) \in K
    PROVE  try_process_withdraw_queue(c) \in K
<1> DEFINE price == share_price(c.p)
           bound == 2 * Len(c.p.withdraw_queue)
           step(x) == IF MayServe(x) THEN ProcessFront(x, price) ELSE x
           F(h, n) == h = [i \in 0..n |-> IF i = 0 THEN c ELSE step(h[i - 1])]
           after == CHOOSE h : F(h, bound)
<1>1. SUFFICES ASSUME HasPrice(c.p) PROVE try_process_withdraw_queue(c) \in K
  BY DEF try_process_withdraw_queue
<1>2. try_process_withdraw_queue(c) = after[bound]
  BY <1>1 DEF try_process_withdraw_queue
<1>3. bound \in Nat
  BY DEF PoolInfo
<1>4. \A x \in K : step(x) \in K
  BY <1>1
<1> HIDE DEF price, bound, step
<1>5. \A n \in Nat : \E h : F(h, n)
  <2> DEFINE I == {n \in Nat : \E h : F(h, n)}
  <2>1. 0 \in I
    <3>1. F([i \in 0..0 |-> c], 0)
      OBVIOUS
    <3> QED BY <3>1
  <2>2. ASSUME NEW n \in Nat, n \in I PROVE n + 1 \in I
    <3>1. PICK h : F(h, n)
      BY <2>2
    <3> DEFINE g == [i \in 0..(n + 1) |-> IF i <= n THEN h[i] ELSE step(h[n])]
    <3>2. F(g, n + 1)
      <4>1. \A i \in 0..(n + 1) : g[i] = IF i = 0 THEN c ELSE step(g[i - 1])
        <5> SUFFICES ASSUME NEW i \in 0..(n + 1)
                     PROVE  g[i] = IF i = 0 THEN c ELSE step(g[i - 1])
          OBVIOUS
        <5>1. CASE i = 0
          BY <3>1, <5>1
        <5>2. CASE i # 0 /\ i <= n
          <6>1. i \in 0..n /\ i - 1 \in 0..n /\ i - 1 \in 0..(n + 1) /\ i - 1 <= n
            BY <5>2
          <6>2. g[i] = h[i] /\ g[i - 1] = h[i - 1]
            BY <5>2, <6>1
          <6>3. h[i] = step(h[i - 1])
            BY <3>1, <5>2, <6>1
          <6> QED BY <5>2, <6>2, <6>3
        <5>3. CASE i = n + 1
          <6>1. i - 1 = n /\ ~(i <= n) /\ n \in 0..(n + 1) /\ i # 0
            BY <5>3
          <6> QED BY <6>1
        <5> QED BY <5>1, <5>2, <5>3
      <4> QED BY <4>1
    <3>3. \E k : F(k, n + 1)
      BY <3>2
    <3> HIDE DEF F
    <3> QED BY <3>3
  <2> QED BY <2>1, <2>2, SetInduction
<1>6. F(after, bound)
  BY <1>3, <1>5
<1> HIDE DEF after
<1>7. \A n \in Nat : n <= bound => after[n] \in K
  <2> DEFINE I == {n \in Nat : n <= bound => after[n] \in K}
  <2>1. 0 \in I
    BY <1>3, <1>6
  <2>2. ASSUME NEW n \in Nat, n \in I PROVE n + 1 \in I
    <3> SUFFICES ASSUME n + 1 <= bound PROVE after[n + 1] \in K
      OBVIOUS
    <3>1. n + 1 \in 0..bound /\ n + 1 # 0 /\ (n + 1) - 1 = n /\ n <= bound
      BY <1>3
    <3>2. after[n + 1] = step(after[n])
      BY <1>6, <3>1
    <3> QED BY <1>4, <2>2, <3>1, <3>2
  <2> QED BY <2>1, <2>2, SetInduction
<1>8. after[bound] \in K
  BY <1>3, <1>7
<1> QED BY <1>2, <1>8

LEMMA QueueSound ==
    ASSUME NEW other \in [User -> Nat], NEW staked \in Nat, NEW ages, NEW limit \in Nat, NEW cap,
           NEW releasing, NEW c, Sound(c, other, staked, ages, limit, cap, releasing)
    PROVE  Sound(try_process_withdraw_queue(c), other, staked, ages, limit, cap, releasing)
<1> DEFINE K == {x \in Ctx : Sound(x, other, staked, ages, limit, cap, releasing)}
<1>1. c \in K /\ c.p \in PoolInfo
  BY DEF Sound, Ctx
<1>2. ASSUME NEW x \in K, MayServe(x), HasPrice(c.p)
      PROVE  ProcessFront(x, share_price(c.p)) \in K
  <2>1. PICK price \in Nat : price = share_price(c.p)
    BY <1>1, <1>2, PriceNat
  <2>2. Sound(x, other, staked, ages, limit, cap, releasing) /\ x.p.withdraw_queue # <<>>
    BY <1>2 DEF MayServe
  <2>3. Sound(ProcessFront(x, price), other, staked, ages, limit, cap, releasing)
    BY <2>2, FrontSound
  <2> QED BY <2>1, <2>3 DEF Sound
<1> HIDE DEF K
<1>3. try_process_withdraw_queue(c) \in K
  BY <1>1, <1>2, QueueLoop
<1> QED BY <1>3 DEF K

\* How a demand is split: what is withdrawn now, and what is queued, which is no dust.
LEMMA SplitNat ==
    ASSUME NEW p \in PoolInfo, NEW shares \in Nat
    PROVE  /\ WithdrawnNow(p, shares) \in Nat
           /\ QueuedShares(p, shares) \in Nat
           /\ QueuedShares(p, shares) = 0 \/ is_nondust_balance(QueuedShares(p, shares))
<1> DEFINE n == IF IsPriced(p) THEN Lesser(shares, bdiv(p.free_stake, share_price(p))) ELSE shares
<1>1. n \in Nat /\ n <= shares
  <2>1. CASE IsPriced(p)
    <3>1. share_price(p) \in Nat \ {0} /\ p.free_stake \in Nat
      BY <2>1, PriceNat DEF IsPriced, PoolInfo
    <3>2. bdiv(p.free_stake, share_price(p)) \in Nat
      BY <3>1, BalancesNat
    <3> QED BY <2>1, <3>2, LesserNat
  <2>2. CASE ~IsPriced(p)
    BY <2>2
  <2> QED BY <2>1, <2>2
<1>2. WithdrawnNow(p, shares) = NonDust(n)
  BY DEF WithdrawnNow
<1> HIDE DEF n
<1>3. NonDust(n) \in Nat /\ NonDust(n) <= n
  BY <1>1, DustNat
<1>4. shares - NonDust(n) \in Nat
  BY <1>1, <1>3
<1>5. PICK k \in Nat : k = shares - NonDust(n)
  BY <1>4
<1>6. QueuedShares(p, shares) = NonDust(k)
  BY <1>2, <1>5 DEF QueuedShares
<1>7. NonDust(k) \in Nat /\ (NonDust(k) = 0 \/ is_nondust_balance(NonDust(k)))
  BY DEF NonDust, is_nondust_balance, balance_close_to_zero
<1> QED BY <1>2, <1>3, <1>6, <1>7

\* The part of a withdrawal that is paid at once keeps a pool sound.
LEMMA WithdrawNowSound ==
    ASSUME NEW other \in [User -> Nat], NEW staked \in Nat, NEW ages, NEW limit \in Nat, NEW cap,
           NEW releasing, NEW c, Sound(c, other, staked, ages, limit, cap, releasing),
           NEW u \in User, NEW now \in Nat
    PROVE  Sound(WithdrawNow(c, u, now), other, staked, ages, limit, cap, releasing)
<1>1. CASE now = 0
  BY <1>1 DEF WithdrawNow
<1>2. CASE now # 0
  <2> DEFINE settled == maybe_settle_slash(c, u)
  <2>1. WithdrawNow(c, u, now) = remove_stake(settled, u, now)
    BY <1>2 DEF WithdrawNow
  <2>2. /\ Sound(settled, other, staked, ages, limit, cap, releasing)
        /\ settled.p = c.p
    BY SettleSound
  <2> HIDE DEF settled
  <2>3. Sound(remove_stake(settled, u, now), other, staked, ages, limit, cap, releasing)
    BY <2>2, RemoveSound
  <2> QED BY <2>1, <2>3
<1> QED BY <1>1, <1>2

\* A withdrawal may add a request of age 0.
LEMMA WithdrawSound ==
    ASSUME NEW other \in [User -> Nat], NEW staked \in Nat, NEW ages, NEW limit \in Nat, NEW cap,
           NEW releasing, NEW c, Sound(c, other, staked, ages, limit, cap, releasing),
           NEW u \in User, NEW shares \in Nat, NEW wider, ages \subseteq wider,
           QueuedShares(c.p, shares) > 0 => 0 \in wider
    PROVE  Sound(try_withdraw(c, u, shares), other, staked, wider, limit, cap, releasing)
<1> DEFINE queued == QueuedShares(c.p, shares)
           now == WithdrawnNow(c.p, shares)
           done == WithdrawNow(c, u, now)
           queue == c.p.withdraw_queue
<1>1. c.p \in PoolInfo /\ queue \in Seq(WithdrawInfo) /\ QueueFits(queue) /\ Ages(queue) \subseteq ages
  BY DEF Sound, Ctx, PoolInfo
<1>2. now \in Nat /\ queued \in Nat /\ (queued = 0 \/ is_nondust_balance(queued))
  BY <1>1, SplitNat
<1> HIDE DEF queued, now
<1>3. Sound(done, other, staked, ages, limit, cap, releasing)
  <2>1. PICK n \in Nat : n = now
    BY <1>2
  <2> QED BY <2>1, WithdrawNowSound
<1>4. done.p.withdraw_queue = queue
  BY RemoveKeepsQueue DEF WithdrawNow, maybe_settle_slash
<1> HIDE DEF done, queue
<1>5. Sound(done, other, staked, wider, limit, cap, releasing)
  BY <1>3 DEF Sound
<1>6. CASE queued = 0
  <2>1. try_withdraw(c, u, shares) = done
    BY <1>6 DEF try_withdraw, queued, done, now
  <2> QED BY <1>5, <2>1
<1>7. CASE queued # 0
  <2>1. try_withdraw(c, u, shares) = Requeue(done, NewQueue(queue, u, queued))
    <3>1. try_withdraw(c, u, shares) = Requeue(done, NewQueue(done.p.withdraw_queue, u, queued))
      BY <1>7 DEF try_withdraw, queued, done, now, NewQueue
    <3> QED BY <1>4, <3>1
  <2>2. PICK n \in Nat : n = queued
    BY <1>2
  <2>3. is_nondust_balance(n)
    BY <1>2, <1>7, <2>2
  <2>4. /\ NewQueue(queue, u, n) \in Seq(WithdrawInfo) /\ QueueFits(NewQueue(queue, u, n))
        /\ Ages(NewQueue(queue, u, n)) \subseteq Ages(queue) \cup {0}
    BY <1>1, <2>3, NewRequestFits
  <2>5. 0 \in wider
    BY <1>2, <1>7 DEF queued
  <2>6. Ages(NewQueue(queue, u, n)) \subseteq wider
    BY <1>1, <2>4, <2>5
  <2>7. Sound(Requeue(done, NewQueue(queue, u, n)), other, staked, wider, limit, cap, releasing)
    BY <1>5, <2>4, <2>6, RequeueSound
  <2> QED BY <2>1, <2>2, <2>7
<1> QED BY <1>6, <1>7

\* Stake that comes back from a miner, part of it slashed: before and after the queue is served.
LEMMA ReclaimedSound ==
    ASSUME NEW other \in [User -> Nat], NEW staked \in Nat, NEW ages, NEW limit \in Nat, NEW cap,
           NEW releasing \in Nat, NEW c, Sound(c, other, staked, ages, limit, cap, releasing),
           NEW stake \in Nat, NEW slashed \in Nat, slashed <= stake, stake <= staked
    PROVE  \E d : /\ Sound(d, other, staked - stake, ages, limit, cap,
                           SaturatingSub(releasing, stake - slashed))
                 /\ handle_reclaim(c, stake, slashed) = try_process_withdraw_queue(d)
                 /\ d.s = c.s /\ d.p.withdraw_queue = c.p.withdraw_queue
<1> DEFINE left == IF slashed = 0 THEN c.p.total_stake
                   ELSE NonDust(SaturatingSub(c.p.total_stake, slashed))
           returned == stake - slashed
           expected == SaturatingSub(releasing, returned)
           free == c.p.free_stake + returned
           p == WithReleasing(WithStake(c.p, c.p.total_shares, left, free), expected)
           d == [p |-> p, s |-> c.s, ledger |-> c.ledger, bal |-> c.bal, ok |-> c.ok]
           remaining == staked - stake
<1>1. /\ c \in Ctx /\ c.p \in PoolInfo /\ c.p.total_stake \in Nat
      /\ c.p.free_stake \in Nat /\ c.p.releasing_stake = releasing
      /\ c.p.total_stake <= c.p.free_stake + staked /\ c.p.total_stake <= limit
      /\ c.p.cap = cap
  BY DEF Sound, Ctx, PoolInfo
<1>2. handle_reclaim(c, stake, slashed) = try_process_withdraw_queue(d)
  BY <1>1 DEF handle_reclaim, Reclaimed
<1>3. returned \in Nat
  OBVIOUS
<1>4. expected \in Nat
  BY <1>3 DEF SaturatingSub
<1>5. free \in Nat
  BY <1>1, <1>3
<1>6. remaining \in Nat
  OBVIOUS
<1>7. left \in Nat /\ left <= c.p.total_stake /\ left <= free + remaining
  <2>1. PICK total \in Nat : total = c.p.total_stake
    BY <1>1
  <2>2. PICK f \in Nat : f = c.p.free_stake
    BY <1>1
  <2>3. total <= f + staked
    BY <1>1, <2>1, <2>2
  <2>4. LET l == IF slashed = 0 THEN total ELSE NonDust(SaturatingSub(total, slashed))
        IN  l \in Nat /\ l <= total /\ l <= f + (stake - slashed) + (staked - stake)
    BY <2>3 DEF NonDust, SaturatingSub
  <2> QED BY <2>1, <2>2, <2>4
<1> HIDE DEF left, returned, expected, free, remaining
<1>8. p \in PoolInfo /\ p.total_shares = c.p.total_shares /\ p.total_stake = left
      /\ p.free_stake = free /\ p.cap = c.p.cap /\ p.releasing_stake = expected
      /\ p.withdraw_queue = c.p.withdraw_queue
  BY <1>1, <1>4, <1>5, <1>7 DEF WithReleasing, WithStake, PoolInfo
<1> HIDE DEF p
<1>9. d \in Ctx /\ d.p = p /\ d.s = c.s /\ d.ledger = c.ledger /\ d.bal = c.bal
  BY <1>1, <1>8 DEF Ctx
<1> HIDE DEF d
<1>10. SharesMatch(p, c.s)
  BY <1>8 DEF Sound, SharesMatch
<1>11. LocksCovered(d, other)
  BY <1>9 DEF Sound, LocksCovered
<1>12. p.total_stake <= p.free_stake + remaining
  BY <1>7, <1>8
<1>13. p.total_stake <= limit
  BY <1>1, <1>7, <1>8
<1>14. Sound(d, other, remaining, ages, limit, cap, expected)
  BY <1>1, <1>8, <1>9, <1>10, <1>11, <1>12, <1>13 DEF Sound
<1> QED BY <1>2, <1>8, <1>9, <1>14 DEF remaining, expected, returned

LEMMA ReclaimSound ==
    ASSUME NEW other \in [User -> Nat], NEW staked \in Nat, NEW ages, NEW limit \in Nat, NEW cap,
           NEW releasing \in Nat, NEW c, Sound(c, other, staked, ages, limit, cap, releasing),
           NEW stake \in Nat, NEW slashed \in Nat, slashed <= stake, stake <= staked
    PROVE  Sound(handle_reclaim(c, stake, slashed), other, staked - stake, ages, limit, cap,
                 SaturatingSub(releasing, stake - slashed))
<1>1. PICK d : /\ Sound(d, other, staked - stake, ages, limit, cap,
                        SaturatingSub(releasing, stake - slashed))
               /\ handle_reclaim(c, stake, slashed) = try_process_withdraw_queue(d)
               /\ d.s = c.s /\ d.p.withdraw_queue = c.p.withdraw_queue
  BY ReclaimedSound
<1>2. PICK k \in Nat : k = staked - stake
  OBVIOUS
<1>3. PICK expected : expected = SaturatingSub(releasing, stake - slashed)
  OBVIOUS
<1>4. Sound(d, other, k, ages, limit, cap, expected)
  BY <1>1, <1>2, <1>3
<1>5. Sound(try_process_withdraw_queue(d), other, k, ages, limit, cap, expected)
  BY <1>4, QueueSound
<1> QED BY <1>1, <1>2, <1>3, <1>5

-----------------------------------------------------------------------------
(* The mining pallet's part of each step *)

\* The calls of users and pool owners that involve no miner leave the mining pallet alone.
LEMMA UserCallSteps == UserCall => M!Next \/ UNCHANGED M!vars
<1> SUFFICES ASSUME UserCall PROVE M!Next \/ UNCHANGED M!vars
  OBVIOUS
<1>1. PICK u \in User, pid \in Pid :
        \/ u \in PoolOwner /\ create(u, pid)
        \/ \E amount \in Contribution : contribute(u, pid, amount)
        \/ \E shares \in Demand \cup {PoolStakers[pid][u].shares} : withdraw(u, pid, shares)
        \/ reconcile_withdraw_queue(pid, u)
        \/ \E w \in Worker : unbind(u, pid, w)
  BY DEF UserCall
<1>2. CASE create(u, pid)
  BY <1>2 DEF create, minerVars, M!vars
<1>3. CASE \E amount \in Contribution : contribute(u, pid, amount)
  BY <1>3 DEF contribute, Panic, minerVars, M!vars
<1>4. CASE \E shares \in Demand \cup {PoolStakers[pid][u].shares} : withdraw(u, pid, shares)
  BY <1>4 DEF withdraw, Panic, minerVars, M!vars
<1>5. CASE reconcile_withdraw_queue(pid, u)
  BY <1>5, Zenon DEF reconcile_withdraw_queue, minerVars, M!vars
<1>6. ASSUME NEW w \in Worker, unbind(u, pid, w) PROVE M!Next
  <2>1. M!unbind_miner(<<pid, w>>)
    BY <1>6 DEF unbind, DetachWorker
  <2>2. <<pid, w>> \in Miner
    BY DEF Miner
  <2> QED
    BY <2>1, <2>2 DEF M!Next
<1> QED
  BY <1>1, <1>2, <1>3, <1>4, <1>5, <1>6

\* The calls on a pool's workers are calls of the mining pallet on the pool's sub-accounts.
LEMMA PoolCallSteps == PoolCall => M!Next \/ UNCHANGED M!vars
<1> SUFFICES ASSUME PoolCall PROVE M!Next \/ UNCHANGED M!vars
  OBVIOUS
<1>1. PICK pid \in Pid :
        \/ \E cap \in Cap : set_cap(pid, cap)
        \/ \E w \in Worker :
              \/ add_worker(pid, w)
              \/ remove_worker(pid, w)
              \/ \E stake \in StakeAmount : start_mining(pid, w, stake)
              \/ stop_mining(pid, w)
              \/ reclaim_pool_worker(pid, w)
  BY DEF PoolCall
<1>2. CASE \E cap \in Cap : set_cap(pid, cap)
  BY <1>2 DEF set_cap, minerVars, M!vars
<1>3. ASSUME NEW w \in Worker
      PROVE  <<pid, w>> \in Miner
  BY DEF Miner
<1>4. ASSUME NEW w \in Worker, add_worker(pid, w) PROVE M!Next
  <2>1. M!bind(<<pid, w>>, w)
    BY <1>4 DEF add_worker
  <2> QED
    BY <1>3, <2>1 DEF M!Next
<1>5. ASSUME NEW w \in Worker, remove_worker(pid, w) PROVE M!Next
  <2>1. M!unbind_miner(<<pid, w>>)
    BY <1>5 DEF remove_worker, DetachWorker
  <2> QED
    BY <1>3, <2>1 DEF M!Next
<1>6. ASSUME NEW w \in Worker, NEW stake \in StakeAmount, start_mining(pid, w, stake)
      PROVE  M!Next
  <2>1. M!start_mining(<<pid, w>>, stake)
    BY <1>6 DEF start_mining
  <2> QED
    BY <1>3, <2>1 DEF M!Next
<1>7. ASSUME NEW w \in Worker, stop_mining(pid, w) PROVE M!Next
  <2>1. M!stop_mining(<<pid, w>>)
    BY <1>7 DEF stop_mining
  <2> QED
    BY <1>3, <2>1 DEF M!Next
<1>8. ASSUME NEW w \in Worker, reclaim_pool_worker(pid, w) PROVE M!Next \/ UNCHANGED M!vars
  <2>1. CASE Panic
    BY <2>1 DEF Panic, minerVars, M!vars
  <2>2. CASE M!reclaim(<<pid, w>>)
    BY <1>3, <2>2 DEF M!Next
  <2> QED
    BY <1>8, <2>1, <2>2 DEF reclaim_pool_worker
<1> QED
  BY <1>1, <1>2, <1>4, <1>5, <1>6, <1>7, <1>8

\* The gatekeeper's messages, root and the end of a block.
LEMMA ChainEventSteps == ChainEvent => M!Next \/ UNCHANGED M!vars
<1> SUFFICES ASSUME ChainEvent PROVE M!Next \/ UNCHANGED M!vars
  OBVIOUS
<1>1. CASE \E offline, recovered, settled \in SUBSET Worker : \E settle \in [settled -> V] :
              on_gk_message_received(offline, recovered, settle)
  <2>1. PICK offline \in SUBSET Worker, recovered \in SUBSET Worker, settled \in SUBSET Worker :
          \E settle \in [settled -> V] : on_gk_message_received(offline, recovered, settle)
    BY <1>1
  <2>2. PICK settle \in [settled -> V] : on_gk_message_received(offline, recovered, settle)
    BY <2>1
  <2>3. M!on_gk_message_received(offline, recovered, settle)
    BY <2>2 DEF on_gk_message_received
  <2> QED
    BY <2>3 DEF M!Next
<1>2. CASE \E period \in CoolDowns : set_cool_down_expiration(period)
  BY <1>2 DEF set_cool_down_expiration, M!Next
<1>3. CASE \E enable \in Switch : set_mining_enable(enable)
  BY <1>3 DEF set_mining_enable, minerVars, M!vars
<1>4. CASE EndBlock
  <2>1. PICK stopping \in SUBSET Miner : M!EndBlock(stopping)
    BY <1>4 DEF EndBlock
  <2> QED
    BY <2>1 DEF M!Next
<1> QED
  BY <1>1, <1>2, <1>3, <1>4 DEF ChainEvent

-----------------------------------------------------------------------------
(* Workers, pools and preimages *)

BindTypes ==
    /\ PoolWorkers \in [Pid -> SUBSET Worker]
    /\ WorkerAssignments \in [Worker -> Pid \cup {None}]
    /\ MinerBindings \in [Miner -> Worker \cup {None}]
    /\ WorkerBindings \in [Worker -> Miner \cup {None}]
    /\ SubAccountPreimages \subseteq Miner
    /\ DOMAIN Stakes = Miner

\* A sub-account is only ever bound to the worker it was derived from: what unbind_miner
\* takes down is then what the pool takes down.
OwnWorker == \A pid \in Pid, w \in Worker : MinerBindings[<<pid, w>>] \in {w, None}

BindInv == BindTypes /\ OwnWorker /\ WorkersAgree /\ PreimagesMatchStakes

bindingVars == <<bindVars, SubAccountPreimages, MinerBindings, WorkerBindings, Stakes>>

LEMMA MinerPairs ==
    /\ \A pid \in Pid, w \in Worker : <<pid, w>> \in Miner /\ <<pid, w>> # None
    /\ \A m \in Miner : m[1] \in Pid /\ m[2] \in Worker /\ m = <<m[1], m[2]>>
  BY StakePoolAssumption DEF Miner

LEMMA BindInvInit == Init => BindInv
  <1> SUFFICES ASSUME Init PROVE BindInv
    OBVIOUS
  <1>1. /\ PoolWorkers = [pid \in Pid |-> {}]
        /\ WorkerAssignments = [w \in Worker |-> None]
        /\ SubAccountPreimages = {}
        /\ MinerBindings = [m \in Miner |-> None]
        /\ WorkerBindings = [w \in Worker |-> None]
        /\ Stakes = [m \in Miner |-> None]
    BY DEF Init, M!Init
  <1>2. BindTypes
    BY <1>1 DEF BindTypes
  <1>3. OwnWorker
    BY <1>1, MinerPairs DEF OwnWorker
  <1>4. WorkersAgree
    BY <1>1, MinerPairs, StakePoolAssumption DEF WorkersAgree
  <1>5. PreimagesMatchStakes
    BY <1>1 DEF PreimagesMatchStakes
  <1> QED
    BY <1>2, <1>3, <1>4, <1>5 DEF BindInv

\* Most calls touch none of these maps.
LEMMA BindInvKept == BindInv /\ UNCHANGED bindingVars => BindInv'
  BY DEF BindInv, BindTypes, OwnWorker, WorkersAgree, PreimagesMatchStakes,
         bindingVars, bindVars

LEMMA BindInvAdd ==
    ASSUME BindInv, NEW pid \in Pid, NEW w \in Worker, add_worker(pid, w)
    PROVE  BindInv'
  <1>1. /\ PoolWorkers' = [PoolWorkers EXCEPT ![pid] = @ \cup {w}]
        /\ WorkerAssignments' = [WorkerAssignments EXCEPT ![w] = pid]
        /\ MinerBindings' = [MinerBindings EXCEPT ![<<pid, w>>] = w]
        /\ WorkerBindings' = [WorkerBindings EXCEPT ![w] = <<pid, w>>]
        /\ WorkerBindings[w] = None
        /\ Stakes' = Stakes /\ SubAccountPreimages' = SubAccountPreimages
    BY DEF add_worker, M!bind, miscVars
  <1>2. BindTypes'
    BY <1>1, MinerPairs DEF BindInv, BindTypes
  <1>3. \A q \in Pid, x \in Worker : <<q, x>> = <<pid, w>> <=> q = pid /\ x = w
    OBVIOUS
  <1>4. \A q \in Pid, x \in Worker :
           MinerBindings'[<<q, x>>] = IF q = pid /\ x = w THEN w ELSE MinerBindings[<<q, x>>]
    BY <1>1, <1>3, MinerPairs DEF BindInv, BindTypes
  <1>5. OwnWorker'
    BY <1>4 DEF BindInv, OwnWorker
  <1>6. ASSUME NEW q \in Pid PROVE w \notin PoolWorkers[q]
    <2>1. w \in PoolWorkers[q] <=> WorkerBindings[w] = <<q, w>>
      BY DEF BindInv, WorkersAgree
    <2> QED
      BY <1>1, <2>1, MinerPairs
  <1>7. WorkersAgree'
    <2> SUFFICES ASSUME NEW q \in Pid, NEW x \in Worker
                 PROVE  /\ x \in PoolWorkers'[q] <=> WorkerAssignments'[x] = q
                        /\ x \in PoolWorkers'[q] <=> MinerBindings'[<<q, x>>] = x
                        /\ x \in PoolWorkers'[q] <=> WorkerBindings'[x] = <<q, x>>
      BY DEF WorkersAgree
    <2>1. /\ x \in PoolWorkers[q] <=> WorkerAssignments[x] = q
          /\ x \in PoolWorkers[q] <=> MinerBindings[<<q, x>>] = x
          /\ x \in PoolWorkers[q] <=> WorkerBindings[x] = <<q, x>>
      BY DEF BindInv, WorkersAgree
    <2>2. CASE x # w
      BY <1>1, <1>4, <2>1, <2>2 DEF BindInv, BindTypes
    <2>3. CASE x = w /\ q = pid
      BY <1>1, <1>4, <2>3 DEF BindInv, BindTypes
    <2>4. CASE x = w /\ q # pid
      <3>1. x \notin PoolWorkers'[q]
        BY <1>1, <1>6, <2>4 DEF BindInv, BindTypes
      <3>2. WorkerAssignments'[x] = pid /\ WorkerBindings'[x] = <<pid, w>>
        BY <1>1, <2>4 DEF BindInv, BindTypes
      <3>3. MinerBindings'[<<q, x>>] # x
        BY <1>4, <1>6, <2>1, <2>4
      <3> QED
        BY <1>3, <2>4, <3>1, <3>2, <3>3
    <2> QED
      BY <2>2, <2>3, <2>4
  <1>8. PreimagesMatchStakes'
    BY <1>1 DEF BindInv, PreimagesMatchStakes
  <1> QED
    BY <1>2, <1>5, <1>7, <1>8 DEF BindInv

\* remove_worker and unbind take a worker down in all four maps, from whichever side they come.
LEMMA BindInvDetach ==
    ASSUME BindInv, NEW pid \in Pid, NEW w \in Worker, DetachWorker(pid, w)
    PROVE  BindInv'
  <1>1. MinerBindings[<<pid, w>>] = w
    BY MinerPairs DEF DetachWorker, M!unbind_miner, BindInv, OwnWorker
  <1>2. WorkerAssignments[w] = pid /\ w \in PoolWorkers[pid]
    BY <1>1 DEF BindInv, WorkersAgree
  <1>3. /\ PoolWorkers' = [PoolWorkers EXCEPT ![pid] = @ \ {w}]
        /\ WorkerAssignments' = [WorkerAssignments EXCEPT ![w] = None]
        /\ MinerBindings' = [MinerBindings EXCEPT ![<<pid, w>>] = None]
        /\ WorkerBindings' = [WorkerBindings EXCEPT ![w] = None]
        /\ Stakes' = Stakes /\ SubAccountPreimages' = SubAccountPreimages
    BY <1>1, <1>2 DEF DetachWorker, M!unbind_miner, miscVars
  <1>4. BindTypes'
    BY <1>3, MinerPairs DEF BindInv, BindTypes
  <1>5. \A q \in Pid, x \in Worker : <<q, x>> = <<pid, w>> <=> q = pid /\ x = w
    OBVIOUS
  <1>6. \A q \in Pid, x \in Worker :
           MinerBindings'[<<q, x>>] = IF q = pid /\ x = w THEN None ELSE MinerBindings[<<q, x>>]
    BY <1>3, <1>5, MinerPairs DEF BindInv, BindTypes
  <1>7. OwnWorker'
    BY <1>6 DEF BindInv, OwnWorker
  <1>8. \A q \in Pid : w \notin PoolWorkers'[q]
    BY <1>2, <1>3 DEF BindInv, BindTypes, WorkersAgree
  <1>9. WorkersAgree'
    <2> SUFFICES ASSUME NEW q \in Pid, NEW x \in Worker
                 PROVE  /\ x \in PoolWorkers'[q] <=> WorkerAssignments'[x] = q
                        /\ x \in PoolWorkers'[q] <=> MinerBindings'[<<q, x>>] = x
                        /\ x \in PoolWorkers'[q] <=> WorkerBindings'[x] = <<q, x>>
      BY DEF WorkersAgree
    <2>1. /\ x \in PoolWorkers[q] <=> WorkerAssignments[x] = q
          /\ x \in PoolWorkers[q] <=> MinerBindings[<<q, x>>] = x
          /\ x \in PoolWorkers[q] <=> WorkerBindings[x] = <<q, x>>
      BY DEF BindInv, WorkersAgree
    <2>2. CASE x # w
      BY <1>3, <1>6, <2>1, <2>2 DEF BindInv, BindTypes
    <2>3. CASE x = w
      <3>1. WorkerAssignments'[x] = None /\ WorkerBindings'[x] = None
        BY <1>3, <2>3 DEF BindInv, BindTypes
      <3>2. MinerBindings'[<<q, x>>] # x
        BY <1>2, <1>6, <2>1, <2>3, StakePoolAssumption
      <3> QED
        BY <1>8, <2>3, <3>1, <3>2, MinerPairs, StakePoolAssumption
    <2> QED
      BY <2>2, <2>3
  <1>10. PreimagesMatchStakes'
    BY <1>3 DEF BindInv, PreimagesMatchStakes
  <1> QED
    BY <1>4, <1>7, <1>9, <1>10 DEF BindInv

LEMMA BindInvStart ==
    ASSUME BindInv, NEW pid \in Pid, NEW w \in Worker, NEW stake \in StakeAmount,
           start_mining(pid, w, stake)
    PROVE  BindInv'
  <1>1. /\ SubAccountPreimages' = SubAccountPreimages \cup {<<pid, w>>}
        /\ Stakes' = [Stakes EXCEPT ![<<pid, w>>] = stake]
        /\ UNCHANGED <<PoolWorkers, WorkerAssignments, MinerBindings, WorkerBindings>>
    BY DEF start_mining, M!start_mining, bindVars
  <1>2. BindTypes'
    BY <1>1, MinerPairs DEF BindInv, BindTypes
  <1>3. OwnWorker' /\ WorkersAgree'
    BY <1>1 DEF BindInv, OwnWorker, WorkersAgree
  <1>4. PreimagesMatchStakes'
    BY <1>1, MinerPairs, StakePoolAssumption DEF BindInv, BindTypes, PreimagesMatchStakes
  <1> QED
    BY <1>2, <1>3, <1>4 DEF BindInv

LEMMA BindInvReclaim ==
    ASSUME BindInv, NEW pid \in Pid, NEW w \in Worker, reclaim_pool_worker(pid, w)
    PROVE  BindInv'
  <1>1. CASE Panic
    BY <1>1, BindInvKept DEF Panic, bindingVars, bindVars, miscVars, minerVars
  <1>2. CASE /\ M!reclaim(<<pid, w>>)
             /\ SubAccountPreimages' = SubAccountPreimages \ {<<pid, w>>}
             /\ UNCHANGED bindVars
    <2>1. /\ Stakes' = [Stakes EXCEPT ![<<pid, w>>] = None]
          /\ UNCHANGED <<PoolWorkers, WorkerAssignments, MinerBindings, WorkerBindings>>
      BY <1>2 DEF M!reclaim, bindVars
    <2>2. BindTypes'
      BY <1>2, <2>1, MinerPairs DEF BindInv, BindTypes
    <2>3. OwnWorker' /\ WorkersAgree'
      BY <2>1 DEF BindInv, OwnWorker, WorkersAgree
    <2>4. PreimagesMatchStakes'
      BY <1>2, <2>1, MinerPairs DEF BindInv, BindTypes, PreimagesMatchStakes
    <2> QED
      BY <2>2, <2>3, <2>4 DEF BindInv
  <1>3. \/ Panic
        \/ /\ M!reclaim(<<pid, w>>)
           /\ SubAccountPreimages' = SubAccountPreimages \ {<<pid, w>>}
           /\ UNCHANGED bindVars
    BY DEF reclaim_pool_worker
  <1> QED
    BY <1>1, <1>2, <1>3

LEMMA BindInvStep == BindInv /\ [Next]_vars => BindInv'
  <1> SUFFICES ASSUME BindInv, [Next]_vars PROVE BindInv'
    OBVIOUS
  <1>1. CASE UserCall
    <2>1. PICK u \in User, pid \in Pid :
            \/ u \in PoolOwner /\ create(u, pid)
            \/ \E amount \in Contribution : contribute(u, pid, amount)
            \/ \E shares \in Demand \cup {PoolStakers[pid][u].shares} : withdraw(u, pid, shares)
            \/ reconcile_withdraw_queue(pid, u)
            \/ \E w \in Worker : unbind(u, pid, w)
      BY <1>1 DEF UserCall
    <2>2. CASE create(u, pid)
      BY <2>2, BindInvKept DEF create, bindingVars, bindVars, miscVars, minerVars
    <2>3. CASE \E amount \in Contribution : contribute(u, pid, amount)
      BY <2>3, BindInvKept DEF contribute, Panic, bindingVars, bindVars, miscVars, minerVars
    <2>4. CASE \E shares \in Demand \cup {PoolStakers[pid][u].shares} : withdraw(u, pid, shares)
      BY <2>4, BindInvKept DEF withdraw, Panic, bindingVars, bindVars, miscVars, minerVars
    <2>5. CASE reconcile_withdraw_queue(pid, u)
      BY <2>5, BindInvKept, Zenon DEF reconcile_withdraw_queue, bindingVars, bindVars, miscVars, minerVars
    <2>6. CASE \E w \in Worker : unbind(u, pid, w)
      BY <2>6, BindInvDetach DEF unbind
    <2> QED
      BY <2>1, <2>2, <2>3, <2>4, <2>5, <2>6
  <1>2. CASE PoolCall
    <2>1. PICK pid \in Pid :
            \/ \E cap \in Cap : set_cap(pid, cap)
            \/ \E w \in Worker :
                  \/ add_worker(pid, w)
                  \/ remove_worker(pid, w)
                  \/ \E stake \in StakeAmount : start_mining(pid, w, stake)
                  \/ stop_mining(pid, w)
                  \/ reclaim_pool_worker(pid, w)
      BY <1>2 DEF PoolCall
    <2>2. CASE \E cap \in Cap : set_cap(pid, cap)
      BY <2>2, BindInvKept DEF set_cap, bindingVars, bindVars, miscVars, minerVars
    <2>3. ASSUME NEW w \in Worker, remove_worker(pid, w) PROVE BindInv'
      BY <2>3, BindInvDetach DEF remove_worker
    <2>4. ASSUME NEW w \in Worker, stop_mining(pid, w) PROVE BindInv'
      BY <2>4, BindInvKept DEF stop_mining, M!stop_mining, bindingVars, bindVars, miscVars
    <2> QED
      BY <2>1, <2>2, <2>3, <2>4, BindInvAdd, BindInvStart, BindInvReclaim
  <1>3. CASE ChainEvent
    <2>1. CASE \E offline, recovered, settled \in SUBSET Worker : \E settle \in [settled -> V] :
                 on_gk_message_received(offline, recovered, settle)
      BY <2>1, BindInvKept
      DEF on_gk_message_received, M!on_gk_message_received, bindingVars, bindVars, miscVars
    <2>2. CASE \E period \in CoolDowns : set_cool_down_expiration(period)
      BY <2>2, BindInvKept
      DEF set_cool_down_expiration, M!set_cool_down_expiration, bindingVars, bindVars, miscVars
    <2>3. CASE \E enable \in Switch : set_mining_enable(enable)
      BY <2>3, BindInvKept DEF set_mining_enable, bindingVars, bindVars, minerVars
    <2>4. CASE EndBlock
      BY <2>4, BindInvKept DEF EndBlock, M!EndBlock, bindingVars, bindVars, miscVars
    <2> QED
      BY <1>3, <2>1, <2>2, <2>3, <2>4 DEF ChainEvent
  <1>4. CASE UNCHANGED vars
    BY <1>4, BindInvKept DEF vars, bindingVars, bindVars, miscVars, minerVars
  <1> QED
    BY <1>1, <1>2, <1>3, <1>4 DEF Next

\* WorkersAgree: PoolWorkers, WorkerAssignments, MinerBindings and WorkerBindings never
\* disagree on whose a worker is, so that the expects on the assignment in on_stopped and
\* remove_worker_from_pool hold, with any number of pools and workers.
THEOREM StakePoolWorkersAgree == Spec => []WorkersAgree
  <1>1. BindInv => WorkersAgree
    BY DEF BindInv
  <1> QED
    BY <1>1, BindInvInit, BindInvStep, PTL DEF Spec

\* PreimagesMatchStakes: start_mining and reclaim_pool_worker keep the preimage of exactly the
\* sub-accounts with a stake, also when the worker left the pool in between.
THEOREM StakePoolPreimages == Spec => []PreimagesMatchStakes
  <1>1. BindInv => PreimagesMatchStakes
    BY DEF BindInv
  <1> QED
    BY <1>1, BindInvInit, BindInvStep, PTL DEF Spec

-----------------------------------------------------------------------------
(* The invariant of amounts, queues and index *)

\* What a pool has in its workers' sessions.
Staked(pid) == SumFunctionOnSet(Stakes, InSession(pid))

\* What each user has locked in the other pools.
Elsewhere(pid) ==
    [u \in User |-> SumFunctionOnSet([q \in Pid |-> PoolStakers[q][u].locked], Pid \ {pid})]

\* The ages that the requests of the pool may have: out of grace, or indexed.
Listed(pid) == {a \in Age : a <= GracePeriod => pid \in WithdrawalQueuedPools[a]}

\* What every pool record satisfies, with so much stake in sessions and these ages listed.
GoodPool(p, staked, ages) ==
    /\ p \in PoolInfo
    /\ p.total_stake <= p.free_stake + staked
    /\ QueueFits(p.withdraw_queue)
    /\ Ages(p.withdraw_queue) \subseteq ages
    /\ p.cap # None => p.total_stake <= p.cap

\* The types of what is kept for users.
UserTypes ==
    /\ PoolStakers \in [Pid -> [User -> UserStakeInfo]]
    /\ StakeLedger \in [User -> Nat]
    /\ FreeBalance \in [User -> Nat]

\* The stakes in session are amounts.
StakesType == Stakes \in [Miner -> StakeAmount \cup {None}]

\* Every pool that exists satisfies GoodPool with its sessions' stake and the ages listed for it.
PoolsGood ==
    /\ StakePools \in [Pid -> PoolInfo \cup {None}]
    /\ \A pid \in Pid : Exists(pid) => GoodPool(StakePools[pid], Staked(pid), Listed(pid))

\* Every share of a pool is some user's, and nobody has shares of a pool that is not there.
SharesOK ==
    \A pid \in Pid :
        /\ Exists(pid) => SharesMatch(StakePools[pid], PoolStakers[pid])
        /\ ~Exists(pid) => \A u \in User : PoolStakers[pid][u].shares = 0

\* The index: its timestamps are the ages that list a pool, the oldest first.
QueueIndexed ==
    /\ WithdrawalTimestamps \in Seq(Age)
    /\ WithdrawalQueuedPools \in [Age -> SUBSET Pid]
    /\ \A i, j \in DOMAIN WithdrawalTimestamps :
          i < j => WithdrawalTimestamps[i] > WithdrawalTimestamps[j]
    /\ Range(WithdrawalTimestamps) = {a \in Age : WithdrawalQueuedPools[a] # {}}

\* What the stake pools' records, stakers, ledger, queues and index satisfy together.
StakeInv == UserTypes /\ StakesType /\ PoolsGood /\ SharesOK /\ LedgerCovers /\ QueueIndexed

\* No pool is told to expect other stake back.
SameReleasing ==
    \A q \in Pid : Exists(q) => StakePools'[q].releasing_stake = StakePools[q].releasing_stake

\* A bound of a pool's stake: its cap, when it has one.
Limit(p) == IF p.cap = None THEN p.total_stake ELSE p.cap

\* A pool with a cap has no limit above it.
LEMMA LimitIsCap ==
    ASSUME NEW p \in PoolInfo
    PROVE  p.cap # None => Limit(p) <= p.cap
<1>1. p.cap \in Cap \cup {None}
  BY DEF PoolInfo
<1>2. CASE p.cap # None
  <2>1. p.cap \in Nat
    BY <1>1, <1>2, StakePoolAssumption
  <2> QED BY <1>2, <2>1 DEF Limit
<1> QED BY <1>2

\* The sum over a function is the sum over its domain.
LEMMA SumsAreSums ==
    ASSUME NEW f
    PROVE  SumFunction(f) = SumFunctionOnSet(f, DOMAIN f)
  BY DEF SumFunction, SumFunctionOnSet, FoldFunction, FoldFunctionOnSet

\* There are finitely many sub-accounts.
LEMMA MinerFinite == IsFiniteSet(Miner)
  BY FS_Product, StakePoolAssumption DEF Miner

\* The sub-accounts of a pool that hold stake in a session.
Holding(stakes, pid) == {m \in Miner : m[1] = pid /\ stakes[m] # None}

\* They are finitely many and hold amounts.
LEMMA HoldingNat ==
    ASSUME NEW stakes \in [Miner -> StakeAmount \cup {None}], NEW pid
    PROVE  /\ IsFiniteSet(Holding(stakes, pid))
           /\ \A m \in Holding(stakes, pid) : m \in Miner /\ stakes[m] \in Nat
           /\ SumFunctionOnSet(stakes, Holding(stakes, pid)) \in Nat
<1> DEFINE S == Holding(stakes, pid)
<1>1. S \subseteq Miner /\ \A m \in S : stakes[m] \in Nat
  BY MinersAssumption DEF Holding
<1> HIDE DEF S
<1>2. IsFiniteSet(S)
  BY <1>1, MinerFinite, FS_Subset
<1>3. SumFunctionOnSet(stakes, S) \in Nat
  BY <1>1, <1>2, SumNat
<1> QED BY <1>1, <1>2, <1>3 DEF S

\* What a pool has in sessions is an amount, before and after a step.
LEMMA StakedNat ==
    /\ StakesType => \A pid \in Pid : Staked(pid) \in Nat
    /\ StakesType' => \A pid \in Pid : Staked(pid)' \in Nat
<1>1. ASSUME StakesType, NEW pid \in Pid PROVE Staked(pid) \in Nat
  <2>1. InSession(pid) = Holding(Stakes, pid)
    BY DEF InSession, Holding
  <2> QED BY <1>1, <2>1, HoldingNat DEF Staked, StakesType
<1>2. ASSUME StakesType', NEW pid \in Pid PROVE Staked(pid)' \in Nat
  <2>1. InSession(pid)' = Holding(Stakes', pid)
    BY DEF InSession, Holding
  <2> QED BY <1>2, <2>1, HoldingNat DEF Staked, StakesType
<1> QED BY <1>1, <1>2

\* What a user has locked is what is locked in a pool and elsewhere.
LEMMA ElsewhereNat ==
    ASSUME UserTypes, NEW pid \in Pid
    PROVE  /\ Elsewhere(pid) \in [User -> Nat]
           /\ \A u \in User :
                 SumFunction([q \in Pid |-> PoolStakers[q][u].locked]) =
                     PoolStakers[pid][u].locked + Elsewhere(pid)[u]
<1> SUFFICES ASSUME NEW u \in User
             PROVE  /\ Elsewhere(pid)[u] \in Nat
                    /\ SumFunction([q \in Pid |-> PoolStakers[q][u].locked]) =
                         PoolStakers[pid][u].locked + Elsewhere(pid)[u]
  BY DEF Elsewhere
<1> DEFINE f == [q \in Pid |-> PoolStakers[q][u].locked]
<1>1. \A q \in Pid : f[q] \in Nat
  BY DEF UserTypes, UserStakeInfo
<1>2. IsFiniteSet(Pid) /\ IsFiniteSet(Pid \ {pid})
  BY StakePoolAssumption, FS_Subset
<1>3. f[pid] = PoolStakers[pid][u].locked /\ SumFunction(f) = SumFunctionOnSet(f, Pid)
      /\ Elsewhere(pid)[u] = SumFunctionOnSet(f, Pid \ {pid})
  <2>1. DOMAIN f = Pid
    OBVIOUS
  <2>2. SumFunction(f) = SumFunctionOnSet(f, DOMAIN f)
    BY SumsAreSums
  <2> QED BY <2>1, <2>2 DEF Elsewhere
<1> HIDE DEF f
<1>4. SumFunctionOnSet(f, Pid \ {pid}) \in Nat
  BY <1>1, <1>2, SumNat
<1>5. SumFunctionOnSet(f, Pid) = f[pid] + SumFunctionOnSet(f, Pid \ {pid})
  BY <1>1, <1>2, SumElement
<1> QED BY <1>3, <1>4, <1>5 DEF f

\* What a call reads of a pool is sound.
LEMMA ContextSound ==
    ASSUME StakeInv, NEW pid \in Pid, Exists(pid)
    PROVE  /\ Sound(Context(pid), Elsewhere(pid), Staked(pid), Listed(pid),
                    Limit(StakePools[pid]), StakePools[pid].cap, StakePools[pid].releasing_stake)
           /\ Limit(StakePools[pid]) \in Nat
           /\ StakePools[pid].releasing_stake \in Nat
           /\ StakePools[pid] \in PoolInfo
<1> DEFINE c == Context(pid)
           p == StakePools[pid]
<1>1. GoodPool(p, Staked(pid), Listed(pid)) /\ SharesMatch(p, PoolStakers[pid])
  BY DEF StakeInv, PoolsGood, SharesOK
<1>2. p \in PoolInfo /\ p.total_stake \in Nat /\ p.cap \in Cap \cup {None} /\ p.releasing_stake \in Nat
  BY <1>1 DEF GoodPool, PoolInfo
<1>3. Limit(p) \in Nat /\ p.total_stake <= Limit(p)
  <2>1. CASE p.cap = None
    BY <1>2, <2>1 DEF Limit
  <2>2. CASE p.cap # None
    <3>1. p.cap \in Nat /\ p.total_stake <= p.cap
      BY <1>1, <1>2, <2>2, StakePoolAssumption DEF GoodPool
    <3> QED BY <2>2, <3>1 DEF Limit
  <2> QED BY <2>1, <2>2
<1>4. c \in Ctx /\ c.p = p /\ c.s = PoolStakers[pid] /\ c.ledger = StakeLedger /\ c.bal = FreeBalance
  BY <1>2 DEF Context, Ctx, StakeInv, UserTypes
<1> HIDE DEF c, p
<1>5. LocksCovered(c, Elsewhere(pid))
  <2> SUFFICES ASSUME NEW u \in User
               PROVE  /\ Elsewhere(pid)[u] + PoolStakers[pid][u].locked <= StakeLedger[u]
                      /\ StakeLedger[u] <= FreeBalance[u]
    BY <1>4 DEF LocksCovered
  <2>1. SumFunction([q \in Pid |-> PoolStakers[q][u].locked]) =
                     PoolStakers[pid][u].locked + Elsewhere(pid)[u]
        /\ Elsewhere(pid)[u] \in Nat
    BY ElsewhereNat DEF StakeInv
  <2>2. SumFunction([q \in Pid |-> PoolStakers[q][u].locked]) <= StakeLedger[u]
        /\ StakeLedger[u] <= FreeBalance[u]
    BY DEF StakeInv, LedgerCovers
  <2>3. PoolStakers[pid][u].locked \in Nat
    BY DEF StakeInv, UserTypes, UserStakeInfo
  <2> QED BY <2>1, <2>2, <2>3
<1>6. Sound(c, Elsewhere(pid), Staked(pid), Listed(pid), Limit(p), p.cap, p.releasing_stake)
  BY <1>1, <1>3, <1>4, <1>5 DEF Sound, GoodPool
<1> QED BY <1>2, <1>3, <1>6 DEF c, p

\* What one call writes back to one pool: its record and stakers are sound, and the other
\* pools keep what they have.
LEMMA CommitPreserves ==
    ASSUME StakeInv, NEW pid \in Pid, Exists(pid), NEW d, NEW ages, NEW limit \in Nat,
           NEW releasing,
           Sound(d, Elsewhere(pid), Staked(pid)', ages, limit, StakePools[pid].cap, releasing),
           StakePools[pid].cap # None => limit <= StakePools[pid].cap,
           Commit(pid, d), StakesType', QueueIndexed', ages \subseteq Listed(pid)',
           \A q \in Pid \ {pid} : Staked(q)' = Staked(q) /\ Listed(q) \subseteq Listed(q)'
    PROVE  /\ StakeInv' /\ \A q \in Pid : Exists(q) => Exists(q)'
           /\ StakePools'[pid].releasing_stake = releasing
           /\ \A q \in Pid \ {pid} : StakePools'[q] = StakePools[q]
<1>1. /\ StakePools' = [StakePools EXCEPT ![pid] = d.p]
      /\ PoolStakers' = [PoolStakers EXCEPT ![pid] = d.s]
      /\ StakeLedger' = d.ledger /\ FreeBalance' = d.bal
  BY DEF Commit
<1>2. /\ d \in Ctx /\ SharesMatch(d.p, d.s) /\ LocksCovered(d, Elsewhere(pid))
      /\ d.p.total_stake <= d.p.free_stake + Staked(pid)'
      /\ QueueFits(d.p.withdraw_queue) /\ Ages(d.p.withdraw_queue) \subseteq ages
      /\ d.p.total_stake <= limit /\ d.p.cap = StakePools[pid].cap
      /\ d.p.releasing_stake = releasing
  BY DEF Sound
<1>3. d.p \in PoolInfo /\ d.s \in [User -> UserStakeInfo] /\ d.ledger \in [User -> Nat]
      /\ d.bal \in [User -> Nat] /\ d.p.total_stake \in Nat
  BY <1>2 DEF Ctx, PoolInfo
<1>4. StakePools \in [Pid -> PoolInfo \cup {None}] /\ UserTypes
  BY DEF StakeInv, PoolsGood
<1>5. UserTypes'
  BY <1>1, <1>3, <1>4 DEF UserTypes
<1>6. StakePools' \in [Pid -> PoolInfo \cup {None}] /\ StakePools'[pid] = d.p
      /\ PoolStakers'[pid] = d.s
      /\ \A q \in Pid \ {pid} : StakePools'[q] = StakePools[q] /\ PoolStakers'[q] = PoolStakers[q]
  BY <1>1, <1>3, <1>4 DEF UserTypes
<1>7. \A q \in Pid : IF q = pid THEN Exists(q)' ELSE Exists(q)' <=> Exists(q)
  BY <1>3, <1>6, NoneIsNoPool DEF Exists
<1>8. ASSUME NEW q \in Pid, Exists(q)' PROVE GoodPool(StakePools'[q], Staked(q)', Listed(q)')
  <2>1. CASE q = pid
    <3>1. d.p.cap # None => d.p.total_stake <= d.p.cap
      <4>1. SUFFICES ASSUME d.p.cap # None PROVE d.p.total_stake <= d.p.cap
        OBVIOUS
      <4>2. d.p.cap \in Nat
        BY <1>3, <4>1, StakePoolAssumption DEF PoolInfo
      <4>3. limit <= d.p.cap
        BY <1>2, <4>1
      <4> QED BY <1>2, <1>3, <4>2, <4>3
    <3>2. Ages(d.p.withdraw_queue) \subseteq Listed(pid)'
      BY <1>2
    <3> QED BY <1>2, <1>3, <1>6, <2>1, <3>1, <3>2 DEF GoodPool
  <2>2. CASE q # pid
    <3>1. GoodPool(StakePools[q], Staked(q), Listed(q)) /\ StakePools'[q] = StakePools[q]
      BY <1>6, <1>8, <2>2 DEF StakeInv, PoolsGood, Exists
    <3>2. Staked(q)' = Staked(q) /\ Listed(q) \subseteq Listed(q)'
      BY <2>2
    <3> QED BY <3>1, <3>2 DEF GoodPool
  <2> QED BY <2>1, <2>2
<1>9. PoolsGood'
  BY <1>6, <1>8 DEF PoolsGood
<1>10. SharesOK'
  <2> SUFFICES ASSUME NEW q \in Pid
               PROVE  /\ Exists(q)' => SharesMatch(StakePools'[q], PoolStakers'[q])
                      /\ ~Exists(q)' => \A u \in User : PoolStakers'[q][u].shares = 0
    BY DEF SharesOK
  <2>1. CASE q = pid
    BY <1>2, <1>6, <1>7, <2>1
  <2>2. CASE q # pid
    BY <1>6, <1>7, <2>2 DEF StakeInv, SharesOK
  <2> QED BY <2>1, <2>2
<1>11. LedgerCovers'
  <2> SUFFICES ASSUME NEW u \in User
               PROVE  /\ SumFunction([q \in Pid |-> PoolStakers'[q][u].locked]) <= StakeLedger'[u]
                      /\ StakeLedger'[u] <= FreeBalance'[u]
    BY DEF LedgerCovers
  <2> DEFINE f == [q \in Pid |-> PoolStakers[q][u].locked]
             g == [q \in Pid |-> PoolStakers'[q][u].locked]
             rest == Pid \ {pid}
  <2>1. Elsewhere(pid)[u] + d.s[u].locked <= d.ledger[u] /\ d.ledger[u] <= d.bal[u]
    BY <1>2 DEF LocksCovered
  <2>2. \A q \in Pid : f[q] \in Nat /\ g[q] \in Nat
    BY <1>4, <1>5 DEF UserTypes, UserStakeInfo
  <2>3. \A q \in rest : g[q] = f[q]
    BY <1>6
  <2>4. g[pid] = d.s[u].locked /\ Elsewhere(pid)[u] = SumFunctionOnSet(f, rest)
    BY <1>6 DEF Elsewhere
  <2>5. SumFunction(g) = SumFunctionOnSet(g, Pid)
    <3>1. DOMAIN g = Pid
      OBVIOUS
    <3> QED BY <3>1, SumsAreSums
  <2> HIDE DEF f, g
  <2>6. IsFiniteSet(Pid) /\ IsFiniteSet(rest)
    BY StakePoolAssumption, FS_Subset
  <2>7. SumFunctionOnSet(g, Pid) = g[pid] + SumFunctionOnSet(g, rest)
    BY <2>2, <2>6, SumElement
  <2>8. SumFunctionOnSet(g, rest) = SumFunctionOnSet(f, rest)
    BY <2>2, <2>3, <2>6, SumSame
  <2>9. SumFunctionOnSet(f, rest) \in Nat /\ g[pid] \in Nat
    BY <2>2, <2>6, SumNat
  <2>10. SumFunction(g) <= d.ledger[u]
    BY <2>1, <2>4, <2>5, <2>7, <2>8, <2>9
  <2> QED BY <1>1, <2>1, <2>10 DEF g
<1> QED BY <1>2, <1>5, <1>6, <1>7, <1>9, <1>10, <1>11 DEF StakeInv

\* What a call does that only changes pool records: users, locks and shares are as before.
LEMMA RecordsPreserve ==
    ASSUME StakeInv, UNCHANGED <<PoolStakers, StakeLedger, FreeBalance>>, StakesType',
           QueueIndexed',
           \A q \in Pid : Exists(q) => /\ GoodPool(StakePools'[q], Staked(q)', Listed(q)')
                                      /\ StakePools'[q].total_shares = StakePools[q].total_shares,
           \A q \in Pid : ~Exists(q) =>
                \/ StakePools'[q] = None
                \/ \E o \in PoolOwner : StakePools'[q] = EmptyPool(o),
           DOMAIN StakePools' = Pid /\ StakePools' = [q \in Pid |-> StakePools'[q]]
    PROVE  StakeInv' /\ \A q \in Pid : Exists(q) => Exists(q)'
<1>1. \A q \in Pid : Exists(q) => StakePools'[q] \in PoolInfo
  BY DEF GoodPool
<1>2. \A o \in PoolOwner : EmptyPool(o) \in PoolInfo
  <2> SUFFICES ASSUME NEW o \in PoolOwner PROVE EmptyPool(o) \in PoolInfo
    OBVIOUS
  <2>1. <<>> \in Seq(WithdrawInfo)
    OBVIOUS
  <2> QED BY <2>1 DEF EmptyPool, PoolInfo
<1>3. StakePools' \in [Pid -> PoolInfo \cup {None}]
  BY <1>1, <1>2
<1>4. \A q \in Pid : Exists(q) => Exists(q)'
  BY <1>1, NoneIsNoPool DEF Exists
<1>5. \A o \in PoolOwner, staked \in Nat : \A ages : GoodPool(EmptyPool(o), staked, ages)
  <2> SUFFICES ASSUME NEW o \in PoolOwner, NEW staked \in Nat, NEW ages
               PROVE  GoodPool(EmptyPool(o), staked, ages)
    OBVIOUS
  <2>1. EmptyPool(o).withdraw_queue = <<>> /\ EmptyPool(o).cap = None
        /\ EmptyPool(o).total_stake = 0 /\ EmptyPool(o).free_stake = 0
    BY DEF EmptyPool
  <2>2. QueueFits(<<>>) /\ Ages(<<>>) = {}
    BY DEF QueueFits, Ages
  <2> QED BY <1>2, <2>1, <2>2 DEF GoodPool
<1>6. PoolsGood'
  <2>1. ASSUME NEW q \in Pid, Exists(q)' PROVE GoodPool(StakePools'[q], Staked(q)', Listed(q)')
    <3>1. CASE Exists(q)
      BY <3>1
    <3>2. CASE ~Exists(q)
      <4>1. PICK o \in PoolOwner : StakePools'[q] = EmptyPool(o)
        BY <2>1, <3>2 DEF Exists
      <4>2. Staked(q)' \in Nat
        BY StakedNat
      <4> QED BY <1>5, <4>1, <4>2
    <3> QED BY <3>1, <3>2
  <2> QED BY <1>3, <2>1 DEF PoolsGood
<1>7. SharesOK'
  <2> SUFFICES ASSUME NEW q \in Pid
               PROVE  /\ Exists(q)' => SharesMatch(StakePools'[q], PoolStakers[q])
                      /\ ~Exists(q)' => \A u \in User : PoolStakers[q][u].shares = 0
    BY DEF SharesOK
  <2>1. CASE Exists(q)
    <3>1. SharesMatch(StakePools[q], PoolStakers[q])
      BY <2>1 DEF StakeInv, SharesOK
    <3> QED BY <1>4, <2>1, <3>1 DEF SharesMatch
  <2>2. CASE ~Exists(q)
    <3>1. \A u \in User : PoolStakers[q][u].shares = 0
      BY <2>2 DEF StakeInv, SharesOK
    <3>2. Exists(q)' => StakePools'[q].total_shares = 0
      BY <2>2 DEF Exists, EmptyPool
    <3>3. SumFunctionOnSet(Shares(PoolStakers[q]), User) = 0
      <4> DEFINE f == Shares(PoolStakers[q])
      <4>1. \A u \in User : f[u] = 0
        BY <3>1 DEF Shares
      <4> HIDE DEF f
      <4>2. SumFunctionOnSet(f, User) = 0
        BY <4>1, SumZero, StakePoolAssumption
      <4> QED BY <4>2 DEF f
    <3> QED BY <3>1, <3>2, <3>3 DEF SharesMatch
  <2> QED BY <2>1, <2>2
<1>8. UserTypes' /\ LedgerCovers'
  BY DEF StakeInv, UserTypes, LedgerCovers
<1> QED BY <1>4, <1>6, <1>7, <1>8 DEF StakeInv

-----------------------------------------------------------------------------
(* What leaves the sessions or the index alone *)

\* What does not touch the stakes in session, or the index of the queued requests.
LEMMA StakesFrame ==
    Stakes' = Stakes => /\ StakesType => StakesType'
                        /\ \A q \in Pid : Staked(q)' = Staked(q)
  BY DEF StakesType, Staked, InSession

\* What does not touch the index leaves the listed ages.
LEMMA QueueFrame ==
    UNCHANGED queueVars => /\ QueueIndexed => QueueIndexed'
                           /\ \A q \in Pid : Listed(q)' = Listed(q)
  BY DEF queueVars, QueueIndexed, Listed

\* A call that panics is rolled back.
LEMMA PanicPreserves ==
    StakeInv /\ Panic => StakeInv' /\ (\A q \in Pid : Exists(q) => Exists(q)') /\ SameReleasing
<1> SUFFICES ASSUME StakeInv, Panic
             PROVE  StakeInv' /\ (\A q \in Pid : Exists(q) => Exists(q)') /\ SameReleasing
  OBVIOUS
<1>1. UNCHANGED <<poolVars, queueVars, Stakes>>
  BY DEF Panic, minerVars
<1>2. \A q \in Pid : Staked(q)' = Staked(q) /\ Listed(q)' = Listed(q)
  BY <1>1, StakesFrame, QueueFrame
<1>3. UserTypes' /\ PoolsGood' /\ SharesOK' /\ LedgerCovers' /\ \A q \in Pid : Exists(q) => Exists(q)'
  BY <1>1, <1>2 DEF StakeInv, poolVars, UserTypes, PoolsGood, SharesOK, LedgerCovers, Exists
<1> QED BY <1>1, <1>3, StakesFrame, QueueFrame DEF StakeInv, SameReleasing, poolVars

\* The context in which a contribution was added to a pool, before the queue is served.
LEMMA ContributedSound ==
    ASSUME StakeInv, NEW pid \in Pid, NEW u \in User, NEW amount \in Contribution,
           contribute(u, pid, amount)
    PROVE  LET p == StakePools[pid]
               added == add_stake(maybe_settle_slash(Context(pid), u), u, amount)
           IN  /\ \E limit \in Nat :
                     /\ Sound(added, Elsewhere(pid), Staked(pid), Listed(pid), limit, p.cap,
                              p.releasing_stake)
                     /\ p.cap # None => limit <= p.cap
               /\ Elsewhere(pid) \in [User -> Nat] /\ Staked(pid) \in Nat /\ Exists(pid)
<1> DEFINE c == Context(pid)
           p == StakePools[pid]
           settled == maybe_settle_slash(c, u)
           added == add_stake(settled, u, amount)
<1>0. amount \in Nat /\ amount # 0
  <2>1. amount \in Nat /\ Dust \in Nat /\ MinContribution > Dust /\ amount >= MinContribution
        /\ MinContribution \in Int
    BY StakePoolAssumption, BalanceMathAssumption DEF contribute
  <2> QED BY <2>1
<1>1. Exists(pid) /\ FreeBalance[u] - StakeLedger[u] >= amount
      /\ (p.cap # None => SaturatingSub(p.cap, p.total_stake) >= amount)
  BY DEF contribute, Context
<1>2. /\ Sound(c, Elsewhere(pid), Staked(pid), Listed(pid), Limit(p), p.cap, p.releasing_stake)
      /\ Limit(p) \in Nat /\ p.releasing_stake \in Nat /\ p \in PoolInfo
  BY <1>1, ContextSound
<1>3. Elsewhere(pid) \in [User -> Nat] /\ Staked(pid) \in Nat
  BY ElsewhereNat, StakedNat DEF StakeInv
<1>4. c.p = p /\ c.ledger = StakeLedger /\ c.bal = FreeBalance
  BY DEF Context
<1> HIDE DEF c
<1>5. /\ Sound(settled, Elsewhere(pid), Staked(pid), Listed(pid), Limit(p), p.cap, p.releasing_stake)
      /\ settled.p = c.p
      /\ settled.bal[u] - settled.ledger[u] = c.bal[u] - c.ledger[u]
  BY <1>2, <1>3, SettleSound
<1> HIDE DEF settled
<1>6. settled.bal[u] \in Nat /\ settled.ledger[u] \in Nat /\ p.total_stake \in Nat
      /\ p.cap \in Cap \cup {None}
  BY <1>2, <1>5 DEF Sound, Ctx, PoolInfo
<1> DEFINE higher == IF p.cap = None THEN p.total_stake + amount ELSE p.cap
<1>7. higher \in Nat /\ p.total_stake + amount <= higher
  <2>1. CASE p.cap = None
    <3>1. p.total_stake + amount \in Nat
      BY <1>0, <1>6
    <3> QED BY <2>1, <3>1
  <2>2. CASE p.cap # None
    <3>1. p.cap \in Nat
      BY <1>6, <2>2, StakePoolAssumption
    <3>2. p.total_stake + amount <= p.cap
      BY <1>0, <1>1, <1>6, <2>2, <3>1 DEF SaturatingSub
    <3> QED BY <2>2, <3>1, <3>2
  <2> QED BY <2>1, <2>2
<1>8. p.cap # None => higher <= p.cap
  <2>1. CASE p.cap # None
    <3>1. p.cap \in Nat
      BY <1>6, <2>1, StakePoolAssumption
    <3> QED BY <2>1, <3>1
  <2> QED BY <2>1
<1> HIDE DEF higher
<1>9. Affordable(settled, u, amount, higher)
  <2>1. settled.ledger[u] + amount <= settled.bal[u]
    <3>1. settled.bal[u] - settled.ledger[u] >= amount
      BY <1>1, <1>4, <1>5
    <3> QED BY <1>0, <1>6, <3>1
  <2> QED BY <1>4, <1>5, <1>7, <2>1 DEF Affordable
<1>10. Sound(added, Elsewhere(pid), Staked(pid), Listed(pid), higher, p.cap, p.releasing_stake)
  BY <1>0, <1>2, <1>3, <1>5, <1>7, <1>9, AddSound
<1> HIDE DEF added
<1> QED BY <1>1, <1>3, <1>7, <1>8, <1>10 DEF added, settled, c

\* contribute keeps the pools' invariant and what the pools expect back.
LEMMA ContributePreserves ==
    ASSUME StakeInv, NEW pid \in Pid, NEW u \in User, NEW amount \in Contribution,
           contribute(u, pid, amount)
    PROVE  StakeInv' /\ (\A q \in Pid : Exists(q) => Exists(q)') /\ SameReleasing
<1> DEFINE c == Context(pid)
           p == StakePools[pid]
           settled == maybe_settle_slash(c, u)
           added == add_stake(settled, u, amount)
           done == try_process_withdraw_queue(added)
<1>1. CASE Panic
  BY <1>1, PanicPreserves
<1>2. CASE Commit(pid, done) /\ UNCHANGED <<queueVars, minerVars>>
  <2>1. PICK limit \in Nat :
          /\ Sound(added, Elsewhere(pid), Staked(pid), Listed(pid), limit, p.cap, p.releasing_stake)
          /\ p.cap # None => limit <= p.cap
    BY ContributedSound
  <2>2. Elsewhere(pid) \in [User -> Nat] /\ Staked(pid) \in Nat /\ Exists(pid)
    BY ContributedSound
  <2> HIDE DEF added
  <2>3. Sound(done, Elsewhere(pid), Staked(pid), Listed(pid), limit, p.cap, p.releasing_stake)
    BY <2>1, <2>2, QueueSound
  <2> HIDE DEF done
  <2>4. StakesType' /\ QueueIndexed'
        /\ \A q \in Pid : Staked(q)' = Staked(q) /\ Listed(q)' = Listed(q)
    BY <1>2, StakesFrame, QueueFrame DEF StakeInv, minerVars
  <2>5. Sound(done, Elsewhere(pid), Staked(pid)', Listed(pid), limit, p.cap, p.releasing_stake)
    BY <2>3, <2>4
  <2>6. /\ StakesType' /\ QueueIndexed' /\ Listed(pid) \subseteq Listed(pid)'
        /\ \A q \in Pid \ {pid} : Staked(q)' = Staked(q) /\ Listed(q) \subseteq Listed(q)'
    BY <2>4
  <2>7. Commit(pid, done)
    BY <1>2
  <2>8. /\ StakeInv' /\ \A q \in Pid : Exists(q) => Exists(q)'
        /\ StakePools'[pid].releasing_stake = p.releasing_stake
        /\ \A q \in Pid \ {pid} : StakePools'[q] = StakePools[q]
    BY <2>1, <2>2, <2>5, <2>6, <2>7, CommitPreserves
  <2> QED BY <2>8 DEF SameReleasing
<1>3. Panic \/ (Commit(pid, done) /\ UNCHANGED <<queueVars, minerVars>>)
  BY DEF contribute
<1> QED BY <1>1, <1>2, <1>3

\* The index of the queued requests, once the block has an entry for the pool.
LEMMA IndexPreserves ==
    ASSUME QueueIndexed, NEW pid \in Pid, IndexRequest(pid)
    PROVE  /\ QueueIndexed'
           /\ \A q \in Pid : Listed(q) \subseteq Listed(q)'
           /\ 0 \in Listed(pid)'
<1> DEFINE ts == WithdrawalTimestamps
           tt == IF ts # <<>> /\ Last(ts) = 0 THEN ts ELSE Append(ts, 0)
<1>1. /\ WithdrawalTimestamps' = tt
      /\ WithdrawalQueuedPools' = [WithdrawalQueuedPools EXCEPT ![0] = @ \cup {pid}]
  BY DEF IndexRequest
<1>2. 0 \in Age /\ GracePeriod \in Nat
  BY StakePoolAssumption DEF Age
<1>3. /\ ts \in Seq(Age) /\ WithdrawalQueuedPools \in [Age -> SUBSET Pid]
      /\ \A i, j \in DOMAIN ts : i < j => ts[i] > ts[j]
      /\ Range(ts) = {a \in Age : WithdrawalQueuedPools[a] # {}}
  BY DEF QueueIndexed
<1>4. WithdrawalQueuedPools' \in [Age -> SUBSET Pid]
      /\ WithdrawalQueuedPools'[0] = WithdrawalQueuedPools[0] \cup {pid}
      /\ \A a \in Age \ {0} : WithdrawalQueuedPools'[a] = WithdrawalQueuedPools[a]
  BY <1>1, <1>2, <1>3
<1> HIDE DEF ts
<1>5. /\ tt \in Seq(Age) /\ \A i, j \in DOMAIN tt : i < j => tt[i] > tt[j]
      /\ Range(tt) = Range(ts) \cup {0}
  <2>1. CASE ts # <<>> /\ Last(ts) = 0
    <3>1. tt = ts /\ Last(ts) \in Range(ts)
      BY <1>3, <2>1 DEF Last, Range
    <3> QED BY <1>3, <2>1, <3>1
  <2>2. CASE ~(ts # <<>> /\ Last(ts) = 0)
    <3>1. tt = Append(ts, 0)
      BY <2>2
    <3> HIDE DEF tt
    <3>2. tt \in Seq(Age) /\ Len(ts) \in Nat /\ Len(tt) = Len(ts) + 1
          /\ tt[Len(ts) + 1] = 0 /\ \A i \in 1..Len(ts) : tt[i] = ts[i]
      BY <1>2, <1>3, <3>1, Appended
    <3>3. DOMAIN ts = 1..Len(ts) /\ DOMAIN tt = 1..(Len(ts) + 1)
      BY <1>3, <3>2
    <3>4. \A i \in DOMAIN tt : (i \in DOMAIN ts /\ tt[i] = ts[i]) \/ i = Len(ts) + 1
      BY <3>2, <3>3
    <3>5. \A i \in DOMAIN ts : ts[i] > 0
      <4> SUFFICES ASSUME NEW i \in DOMAIN ts PROVE ts[i] > 0
        OBVIOUS
      <4>1. Len(ts) \in DOMAIN ts /\ ts # <<>>
        BY <1>3, <3>2, <3>3
      <4>2. ts[Len(ts)] # 0 /\ ts[Len(ts)] \in Nat /\ ts[i] \in Nat
        BY <1>2, <1>3, <2>2, <4>1 DEF Last, Age
      <4>3. i = Len(ts) \/ ts[i] > ts[Len(ts)]
        BY <1>3, <3>2, <3>3, <4>1
      <4> QED BY <4>2, <4>3
    <3>6. \A i, j \in DOMAIN tt : i < j => tt[i] > tt[j]
      <4> SUFFICES ASSUME NEW i \in DOMAIN tt, NEW j \in DOMAIN tt, i < j PROVE tt[i] > tt[j]
        OBVIOUS
      <4>1. i \in DOMAIN ts /\ tt[i] = ts[i]
        BY <3>2, <3>3, <3>4
      <4>2. CASE j \in DOMAIN ts /\ tt[j] = ts[j]
        BY <1>3, <4>1, <4>2
      <4>3. CASE j = Len(ts) + 1
        BY <3>2, <3>5, <4>1, <4>3
      <4> QED BY <3>4, <4>2, <4>3
    <3>7. Range(tt) = Range(ts) \cup {0}
      BY <3>2, <3>3, <3>4 DEF Range
    <3> QED BY <3>2, <3>6, <3>7
  <2> QED BY <2>1, <2>2
<1> HIDE DEF tt
<1>6. Range(tt) = {a \in Age : WithdrawalQueuedPools'[a] # {}}
  BY <1>2, <1>3, <1>4, <1>5
<1>7. QueueIndexed'
  BY <1>1, <1>4, <1>5, <1>6 DEF QueueIndexed
<1>8. \A q \in Pid : Listed(q) \subseteq Listed(q)'
  BY <1>3, <1>4 DEF Listed
<1>9. 0 \in Listed(pid)'
  BY <1>2, <1>4 DEF Listed
<1> QED BY <1>7, <1>8, <1>9

\* withdraw keeps the pools' invariant and what the pools expect back.
LEMMA WithdrawPreserves ==
    ASSUME StakeInv, NEW pid \in Pid, NEW u \in User,
           NEW shares \in Demand \cup {PoolStakers[pid][u].shares}, withdraw(u, pid, shares)
    PROVE  StakeInv' /\ (\A q \in Pid : Exists(q) => Exists(q)') /\ SameReleasing
<1> DEFINE c == Context(pid)
           p == StakePools[pid]
           done == try_withdraw(c, u, shares)
           queued == QueuedShares(p, shares)
<1>1. CASE Panic
  BY <1>1, PanicPreserves
<1>2. CASE /\ Commit(pid, done)
           /\ IF queued > 0 THEN IndexRequest(pid) ELSE UNCHANGED queueVars
           /\ UNCHANGED minerVars
  <2>1. Exists(pid)
    BY DEF withdraw
  <2>2. shares \in Nat
    <3>1. PoolStakers[pid][u] \in UserStakeInfo
      BY DEF StakeInv, UserTypes
    <3>2. PoolStakers[pid][u].shares \in Nat
      BY <3>1 DEF UserStakeInfo
    <3> QED BY <3>2, StakePoolAssumption
  <2>3. /\ Sound(c, Elsewhere(pid), Staked(pid), Listed(pid), Limit(p), p.cap, p.releasing_stake)
        /\ Limit(p) \in Nat
    BY <2>1, ContextSound
  <2>4. Elsewhere(pid) \in [User -> Nat] /\ Staked(pid) \in Nat
    BY ElsewhereNat, StakedNat DEF StakeInv
  <2>5. c.p = p
    BY DEF Context
  <2>6. /\ StakesType' /\ QueueIndexed'
        /\ \A q \in Pid : Staked(q)' = Staked(q) /\ Listed(q) \subseteq Listed(q)'
        /\ queued > 0 => 0 \in Listed(pid)'
    <3>1. StakesType' /\ \A q \in Pid : Staked(q)' = Staked(q)
      BY <1>2, StakesFrame DEF StakeInv, minerVars
    <3>2. CASE queued > 0
      BY <1>2, <3>1, <3>2, IndexPreserves DEF StakeInv
    <3>3. CASE ~(queued > 0)
      BY <1>2, <3>1, <3>3, QueueFrame DEF StakeInv
    <3> QED BY <3>2, <3>3
  <2>7. QueuedShares(c.p, shares) > 0 => 0 \in Listed(pid)'
    BY <2>5, <2>6
  <2>8. p.cap # None => Limit(p) <= p.cap
    <3>1. p \in PoolInfo
      BY <2>3, <2>5 DEF Sound, Ctx
    <3> QED BY <3>1, LimitIsCap
  <2> HIDE DEF c, queued
  <2>9. PICK n \in Nat : n = shares
    BY <2>2
  <2>10. Sound(try_withdraw(c, u, n), Elsewhere(pid), Staked(pid), Listed(pid)', Limit(p), p.cap,
               p.releasing_stake)
    <3>1. Listed(pid) \subseteq Listed(pid)'
      BY <2>6
    <3>2. QueuedShares(c.p, n) > 0 => 0 \in Listed(pid)'
      BY <2>7, <2>9
    <3> QED BY <2>3, <2>4, <3>1, <3>2, WithdrawSound
  <2>11. Sound(done, Elsewhere(pid), Staked(pid)', Listed(pid)', Limit(p), p.cap,
               p.releasing_stake)
    BY <2>6, <2>9, <2>10
  <2> HIDE DEF done
  <2>12. Commit(pid, done) /\ Listed(pid)' \subseteq Listed(pid)'
    BY <1>2
  <2>13. /\ StakeInv' /\ \A q \in Pid : Exists(q) => Exists(q)'
         /\ StakePools'[pid].releasing_stake = p.releasing_stake
         /\ \A q \in Pid \ {pid} : StakePools'[q] = StakePools[q]
    BY <2>1, <2>3, <2>6, <2>8, <2>11, <2>12, CommitPreserves
  <2> QED BY <2>13 DEF SameReleasing
<1>3. Panic \/ (/\ Commit(pid, done)
                /\ IF queued > 0 THEN IndexRequest(pid) ELSE UNCHANGED queueVars
                /\ UNCHANGED minerVars)
  BY DEF withdraw
<1> QED BY <1>1, <1>2, <1>3

-----------------------------------------------------------------------------
(* Sessions, by the invariant of the mining pallet *)

\* The invariant of the mining pallet, proved in MiningProofs, for the pools' sub-accounts.
MP == INSTANCE MiningProofs

\* The two instances of the mining pallet count sets alike.
LEMMA ProofCardinality == ASSUME NEW S PROVE M!Cardinality(S) = MP!Cardinality(S)
  BY DEF M!Cardinality, MP!Cardinality

\* A step of the mining pallet keeps its invariant.
LEMMA MiningStep == M!Next \/ UNCHANGED M!vars => (MP!MiningInv => MP!MiningInv')
<1>1. ASSUME NEW m, NEW w, M!bind(m, w) PROVE MP!bind(m, w)
  BY <1>1 DEF M!bind, MP!bind, M!MaxCoolDown, MP!MaxCoolDown
<1>2. ASSUME NEW m, M!unbind_miner(m) PROVE MP!unbind_miner(m)
  BY <1>2 DEF M!unbind_miner, MP!unbind_miner, M!is_mining, MP!is_mining, M!Stopped, MP!Stopped
<1>3. ASSUME NEW m, NEW stake, M!start_mining(m, stake) PROVE MP!start_mining(m, stake)
  BY <1>3 DEF M!start_mining, MP!start_mining
<1>4. ASSUME NEW m, M!stop_mining(m) PROVE MP!stop_mining(m)
  BY <1>4 DEF M!stop_mining, MP!stop_mining, M!is_mining, MP!is_mining, M!Stopped, MP!Stopped
<1>5. ASSUME NEW m, M!reclaim(m) PROVE MP!reclaim(m)
  BY <1>5 DEF M!reclaim, MP!reclaim, M!can_reclaim, MP!can_reclaim, M!MaxCoolDown, MP!MaxCoolDown
<1>6. ASSUME NEW a, NEW b, NEW c, M!on_gk_message_received(a, b, c)
      PROVE  MP!on_gk_message_received(a, b, c)
  BY <1>6 DEF M!on_gk_message_received, MP!on_gk_message_received, M!can_settle, MP!can_settle,
              M!is_mining, MP!is_mining, M!Hits, MP!Hits, M!StateAfter, MP!StateAfter,
              M!VAfter, MP!VAfter
<1>7. ASSUME NEW period, M!set_cool_down_expiration(period)
      PROVE  MP!set_cool_down_expiration(period)
  BY <1>7 DEF M!set_cool_down_expiration, MP!set_cool_down_expiration
<1>8. ASSUME NEW stopping, M!EndBlock(stopping) PROVE MP!EndBlock(stopping)
  BY <1>8, ProofCardinality
  DEF M!EndBlock, MP!EndBlock, M!is_mining, MP!is_mining, M!Stopped, MP!Stopped,
      M!Aged, MP!Aged, M!MaxCoolDown, MP!MaxCoolDown
<1>9. M!Next => MP!Next
  BY <1>1, <1>2, <1>3, <1>4, <1>5, <1>6, <1>7, <1>8 DEF M!Next, MP!Next
<1>10. UNCHANGED M!vars => UNCHANGED MP!vars
  BY DEF M!vars, MP!vars
<1>11. MP!IsFiniteSet(Miner)
  BY MinerFinite DEF IsFiniteSet, MP!IsFiniteSet
<1>12. MP!MiningInv /\ [MP!Next]_(MP!vars) => MP!MiningInv'
  BY MP!NextPreserves, <1>11, StakePoolAssumption, MinersAssumption, BalanceMathAssumption
<1> QED BY <1>9, <1>10, <1>12

\* The parts of the mining pallet's invariant that the stake pools build on.
LEMMA MiningFacts ==
    MP!MiningInv =>
      /\ M!TypeOK /\ StakesType
      /\ \A m \in Miner :
            /\ Stakes[m] # None <=> M!is_mining(m) \/ Miners[m].state = "MiningCoolingDown"
            /\ M!is_mining(m) => MinerBindings[m] # None
            /\ Miners[m].v \in Nat
<1> SUFFICES ASSUME MP!MiningInv
             PROVE  /\ M!TypeOK /\ StakesType
                    /\ \A m \in Miner :
                          /\ Stakes[m] # None <=> M!is_mining(m) \/ Miners[m].state = "MiningCoolingDown"
                          /\ M!is_mining(m) => MinerBindings[m] # None
                          /\ Miners[m].v \in Nat
  OBVIOUS
<1>1. MP!TypeOK /\ MP!BindingInv /\ MP!StakeIffInSession
  BY DEF MP!MiningInv
<1>2. M!TypeOK
  BY <1>1 DEF M!TypeOK, MP!TypeOK, M!MinerInfo, MP!MinerInfo, M!MinerState, MP!MinerState,
              M!MaxCoolDown, MP!MaxCoolDown
<1>3. StakesType
  BY <1>2 DEF M!TypeOK, StakesType
<1>4. ASSUME NEW m \in Miner
      PROVE  /\ Stakes[m] # None <=> M!is_mining(m) \/ Miners[m].state = "MiningCoolingDown"
             /\ M!is_mining(m) => MinerBindings[m] # None
  BY <1>1 DEF MP!StakeIffInSession, MP!BindingInv, MP!MiningMinerIsBound, M!is_mining, MP!is_mining
<1>5. ASSUME NEW m \in Miner PROVE Miners[m].v \in Nat
  <2>1. Miners[m] \in M!MinerInfo
    BY <1>2 DEF M!TypeOK
  <2> QED BY <2>1, MinersAssumption DEF M!MinerInfo
<1> QED BY <1>2, <1>3, <1>4, <1>5

\* A session returns its stake less what is slashed, and no more than its stake.
LEMMA ReturnedNat ==
    ASSUME MP!MiningInv, NEW m \in Miner, Stakes[m] # None
    PROVE  /\ Stakes[m] \in Nat /\ M!Returned(m) \in Nat /\ M!Returned(m) <= Stakes[m]
           /\ M!Slashed(m) \in Nat /\ M!Slashed(m) <= Stakes[m]
           /\ Stakes[m] - M!Slashed(m) = M!Returned(m)
<1>1. Stakes[m] \in Nat /\ Miners[m].v \in Nat /\ VE \in Nat \ {0} /\ ONE \in Nat
  BY MiningFacts, MinersAssumption, BalanceMathAssumption DEF StakesType
<1> DEFINE y == Lesser((Miners[m].v * ONE) \div VE, ONE)
<1>2. (Miners[m].v * ONE) \div VE \in Nat
  BY <1>1, TimesNat, DivNat
<1>3. y \in Nat /\ y <= ONE
  BY <1>1, <1>2, LesserNat
<1>4. M!Returned(m) = bmul(Stakes[m], y)
  BY DEF M!Returned, M!bmul, M!to_fixed, M!from_fixed, M!Lesser, bmul, to_fixed, from_fixed, Lesser
<1> HIDE DEF y
<1>5. PICK n \in Nat : n = Stakes[m]
  BY <1>1
<1>6. PICK z \in Nat : z = y
  BY <1>3
<1>7. bmul(n, z) \in Nat /\ bmul(n, z) <= n
  BY <1>3, <1>6, PartOfBalance
<1>8. PICK r \in Nat : r = M!Returned(m) /\ r <= n
  BY <1>4, <1>5, <1>6, <1>7
<1>9. M!Slashed(m) = n - r
  BY <1>5, <1>8 DEF M!Slashed
<1> QED BY <1>5, <1>8, <1>9

-----------------------------------------------------------------------------
(* Calls on a pool *)

\* What reclaim_pool_worker does to what the pools expect back.
ReturnsExpected(pid, w) ==
    /\ M!reclaim(<<pid, w>>)
    /\ StakePools'[pid].releasing_stake =
          SaturatingSub(StakePools[pid].releasing_stake, M!Returned(<<pid, w>>))
    /\ \A q \in Pid \ {pid} : StakePools'[q] = StakePools[q]

\* reclaim_pool_worker moves stake from the session to the free stake or to a slash.
LEMMA ReclaimWorkerPreserves ==
    ASSUME StakeInv, MP!MiningInv, MP!MiningInv', NEW pid \in Pid, NEW w \in Worker,
           reclaim_pool_worker(pid, w)
    PROVE  /\ StakeInv' /\ \A q \in Pid : Exists(q) => Exists(q)'
           /\ Panic \/ ReturnsExpected(pid, w)
<1> DEFINE m == <<pid, w>>
           c == Context(pid)
           p == StakePools[pid]
           stake == Stakes[m]
           slashed == M!Slashed(m)
           done == handle_reclaim(c, stake, slashed)
<1>1. CASE Panic
  BY <1>1, PanicPreserves
<1>2. CASE /\ M!reclaim(m) /\ Commit(pid, done) /\ UNCHANGED queueVars
  <2>1. Exists(pid) /\ M!can_reclaim(m)
    BY DEF reclaim_pool_worker
  <2>2. m \in Miner /\ Miners[m].state = "MiningCoolingDown" /\ Stakes[m] # None /\ m[1] = pid
    <3>1. m \in Miner
      BY DEF Miner
    <3> QED BY <2>1, <3>1, MiningFacts DEF M!can_reclaim
  <2>3. stake \in Nat /\ slashed \in Nat /\ slashed <= stake
    BY <2>2, ReturnedNat
  <2>4. /\ Sound(c, Elsewhere(pid), Staked(pid), Listed(pid), Limit(p), p.cap, p.releasing_stake)
        /\ Limit(p) \in Nat /\ p.releasing_stake \in Nat /\ p \in PoolInfo
    BY <2>1, ContextSound
  <2>5. Elsewhere(pid) \in [User -> Nat] /\ Staked(pid) \in Nat
    BY ElsewhereNat, StakedNat DEF StakeInv
  <2>6. StakesType /\ StakesType'
    BY MiningFacts DEF StakesType, StakeInv, MP!MiningInv, MP!TypeOK
  <2>7. /\ InSession(pid)' = InSession(pid) \ {m} /\ m \in InSession(pid)
        /\ \A x \in InSession(pid) \ {m} : Stakes'[x] = Stakes[x]
        /\ Stakes' = [Stakes EXCEPT ![m] = None]
    BY <1>2, <2>2, <2>6 DEF M!reclaim, InSession, StakesType
  <2>8. Staked(pid) = stake + Staked(pid)' /\ Staked(pid)' \in Nat
    <3> DEFINE S == InSession(pid)
    <3>1. IsFiniteSet(S) /\ \A x \in S : Stakes[x] \in Nat
      <4>1. S = Holding(Stakes, pid)
        BY DEF InSession, Holding
      <4> QED BY <2>6, <4>1, HoldingNat DEF StakesType
    <3> HIDE DEF S
    <3>2. SumFunctionOnSet(Stakes, S) = Stakes[m] + SumFunctionOnSet(Stakes, S \ {m})
      BY <2>7, <3>1, SumElement DEF S
    <3>3. IsFiniteSet(S \ {m})
      BY <3>1, FS_Subset
    <3>4. SumFunctionOnSet(Stakes, S \ {m}) = SumFunctionOnSet(Stakes', S \ {m})
      <4> DEFINE T == S \ {m}
      <4>1. \A x \in T : Stakes[x] \in Int /\ Stakes[x] = Stakes'[x]
        BY <2>7, <3>1 DEF S
      <4>2. IsFiniteSet(T)
        BY <3>3
      <4> HIDE DEF T
      <4>3. SumFunctionOnSet(Stakes, T) = SumFunctionOnSet(Stakes', T)
        BY <4>1, <4>2, SumSame
      <4> QED BY <4>3 DEF T
    <3>5. Staked(pid)' = SumFunctionOnSet(Stakes', S \ {m})
      BY <2>7 DEF Staked, S
    <3>6. Staked(pid)' \in Nat
      BY <2>6, StakedNat
    <3> QED BY <3>2, <3>4, <3>5, <3>6 DEF Staked, S
  <2>9. \A q \in Pid \ {pid} : Staked(q)' = Staked(q)
    <3> SUFFICES ASSUME NEW q \in Pid \ {pid} PROVE Staked(q)' = Staked(q)
      OBVIOUS
    <3> DEFINE S == InSession(q)
    <3>1. InSession(q)' = S /\ \A x \in S : Stakes'[x] = Stakes[x]
      BY <2>2, <2>6, <2>7 DEF InSession, StakesType
    <3>2. IsFiniteSet(S) /\ \A x \in S : Stakes[x] \in Nat
      <4>1. S = Holding(Stakes, q)
        BY DEF InSession, Holding
      <4> QED BY <2>6, <4>1, HoldingNat DEF StakesType
    <3> HIDE DEF S
    <3>3. SumFunctionOnSet(Stakes, S) = SumFunctionOnSet(Stakes', S)
      BY <3>1, <3>2, SumSame
    <3> QED BY <3>1, <3>3 DEF Staked, S
  <2> HIDE DEF stake, slashed, c
  <2>10. PICK n \in Nat : n = stake
    BY <2>3
  <2>11. PICK k \in Nat : k = slashed
    BY <2>3
  <2>12. PICK r \in Nat : r = p.releasing_stake
    BY <2>4
  <2>13. k <= n /\ n <= Staked(pid) /\ Staked(pid)' = Staked(pid) - n
    BY <2>3, <2>5, <2>8, <2>10, <2>11
  <2>14. Sound(handle_reclaim(c, n, k), Elsewhere(pid), Staked(pid) - n, Listed(pid), Limit(p),
               p.cap, SaturatingSub(r, n - k))
    <3>1. Sound(c, Elsewhere(pid), Staked(pid), Listed(pid), Limit(p), p.cap, r)
      BY <2>4, <2>12
    <3>2. PICK t \in Nat : t = Staked(pid)
      BY <2>5
    <3>3. Sound(handle_reclaim(c, n, k), Elsewhere(pid), t - n, Listed(pid), Limit(p),
               p.cap, SaturatingSub(r, n - k))
      BY <2>4, <2>5, <2>13, <3>1, <3>2, ReclaimSound
    <3> QED BY <3>2, <3>3
  <2>15. Sound(done, Elsewhere(pid), Staked(pid)', Listed(pid), Limit(p), p.cap,
               SaturatingSub(r, n - k))
    BY <2>10, <2>11, <2>13, <2>14
  <2>16. p.cap # None => Limit(p) <= p.cap
    BY <2>4, LimitIsCap
  <2>17. QueueIndexed' /\ \A q \in Pid : Listed(q)' = Listed(q)
    BY <1>2, QueueFrame DEF StakeInv
  <2>18. n - k = M!Returned(m)
    BY <2>2, <2>10, <2>11, ReturnedNat DEF stake, slashed
  <2> HIDE DEF done
  <2>19. /\ StakeInv' /\ \A q \in Pid : Exists(q) => Exists(q)'
         /\ StakePools'[pid].releasing_stake = SaturatingSub(r, n - k)
         /\ \A q \in Pid \ {pid} : StakePools'[q] = StakePools[q]
    BY <1>2, <2>1, <2>4, <2>6, <2>9, <2>15, <2>16, <2>17, CommitPreserves
  <2> QED BY <1>2, <2>12, <2>18, <2>19 DEF ReturnsExpected
<1>3. Panic \/ (M!reclaim(m) /\ Commit(pid, done) /\ UNCHANGED queueVars)
  BY DEF reclaim_pool_worker
<1> QED BY <1>1, <1>2, <1>3

\* Only pools that exist have workers.
WorkedPools == \A pid \in Pid : PoolWorkers[pid] # {} => Exists(pid)

\* One pool's record is replaced, and the others stay.
LEMMA RecordPreserves ==
    ASSUME StakeInv, UNCHANGED <<PoolStakers, StakeLedger, FreeBalance>>, StakesType',
           QueueIndexed', NEW pid \in Pid, Exists(pid), NEW r,
           StakePools' = [StakePools EXCEPT ![pid] = r],
           GoodPool(r, Staked(pid)', Listed(pid)'), r.total_shares = StakePools[pid].total_shares,
           \A q \in Pid \ {pid} : Staked(q)' = Staked(q) /\ Listed(q)' = Listed(q)
    PROVE  StakeInv' /\ \A q \in Pid : Exists(q) => Exists(q)'
<1>1. StakePools \in [Pid -> PoolInfo \cup {None}]
  BY DEF StakeInv, PoolsGood
<1>2. /\ DOMAIN StakePools' = Pid /\ StakePools' = [q \in Pid |-> StakePools'[q]]
      /\ StakePools'[pid] = r /\ \A q \in Pid \ {pid} : StakePools'[q] = StakePools[q]
  BY <1>1
<1>3. ASSUME NEW q \in Pid, Exists(q)
      PROVE  /\ GoodPool(StakePools'[q], Staked(q)', Listed(q)')
             /\ StakePools'[q].total_shares = StakePools[q].total_shares
  <2>1. CASE q = pid
    BY <1>2, <2>1
  <2>2. CASE q # pid
    <3>1. GoodPool(StakePools[q], Staked(q), Listed(q)) /\ StakePools'[q] = StakePools[q]
      BY <1>2, <1>3, <2>2 DEF StakeInv, PoolsGood
    <3>2. Staked(q)' = Staked(q) /\ Listed(q)' = Listed(q)
      BY <2>2
    <3> QED BY <3>1, <3>2
  <2> QED BY <2>1, <2>2
<1>4. ASSUME NEW q \in Pid, ~Exists(q) PROVE StakePools'[q] = None
  BY <1>2, <1>4 DEF Exists
<1> QED BY <1>2, <1>3, <1>4, RecordsPreserve

\* A new pool is empty: it has no stake, shares, requests or sessions.
LEMMA CreatePreserves ==
    ASSUME StakeInv, NEW owner \in PoolOwner, NEW pid \in Pid, create(owner, pid)
    PROVE  StakeInv' /\ \A q \in Pid : Exists(q) => Exists(q)'
<1>1. /\ ~Exists(pid) /\ StakePools' = [StakePools EXCEPT ![pid] = EmptyPool(owner)]
      /\ UNCHANGED <<PoolStakers, StakeLedger, FreeBalance, queueVars, Stakes>>
  BY DEF create, minerVars
<1>2. StakePools \in [Pid -> PoolInfo \cup {None}] /\ StakesType /\ QueueIndexed
  BY DEF StakeInv, PoolsGood
<1>3. StakesType' /\ QueueIndexed' /\ \A q \in Pid : Staked(q)' = Staked(q) /\ Listed(q)' = Listed(q)
  BY <1>1, <1>2, StakesFrame, QueueFrame
<1>4. DOMAIN StakePools' = Pid /\ StakePools' = [q \in Pid |-> StakePools'[q]]
      /\ StakePools'[pid] = EmptyPool(owner)
      /\ \A q \in Pid \ {pid} : StakePools'[q] = StakePools[q]
  BY <1>1, <1>2
<1>5. ASSUME NEW q \in Pid, Exists(q)
      PROVE  /\ GoodPool(StakePools'[q], Staked(q)', Listed(q)')
             /\ StakePools'[q].total_shares = StakePools[q].total_shares
  <2>1. GoodPool(StakePools[q], Staked(q), Listed(q)) /\ StakePools'[q] = StakePools[q]
    BY <1>1, <1>4, <1>5 DEF StakeInv, PoolsGood
  <2> QED BY <1>3, <2>1
<1>6. ASSUME NEW q \in Pid, ~Exists(q)
      PROVE  StakePools'[q] = None \/ \E o \in PoolOwner : StakePools'[q] = EmptyPool(o)
  BY <1>4, <1>6 DEF Exists
<1> QED BY <1>1, <1>3, <1>4, <1>5, <1>6, RecordsPreserve

\* A cap is not set below the pool's stake.
LEMMA SetCapPreserves ==
    ASSUME StakeInv, NEW pid \in Pid, NEW cap \in Cap, set_cap(pid, cap)
    PROVE  StakeInv' /\ \A q \in Pid : Exists(q) => Exists(q)'
<1> DEFINE p == StakePools[pid]
           r == WithCap(p, cap)
<1>1. /\ Exists(pid) /\ p.total_stake <= cap
      /\ StakePools' = [StakePools EXCEPT ![pid] = r]
      /\ UNCHANGED <<PoolStakers, StakeLedger, FreeBalance, queueVars, Stakes>>
  BY DEF set_cap, minerVars
<1>2. GoodPool(p, Staked(pid), Listed(pid)) /\ StakesType /\ QueueIndexed
  BY <1>1 DEF StakeInv, PoolsGood
<1>3. StakesType' /\ QueueIndexed' /\ \A q \in Pid : Staked(q)' = Staked(q) /\ Listed(q)' = Listed(q)
  BY <1>1, <1>2, StakesFrame, QueueFrame
<1>4. p \in PoolInfo
  BY <1>2 DEF GoodPool
<1> HIDE DEF p
<1>5. r \in PoolInfo /\ r.total_shares = p.total_shares /\ r.total_stake = p.total_stake
      /\ r.free_stake = p.free_stake /\ r.withdraw_queue = p.withdraw_queue /\ r.cap = cap
  BY <1>4 DEF WithCap, PoolInfo
<1> HIDE DEF r
<1>6. GoodPool(r, Staked(pid), Listed(pid))
  BY <1>1, <1>2, <1>5 DEF GoodPool
<1>7. r.total_shares = StakePools[pid].total_shares
  BY <1>5 DEF p
<1> QED BY <1>1, <1>3, <1>6, <1>7, RecordPreserves

\* start_mining moves free stake of the pool to the session.
LEMMA StartPreserves ==
    ASSUME StakeInv, MP!MiningInv, MP!MiningInv', NEW pid \in Pid, NEW w \in Worker,
           NEW stake \in StakeAmount, start_mining(pid, w, stake)
    PROVE  StakeInv' /\ \A q \in Pid : Exists(q) => Exists(q)'
<1> DEFINE m == <<pid, w>>
           p == StakePools[pid]
           r == WithStake(p, p.total_shares, p.total_stake, p.free_stake - stake)
<1>1. /\ Exists(pid) /\ p.free_stake >= stake /\ Stakes[m] = None
      /\ Stakes' = [Stakes EXCEPT ![m] = stake]
      /\ StakePools' = [StakePools EXCEPT ![pid] = r]
      /\ UNCHANGED <<PoolStakers, StakeLedger, FreeBalance, queueVars>>
  BY DEF start_mining, M!start_mining
<1>2. GoodPool(p, Staked(pid), Listed(pid)) /\ StakesType /\ QueueIndexed
  BY <1>1 DEF StakeInv, PoolsGood
<1>3. StakesType'
  BY MiningFacts DEF StakesType, MP!MiningInv, MP!TypeOK
<1>4. QueueIndexed' /\ \A q \in Pid : Listed(q)' = Listed(q)
  BY <1>1, <1>2, QueueFrame
<1>5. stake \in Nat /\ stake # None /\ m \in Miner
  BY MinersAssumption, StakePoolAssumption DEF Miner
<1>6. p \in PoolInfo /\ p.total_shares \in Nat /\ p.total_stake \in Nat /\ p.free_stake \in Nat
  BY <1>2 DEF GoodPool, PoolInfo
<1>7. Staked(pid)' = Staked(pid) + stake /\ Staked(pid) \in Nat
  <2> DEFINE S == InSession(pid)
  <2>1. IsFiniteSet(S) /\ \A x \in S : Stakes[x] \in Nat
    <3>1. S = Holding(Stakes, pid)
      BY DEF InSession, Holding
    <3> QED BY <1>2, <3>1, HoldingNat DEF StakesType
  <2>2. m \notin S /\ InSession(pid)' = S \cup {m} /\ Stakes'[m] = stake
        /\ \A x \in S : Stakes'[x] = Stakes[x]
    BY <1>1, <1>2, <1>5 DEF InSession, StakesType
  <2> HIDE DEF S
  <2>3. \A x \in S \cup {m} : Stakes'[x] \in Int
    BY <1>5, <2>1, <2>2
  <2>4. SumFunctionOnSet(Stakes', S \cup {m}) = SumFunctionOnSet(Stakes', S) + Stakes'[m]
    BY <2>1, <2>2, <2>3, SumAdd
  <2>5. SumFunctionOnSet(Stakes, S) = SumFunctionOnSet(Stakes', S)
    BY <2>1, <2>2, SumSame
  <2>6. Staked(pid)' = SumFunctionOnSet(Stakes', S \cup {m})
    BY <2>2 DEF Staked
  <2>7. Staked(pid) = SumFunctionOnSet(Stakes, S)
    BY DEF Staked, S
  <2>8. Staked(pid) \in Nat
    BY <1>2, StakedNat
  <2> QED BY <2>2, <2>4, <2>5, <2>6, <2>7, <2>8
<1>8. \A q \in Pid \ {pid} : Staked(q)' = Staked(q)
  <2> SUFFICES ASSUME NEW q \in Pid \ {pid} PROVE Staked(q)' = Staked(q)
    OBVIOUS
  <2> DEFINE S == InSession(q)
  <2>1. InSession(q)' = S /\ \A x \in S : Stakes'[x] = Stakes[x]
    BY <1>1, <1>2, <1>5 DEF InSession, StakesType
  <2>2. IsFiniteSet(S) /\ \A x \in S : Stakes[x] \in Nat
    <3>1. S = Holding(Stakes, q)
      BY DEF InSession, Holding
    <3> QED BY <1>2, <3>1, HoldingNat DEF StakesType
  <2> HIDE DEF S
  <2>3. SumFunctionOnSet(Stakes, S) = SumFunctionOnSet(Stakes', S)
    BY <2>1, <2>2, SumSame
  <2> QED BY <2>1, <2>3 DEF Staked, S
<1> HIDE DEF p
<1>9. p.free_stake - stake \in Nat
  BY <1>1, <1>5, <1>6
<1> DEFINE f == p.free_stake - stake
<1>10. r \in PoolInfo /\ r.total_shares = p.total_shares /\ r.total_stake = p.total_stake
      /\ r.free_stake = f /\ r.withdraw_queue = p.withdraw_queue /\ r.cap = p.cap
  <2>1. r = WithStake(p, p.total_shares, p.total_stake, f) /\ f \in Nat
    BY <1>9
  <2> HIDE DEF f, r
  <2> QED BY <1>6, <2>1 DEF WithStake, PoolInfo
<1> HIDE DEF r
<1>11. r.total_stake <= r.free_stake + Staked(pid)'
  <2>1. p.total_stake <= p.free_stake + Staked(pid)
    BY <1>2 DEF GoodPool
  <2> QED BY <1>5, <1>6, <1>7, <1>10, <2>1
<1>12. GoodPool(r, Staked(pid)', Listed(pid)')
  BY <1>2, <1>4, <1>10, <1>11 DEF GoodPool
<1>13. r.total_shares = StakePools[pid].total_shares
  BY <1>10 DEF p
<1> HIDE DEF m
<1> QED BY <1>1, <1>3, <1>4, <1>8, <1>12, <1>13, RecordPreserves

\* The repair of a user's request keeps the queue within what it may be.
LEMMA ReconcilePreserves ==
    ASSUME StakeInv, NEW pid \in Pid, NEW u \in User, reconcile_withdraw_queue(pid, u)
    PROVE  StakeInv' /\ \A q \in Pid : Exists(q) => Exists(q)'
<1> DEFINE p == StakePools[pid]
           queue == p.withdraw_queue
           available == NonDust(PoolStakers[pid][u].shares)
           wrong == {k \in DOMAIN queue : queue[k].user = u /\ queue[k].shares > available}
           i == Min(wrong)
           repaired == [queue EXCEPT ![i] = [user |-> @.user, shares |-> available, age |-> @.age]]
           new == IF available = 0 THEN RemoveAt(queue, i) ELSE repaired
           r == WithQueue(p, new)
<1>1. /\ Exists(pid) /\ wrong # {}
      /\ StakePools' = [StakePools EXCEPT ![pid] = r]
      /\ UNCHANGED <<PoolStakers, StakeLedger, FreeBalance, queueVars, Stakes>>
  BY Zenon DEF reconcile_withdraw_queue, minerVars
<1>2. GoodPool(p, Staked(pid), Listed(pid)) /\ StakesType /\ QueueIndexed
  <2>1. Exists(pid)
    BY <1>1, Zenon
  <2> HIDE DEF queue, available, wrong, i, repaired, new, r
  <2> QED BY <2>1 DEF StakeInv, PoolsGood
<1>3. StakesType' /\ QueueIndexed' /\ \A q \in Pid : Staked(q)' = Staked(q) /\ Listed(q)' = Listed(q)
  <2>1. UNCHANGED <<queueVars, Stakes>>
    BY <1>1, Zenon
  <2> HIDE DEF queue, available, wrong, i, repaired, new, r
  <2> QED BY <1>2, <2>1, StakesFrame, QueueFrame
<1>4. p \in PoolInfo /\ queue \in Seq(WithdrawInfo) /\ QueueFits(queue) /\ Ages(queue) \subseteq Listed(pid)
  <2> HIDE DEF available, wrong, i, repaired, new, r
  <2> QED BY <1>2 DEF GoodPool, PoolInfo
<1>5. available \in Nat /\ (available = 0 \/ is_nondust_balance(available))
  <2>1. PoolStakers[pid][u] \in UserStakeInfo
    BY DEF StakeInv, UserTypes
  <2>2. PICK n \in Nat : n = PoolStakers[pid][u].shares
    BY <2>1 DEF UserStakeInfo
  <2>3. NonDust(n) \in Nat /\ (NonDust(n) = 0 \/ is_nondust_balance(NonDust(n)))
    BY DEF NonDust, is_nondust_balance, balance_close_to_zero
  <2> QED BY <2>2, <2>3
<1> HIDE DEF queue, available
<1>6. i \in DOMAIN queue
  <2>1. wrong \subseteq DOMAIN queue /\ DOMAIN queue \subseteq Nat
    BY <1>4
  <2> HIDE DEF wrong
  <2>2. wrong \in SUBSET Nat /\ wrong # {}
    BY <1>1, <2>1
  <2>3. Min(wrong) \in wrong
    BY <2>2, MinIsMember
  <2> QED BY <2>1, <2>3
<1> HIDE DEF i
<1>7. new \in Seq(WithdrawInfo) /\ QueueFits(new) /\ Ages(new) \subseteq Ages(queue)
  <2>1. CASE available = 0
    <3>1. i \in 1..Len(queue)
      BY <1>4, <1>6
    <3> QED BY <1>4, <2>1, <3>1, RemovedFits
  <2>2. CASE available # 0
    <3>1. PICK n \in Nat : n = available
      BY <1>5
    <3>2. is_nondust_balance(n)
      BY <1>5, <2>2, <3>1
    <3>3. repaired = [queue EXCEPT ![i] = [user |-> @.user, shares |-> n, age |-> @.age]]
      BY <3>1
    <3> HIDE DEF repaired
    <3>4. repaired \in Seq(WithdrawInfo) /\ QueueFits(repaired) /\ Ages(repaired) \subseteq Ages(queue)
      BY <1>4, <1>6, <3>2, <3>3, RepairedFits
    <3> QED BY <2>2, <3>4
  <2> QED BY <2>1, <2>2
<1> HIDE DEF new, p
<1>8. r \in PoolInfo /\ r.total_shares = p.total_shares /\ r.total_stake = p.total_stake
      /\ r.free_stake = p.free_stake /\ r.withdraw_queue = new /\ r.cap = p.cap
  BY <1>4, <1>7 DEF WithQueue, PoolInfo
<1> HIDE DEF r
<1>9. GoodPool(r, Staked(pid), Listed(pid))
  BY <1>2, <1>4, <1>7, <1>8 DEF GoodPool
<1>10. r.total_shares = StakePools[pid].total_shares
  BY <1>8 DEF p
<1> QED BY <1>1, <1>3, <1>9, <1>10, RecordPreserves

-----------------------------------------------------------------------------
(* Workers that stop, and the end of blocks *)

\* What a set of miners in session will return is an amount.
LEMMA RepaymentNat ==
    ASSUME MP!MiningInv, NEW S \in SUBSET Miner, \A m \in S : Stakes[m] # None
    PROVE  Repayment(S) \in Nat
<1> DEFINE f == [m \in S |-> M!Returned(m)]
<1>1. \A m \in S : f[m] \in Nat
  BY ReturnedNat
<1>2. IsFiniteSet(S)
  BY MinerFinite, FS_Subset
<1>3. DOMAIN f = S /\ Repayment(S) = SumFunction(f)
  BY DEF Repayment
<1> HIDE DEF f
<1>4. SumFunctionOnSet(f, S) \in Nat
  BY <1>1, <1>2, SumNat
<1> QED BY <1>3, <1>4, SumsAreSums

\* on_stopped touches nothing of a pool but what it expects back.
LEMMA ExpectingKeeps ==
    ASSUME MP!MiningInv, NEW p \in PoolInfo, NEW pid, NEW stopped \in SUBSET Miner,
           \A m \in stopped : Stakes[m] # None
    PROVE  /\ Expecting(p, pid, stopped) \in PoolInfo
           /\ Expecting(p, pid, stopped).cap = p.cap
           /\ Expecting(p, pid, stopped).total_shares = p.total_shares
           /\ Expecting(p, pid, stopped).total_stake = p.total_stake
           /\ Expecting(p, pid, stopped).free_stake = p.free_stake
           /\ Expecting(p, pid, stopped).withdraw_queue = p.withdraw_queue
<1> DEFINE miners == {m \in stopped : m[1] = pid}
           amount == p.releasing_stake + Repayment(miners)
<1>1. Repayment(miners) \in Nat
  <2>1. miners \in SUBSET Miner /\ \A m \in miners : Stakes[m] # None
    OBVIOUS
  <2> HIDE DEF miners
  <2> QED BY <2>1, RepaymentNat
<1>2. amount \in Nat
  BY <1>1 DEF PoolInfo
<1>3. Expecting(p, pid, stopped) = p \/ Expecting(p, pid, stopped) = WithReleasing(p, amount)
  BY DEF Expecting
<1> HIDE DEF amount
<1>4. WithReleasing(p, amount) \in PoolInfo
  BY <1>2 DEF WithReleasing, PoolInfo
<1> QED BY <1>3, <1>4 DEF WithReleasing

\* on_stopped keeps a pool's record good.
LEMMA ExpectingGood ==
    ASSUME MP!MiningInv, NEW p, NEW staked, NEW ages, GoodPool(p, staked, ages), NEW pid,
           NEW stopped \in SUBSET Miner, \A m \in stopped : Stakes[m] # None
    PROVE  /\ GoodPool(Expecting(p, pid, stopped), staked, ages)
           /\ Expecting(p, pid, stopped).total_shares = p.total_shares
  BY ExpectingKeeps DEF GoodPool

\* The miners that are mining are in session.
LEMMA MiningInSession ==
    ASSUME MP!MiningInv
    PROVE  \A m \in M!MiningMiners : m \in Miner /\ Stakes[m] # None
  BY MiningFacts DEF M!MiningMiners

\* The pools are told of their stopped miners (on_stopped); nothing else of them changes.
LEMMA StoppedPreserves ==
    ASSUME StakeInv, MP!MiningInv, NEW stopped \in SUBSET Miner,
           \A m \in stopped : Stakes[m] # None /\ Exists(m[1]), on_stopped(stopped),
           UNCHANGED <<PoolStakers, StakeLedger, FreeBalance, queueVars, Stakes>>
    PROVE  StakeInv' /\ \A q \in Pid : Exists(q) => Exists(q)'
<1>1. StakePools' = [q \in Pid |-> Expecting(StakePools[q], q, stopped)]
  BY DEF on_stopped
<1>2. StakesType' /\ QueueIndexed' /\ \A q \in Pid : Staked(q)' = Staked(q) /\ Listed(q)' = Listed(q)
  BY StakesFrame, QueueFrame DEF StakeInv
<1>3. ASSUME NEW q \in Pid, Exists(q)
      PROVE  /\ GoodPool(StakePools'[q], Staked(q)', Listed(q)')
             /\ StakePools'[q].total_shares = StakePools[q].total_shares
  <2>1. GoodPool(StakePools[q], Staked(q), Listed(q))
    BY <1>3 DEF StakeInv, PoolsGood
  <2>2. /\ GoodPool(Expecting(StakePools[q], q, stopped), Staked(q), Listed(q))
        /\ Expecting(StakePools[q], q, stopped).total_shares = StakePools[q].total_shares
    BY <2>1, ExpectingGood
  <2> QED BY <1>1, <1>2, <2>2
<1>4. ASSUME NEW q \in Pid, ~Exists(q) PROVE StakePools'[q] = None
  BY <1>1, <1>4 DEF Expecting, Exists
<1> QED BY <1>1, <1>2, <1>3, <1>4, RecordsPreserve

\* A worker that leaves its pool, mining or not.
LEMMA DetachPreserves ==
    ASSUME StakeInv, MP!MiningInv, BindInv, WorkedPools, NEW pid \in Pid, NEW w \in Worker,
           DetachWorker(pid, w)
    PROVE  StakeInv' /\ \A q \in Pid : Exists(q) => Exists(q)'
<1> DEFINE m == <<pid, w>>
           stopped == {m} \cap M!MiningMiners
<1>1. MinerBindings[m] = w
  BY MinerPairs DEF DetachWorker, M!unbind_miner, BindInv, OwnWorker
<1>2. Exists(pid)
  BY <1>1 DEF BindInv, WorkersAgree, WorkedPools
<1>3. on_stopped(stopped) /\ UNCHANGED <<PoolStakers, StakeLedger, FreeBalance, queueVars, Stakes>>
  BY DEF DetachWorker, M!unbind_miner
<1>4. stopped \in SUBSET Miner /\ \A x \in stopped : Stakes[x] # None /\ Exists(x[1])
  BY <1>2, MiningInSession
<1> HIDE DEF stopped
<1> QED BY <1>3, <1>4, StoppedPreserves

\* stop_mining leaves the stake in the session until it is reclaimed.
LEMMA StopPreserves ==
    ASSUME StakeInv, MP!MiningInv, NEW pid \in Pid, NEW w \in Worker, stop_mining(pid, w)
    PROVE  StakeInv' /\ \A q \in Pid : Exists(q) => Exists(q)'
<1> DEFINE stopped == {<<pid, w>>}
<1>1. /\ on_stopped(stopped) /\ Exists(pid) /\ M!is_mining(<<pid, w>>)
      /\ UNCHANGED <<PoolStakers, StakeLedger, FreeBalance, queueVars, Stakes>>
  BY DEF stop_mining, M!stop_mining
<1>2. stopped \in SUBSET Miner /\ \A x \in stopped : Stakes[x] # None /\ Exists(x[1])
  BY <1>1, MinerPairs, MiningFacts
<1> HIDE DEF stopped
<1> QED BY <1>1, <1>2, StoppedPreserves

\* What is listed for an age is listed for the next one a block later.
LEMMA AgedListed ==
    ASSUME WithdrawalQueuedPools \in [Age -> SUBSET Pid], NEW pid \in Pid,
           WithdrawalQueuedPools' =
              [a \in Age |-> IF a = 0 THEN {} ELSE WithdrawalQueuedPools[a - 1]]
    PROVE  {Older(a) : a \in Listed(pid)} \subseteq Listed(pid)'
<1> SUFFICES ASSUME NEW a \in Listed(pid) PROVE Older(a) \in Listed(pid)'
  OBVIOUS
<1>1. a \in Age /\ a \in Nat /\ GracePeriod \in Nat /\ a <= GracePeriod + 1
      /\ (a <= GracePeriod => pid \in WithdrawalQueuedPools[a])
  BY StakePoolAssumption DEF Listed, Age
<1>2. Older(a) \in Age
  BY <1>1 DEF Older, Lesser, Age
<1>3. CASE Older(a) <= GracePeriod
  <2>1. Older(a) = a + 1 /\ a <= GracePeriod /\ Older(a) # 0 /\ Older(a) - 1 = a
    BY <1>1, <1>3 DEF Older, Lesser
  <2> QED BY <1>1, <1>2, <2>1 DEF Listed
<1>4. CASE ~(Older(a) <= GracePeriod)
  BY <1>2, <1>4 DEF Listed
<1> QED BY <1>3, <1>4

\* A pool's record a block later, its requests and the listed ages one older.
LEMMA AgedGood ==
    ASSUME NEW p, NEW staked, NEW ages, GoodPool(p, staked, ages), p # None
    PROVE  /\ GoodPool(AgedPool(p), staked, {Older(a) : a \in ages})
           /\ AgedPool(p).total_shares = p.total_shares
<1> DEFINE queue == p.withdraw_queue
           new == [i \in DOMAIN queue |->
                    [user |-> queue[i].user, shares |-> queue[i].shares, age |-> Older(queue[i].age)]]
<1>1. p \in PoolInfo /\ queue \in Seq(WithdrawInfo) /\ QueueFits(queue) /\ Ages(queue) \subseteq ages
  BY DEF GoodPool, PoolInfo
<1>2. AgedPool(p) = WithQueue(p, new)
  BY DEF AgedPool
<1>3. new \in Seq(WithdrawInfo) /\ QueueFits(new) /\ Ages(new) = {Older(a) : a \in Ages(queue)}
  <2> HIDE DEF queue
  <2>1. \A x : x = new => x \in Seq(WithdrawInfo) /\ QueueFits(x)
                          /\ Ages(x) = {Older(a) : a \in Ages(queue)}
    BY <1>1, AgedQueue
  <2> HIDE DEF new
  <2> QED BY <2>1
<1> HIDE DEF new
<1>4. WithQueue(p, new) \in PoolInfo
  BY <1>1, <1>3 DEF WithQueue, PoolInfo
<1>5. Ages(new) \subseteq {Older(a) : a \in ages}
  BY <1>1, <1>3
<1> QED BY <1>2, <1>3, <1>4, <1>5 DEF GoodPool, WithQueue

\* The timestamps that are out of grace are the first one, if any; the others are younger.
LEMMA ExpiredIsFirst ==
    ASSUME QueueIndexed
    PROVE  /\ Cardinality(Expired) \in {0, 1} /\ Cardinality(Expired) <= Len(WithdrawalTimestamps)
           /\ \A i \in 1..Len(WithdrawalTimestamps) :
                 WithdrawalTimestamps[i] > GracePeriod <=> i <= Cardinality(Expired)
<1> DEFINE ts == WithdrawalTimestamps
           n == Len(ts)
<1>1. n \in Nat /\ DOMAIN ts = 1..n /\ GracePeriod \in Nat
      /\ \A i \in 1..n : ts[i] \in Nat /\ ts[i] <= GracePeriod + 1
  BY StakePoolAssumption DEF QueueIndexed, Age
<1>2. \A i, j \in 1..n : i < j => ts[i] > ts[j]
  BY <1>1 DEF QueueIndexed
<1>3. \A i \in 1..n : 1 < i => ts[i] <= GracePeriod
  <2> SUFFICES ASSUME NEW i \in 1..n, 1 < i PROVE ts[i] <= GracePeriod
    OBVIOUS
  <2>1. 1 \in 1..n
    BY <1>1
  <2>2. ts[1] > ts[i]
    BY <1>2, <2>1
  <2> HIDE DEF ts
  <2> QED BY <1>1, <2>1, <2>2
<1>4. Expired = {i \in 1..n : \A j \in 1..i : ts[j] > GracePeriod}
  BY <1>1 DEF Expired
<1> HIDE DEF ts
<1>5. CASE n # 0 /\ ts[1] > GracePeriod
  <2>1. Expired = {1}
    <3>1. \A i \in 1..n : (\A j \in 1..i : ts[j] > GracePeriod) <=> i = 1
      <4> SUFFICES ASSUME NEW i \in 1..n
                   PROVE  (\A j \in 1..i : ts[j] > GracePeriod) <=> i = 1
        OBVIOUS
      <4>1. i = 1 => \A j \in 1..i : ts[j] > GracePeriod
        BY <1>5
      <4>2. (\A j \in 1..i : ts[j] > GracePeriod) => ts[i] > GracePeriod
        BY <1>1
      <4> QED BY <1>1, <1>3, <4>1, <4>2
    <3>2. 1 \in 1..n
      BY <1>1, <1>5
    <3> QED BY <1>4, <3>1, <3>2
  <2>2. Cardinality(Expired) = 1
    BY <2>1, FS_Singleton
  <2> QED BY <1>1, <1>3, <1>5, <2>2 DEF ts
<1>6. CASE n = 0 \/ ~(ts[1] > GracePeriod)
  <2>1. Expired = {}
    <3> SUFFICES ASSUME NEW i \in 1..n, \A j \in 1..i : ts[j] > GracePeriod PROVE FALSE
      BY <1>4
    <3> QED BY <1>1, <1>6
  <2>2. Cardinality(Expired) = 0
    BY <2>1, FS_EmptySet
  <2>3. \A i \in 1..n : ~(ts[i] > GracePeriod)
    <3> SUFFICES ASSUME NEW i \in 1..n PROVE ~(ts[i] > GracePeriod)
      OBVIOUS
    <3> QED BY <1>1, <1>3, <1>6
  <2> QED BY <1>1, <2>2, <2>3 DEF ts
<1> QED BY <1>5, <1>6

\* The index a block later: one more timestamp, the one out of grace dropped.
LEMMA IndexAges ==
    ASSUME QueueIndexed, EndBlock
    PROVE  QueueIndexed'
<1> DEFINE ts == WithdrawalTimestamps
           n == Len(ts)
           e == Cardinality(Expired)
           live == SubSeq(ts, e + 1, n)
           new == [i \in DOMAIN live |-> live[i] + 1]
<1>1. /\ WithdrawalTimestamps' = new
      /\ WithdrawalQueuedPools' =
              [a \in Age |-> IF a = 0 THEN {} ELSE WithdrawalQueuedPools[a - 1]]
  BY DEF EndBlock
<1>2. /\ ts \in Seq(Age) /\ WithdrawalQueuedPools \in [Age -> SUBSET Pid]
      /\ \A i, j \in DOMAIN ts : i < j => ts[i] > ts[j]
      /\ Range(ts) = {a \in Age : WithdrawalQueuedPools[a] # {}}
  BY DEF QueueIndexed
<1>3. n \in Nat /\ DOMAIN ts = 1..n /\ GracePeriod \in Nat /\ Age = 0..(GracePeriod + 1)
      /\ \A i \in 1..n : ts[i] \in Age
  BY <1>2, StakePoolAssumption DEF Age
<1>4. e \in Nat /\ e <= n /\ \A i \in 1..n : ts[i] > GracePeriod <=> i <= e
  BY ExpiredIsFirst
<1>5. WithdrawalQueuedPools' \in [Age -> SUBSET Pid]
  <2>1. \A a \in Age : a = 0 \/ a - 1 \in Age
    BY <1>3
  <2> QED BY <1>1, <1>2, <2>1
<1> HIDE DEF ts, e
<1>6. live \in Seq(Age) /\ Len(live) = n - e /\ \A j \in 1..(n - e) : live[j] = ts[e + j]
  <2>1. PICK k \in Nat : k = e
    BY <1>4
  <2>2. SubSeq(ts, k + 1, n) \in Seq(Age) /\ Len(SubSeq(ts, k + 1, n)) = n - k
        /\ \A j \in 1..(n - k) : SubSeq(ts, k + 1, n)[j] = ts[k + j]
    BY <1>2, <1>4, <2>1, Suffix
  <2> QED BY <2>1, <2>2
<1> HIDE DEF live
<1>7. DOMAIN live = 1..(n - e) /\ n - e \in Nat
  BY <1>3, <1>4, <1>6
<1>8. \A j \in 1..(n - e) : e + j \in 1..n /\ live[j] = ts[e + j] /\ ts[e + j] <= GracePeriod
  <2> SUFFICES ASSUME NEW j \in 1..(n - e)
               PROVE  e + j \in 1..n /\ live[j] = ts[e + j] /\ ts[e + j] <= GracePeriod
    OBVIOUS
  <2>1. e + j \in 1..n /\ ~(e + j <= e)
    BY <1>3, <1>4, <1>7
  <2>2. ~(ts[e + j] > GracePeriod) /\ ts[e + j] \in Age
    BY <1>3, <1>4, <2>1
  <2>3. PICK t \in Age : t = ts[e + j]
    BY <2>2
  <2>4. t <= GracePeriod
    BY <1>3, <2>2, <2>3
  <2> QED BY <1>6, <2>1, <2>3, <2>4
<1>9. new \in Seq(Age) /\ DOMAIN new = 1..(n - e)
  <2>1. \A j \in 1..(n - e) : live[j] + 1 \in Age
    <3> SUFFICES ASSUME NEW j \in 1..(n - e) PROVE live[j] + 1 \in Age
      OBVIOUS
    <3>1. PICK t \in Age : t = live[j] /\ t <= GracePeriod
      BY <1>3, <1>8
    <3> QED BY <1>3, <3>1
  <2> QED BY <1>7, <2>1
<1>10. \A i, j \in DOMAIN new : i < j => new[i] > new[j]
  <2> SUFFICES ASSUME NEW i \in 1..(n - e), NEW j \in 1..(n - e), i < j PROVE new[i] > new[j]
    BY <1>9
  <2>1. e + i \in 1..n /\ e + j \in 1..n /\ e + i < e + j
    BY <1>4, <1>8
  <2>2. ts[e + i] > ts[e + j]
    BY <1>2, <1>3, <2>1
  <2>3. PICK s \in Age, t \in Age : s = live[i] /\ t = live[j]
    BY <1>3, <1>8
  <2>4. s > t
    BY <1>8, <2>2, <2>3
  <2>5. new[i] = s + 1 /\ new[j] = t + 1
    BY <1>7, <2>3
  <2> HIDE DEF new
  <2> QED BY <1>3, <2>3, <2>4, <2>5
<1>11. \A a \in Age : a \in Range(new) <=> a # 0 /\ a - 1 \in Range(ts)
  <2> SUFFICES ASSUME NEW a \in Age PROVE a \in Range(new) <=> a # 0 /\ a - 1 \in Range(ts)
    OBVIOUS
  <2>1. ASSUME a \in Range(new) PROVE a # 0 /\ a - 1 \in Range(ts)
    <3>1. PICK j \in 1..(n - e) : a = new[j]
      BY <1>9, <2>1 DEF Range
    <3>2. PICK t \in Age : t = live[j]
      BY <1>3, <1>8
    <3>3. a = t + 1
      BY <1>7, <3>1, <3>2
    <3>4. a # 0 /\ a - 1 = t
      BY <1>3, <3>3
    <3>5. t \in Range(ts)
      BY <1>3, <1>8, <3>2 DEF Range
    <3> QED BY <3>4, <3>5
  <2>2. ASSUME a # 0, a - 1 \in Range(ts) PROVE a \in Range(new)
    <3>1. PICK i \in 1..n : ts[i] = a - 1
      BY <1>3, <2>2 DEF Range
    <3>2. a - 1 <= GracePeriod
      BY <1>3
    <3>3. ~(i <= e)
      BY <1>3, <1>4, <3>1, <3>2
    <3>4. PICK j \in 1..(n - e) : e + j = i
      <4>1. i - e \in 1..(n - e) /\ e + (i - e) = i
        BY <1>3, <1>4, <3>3
      <4> QED BY <4>1
    <3>5. new[j] = a
      <4>1. live[j] = a - 1
        BY <1>8, <3>1, <3>4
      <4> QED BY <1>3, <1>7, <4>1
    <3> QED BY <1>9, <3>5 DEF Range
  <2> QED BY <2>1, <2>2
<1>12. \A a \in Age : WithdrawalQueuedPools'[a] # {} <=> a # 0 /\ a - 1 \in Range(ts)
  <2> SUFFICES ASSUME NEW a \in Age
               PROVE  WithdrawalQueuedPools'[a] # {} <=> a # 0 /\ a - 1 \in Range(ts)
    OBVIOUS
  <2>1. a # 0 => a - 1 \in Age
    BY <1>3
  <2> QED BY <1>1, <1>2, <2>1
<1> HIDE DEF new
<1>13. Range(new) \subseteq Age
  <2>1. \A i \in DOMAIN new : new[i] \in Age
    BY <1>9, Members
  <2> QED BY <2>1 DEF Range
<1>14. Range(new) = {a \in Age : WithdrawalQueuedPools'[a] # {}}
  BY <1>11, <1>12, <1>13
<1> QED BY <1>1, <1>5, <1>9, <1>10, <1>14 DEF QueueIndexed

\* The end of a block: the requests and the index age together, the pools with a request out
\* of grace are told of their stopped workers.
LEMMA EndBlockPreserves ==
    ASSUME StakeInv, MP!MiningInv, WorkedPools, EndBlock
    PROVE  StakeInv' /\ \A q \in Pid : Exists(q) => Exists(q)'
<1> DEFINE stopping == {m \in Miner : m[1] \in ForcedPools /\ m[2] \in PoolWorkers[m[1]]}
           stopped == stopping \cap M!MiningMiners
<1>1. /\ StakePools' = PoolsAfterBlock(stopped)
      /\ UNCHANGED <<PoolStakers, StakeLedger, FreeBalance, Stakes>>
      /\ WithdrawalQueuedPools' =
              [a \in Age |-> IF a = 0 THEN {} ELSE WithdrawalQueuedPools[a - 1]]
  BY DEF EndBlock, M!EndBlock
<1>2. stopped \in SUBSET Miner /\ \A m \in stopped : Stakes[m] # None /\ Exists(m[1])
  BY MiningInSession, MinerPairs DEF WorkedPools
<1> HIDE DEF stopped
<1>3. StakePools' = [q \in Pid |-> Expecting(AgedPool(StakePools[q]), q, stopped)]
  BY <1>1 DEF PoolsAfterBlock
<1>4. StakesType' /\ \A q \in Pid : Staked(q)' = Staked(q)
  BY <1>1, StakesFrame DEF StakeInv
<1>5. QueueIndexed'
  BY IndexAges DEF StakeInv
<1>6. ASSUME NEW q \in Pid, Exists(q)
      PROVE  /\ GoodPool(StakePools'[q], Staked(q)', Listed(q)')
             /\ StakePools'[q].total_shares = StakePools[q].total_shares
  <2> DEFINE p == StakePools[q]
             ages == {Older(a) : a \in Listed(q)}
  <2>1. GoodPool(p, Staked(q), Listed(q)) /\ p # None
    BY <1>6 DEF StakeInv, PoolsGood, Exists
  <2>2. GoodPool(AgedPool(p), Staked(q), ages) /\ AgedPool(p).total_shares = p.total_shares
    BY <2>1, AgedGood
  <2>3. ages \subseteq Listed(q)'
    BY <1>1, AgedListed DEF StakeInv, QueueIndexed
  <2> HIDE DEF p, ages
  <2>4. /\ GoodPool(Expecting(AgedPool(p), q, stopped), Staked(q), ages)
        /\ Expecting(AgedPool(p), q, stopped).total_shares = AgedPool(p).total_shares
    BY <1>2, <2>2, ExpectingGood
  <2>5. StakePools'[q] = Expecting(AgedPool(p), q, stopped)
    BY <1>3 DEF p
  <2>6. GoodPool(StakePools'[q], Staked(q)', Listed(q)')
    BY <1>4, <2>3, <2>4, <2>5 DEF GoodPool
  <2> QED BY <2>2, <2>4, <2>5, <2>6 DEF p
<1>7. ASSUME NEW q \in Pid, ~Exists(q) PROVE StakePools'[q] = None
  BY <1>2, <1>3, <1>7 DEF Expecting, AgedPool, Exists
<1> QED BY <1>1, <1>3, <1>4, <1>5, <1>6, <1>7, RecordsPreserve

-----------------------------------------------------------------------------
(* The inductive invariant *)

\* The flags.
MiscTypes == MiningEnabled \in BOOLEAN /\ panicked \in BOOLEAN

\* The inductive invariant of the stake pools: the mining pallet's, who works for whom, and the
\* amounts, queues and index.
PoolInv == MP!MiningInv /\ BindInv /\ StakeInv /\ WorkedPools /\ MiscTypes

\* There are no pools at first.
LEMMA StakeInvInit == Init => StakeInv
<1> SUFFICES ASSUME Init PROVE StakeInv
  OBVIOUS
<1>1. /\ StakePools = [pid \in Pid |-> None]
      /\ PoolStakers = [pid \in Pid |-> [u \in User |-> [locked |-> 0, shares |-> 0]]]
      /\ StakeLedger = [u \in User |-> 0] /\ FreeBalance = [u \in User |-> Funds]
      /\ WithdrawalTimestamps = <<>> /\ WithdrawalQueuedPools = [a \in Age |-> {}]
      /\ Stakes = [m \in Miner |-> None]
  BY DEF Init, M!Init
<1>2. UserTypes
  BY <1>1, StakePoolAssumption DEF UserTypes, UserStakeInfo
<1>3. StakesType
  BY <1>1 DEF StakesType
<1>4. \A pid \in Pid : ~Exists(pid)
  BY <1>1 DEF Exists
<1>5. PoolsGood /\ SharesOK
  BY <1>1, <1>4 DEF PoolsGood, SharesOK
<1>6. LedgerCovers
  <2> SUFFICES ASSUME NEW u \in User
               PROVE  /\ SumFunction([pid \in Pid |-> PoolStakers[pid][u].locked]) <= StakeLedger[u]
                      /\ StakeLedger[u] <= FreeBalance[u]
    BY DEF LedgerCovers
  <2> DEFINE f == [pid \in Pid |-> PoolStakers[pid][u].locked]
  <2>1. DOMAIN f = Pid /\ \A pid \in Pid : f[pid] = 0
    BY <1>1
  <2> HIDE DEF f
  <2>2. SumFunction(f) = 0
    BY <2>1, SumZero, SumsAreSums, StakePoolAssumption
  <2>3. SumFunction(f) <= StakeLedger[u] /\ StakeLedger[u] <= FreeBalance[u]
    BY <1>1, <2>2, StakePoolAssumption
  <2> QED BY <2>3 DEF f
<1>7. QueueIndexed
  <2>1. <<>> \in Seq(Age) /\ DOMAIN <<>> = {}
    OBVIOUS
  <2>2. Range(<<>>) = {}
    BY DEF Range
  <2> QED BY <1>1, <2>1, <2>2 DEF QueueIndexed
<1> QED BY <1>2, <1>3, <1>5, <1>6, <1>7 DEF StakeInv

\* The inductive invariant holds at first.
LEMMA PoolInvInit == Init => PoolInv
<1> SUFFICES ASSUME Init PROVE PoolInv
  OBVIOUS
<1>1. MP!MiningInv
  <2>1. MP!Init
    BY DEF Init, M!Init, MP!Init, M!MaxCoolDown, MP!MaxCoolDown
  <2>2. MP!IsFiniteSet(Miner)
    BY MinerFinite DEF IsFiniteSet, MP!IsFiniteSet
  <2> QED BY MP!InitEstablishesInv, <2>1, <2>2, StakePoolAssumption, MinersAssumption, BalanceMathAssumption
<1>2. BindInv /\ StakeInv
  BY BindInvInit, StakeInvInit
<1>3. WorkedPools /\ MiscTypes
  BY DEF Init, WorkedPools, MiscTypes
<1> QED BY <1>1, <1>2, <1>3 DEF PoolInv

\* Calls that leave the users, the pools, the queues and the stakes alone.
LEMMA StakeInvKept ==
    StakeInv /\ UNCHANGED <<poolVars, queueVars, Stakes>>
        => StakeInv' /\ \A q \in Pid : Exists(q) => Exists(q)'
<1> SUFFICES ASSUME StakeInv, UNCHANGED <<poolVars, queueVars, Stakes>>
             PROVE  StakeInv' /\ \A q \in Pid : Exists(q) => Exists(q)'
  OBVIOUS
<1>1. \A q \in Pid : Staked(q)' = Staked(q) /\ Listed(q)' = Listed(q)
  BY StakesFrame, QueueFrame
<1>2. UserTypes' /\ PoolsGood' /\ SharesOK' /\ LedgerCovers' /\ \A q \in Pid : Exists(q) => Exists(q)'
  BY <1>1 DEF StakeInv, poolVars, UserTypes, PoolsGood, SharesOK, LedgerCovers, Exists
<1> QED BY <1>2, StakesFrame, QueueFrame DEF StakeInv

\* The invariant after a step, in which no pool disappears.
Kept == StakeInv' /\ \A q \in Pid : Exists(q) => Exists(q)'

\* Calls of users keep the pools' invariant.
LEMMA UserCallKeeps ==
    ASSUME PoolInv, MP!MiningInv', UserCall
    PROVE  Kept
<1>0. StakeInv /\ MP!MiningInv /\ BindInv /\ WorkedPools
  BY DEF PoolInv
<1>1. PICK u \in User, pid \in Pid :
        \/ u \in PoolOwner /\ create(u, pid)
        \/ \E amount \in Contribution : contribute(u, pid, amount)
        \/ \E shares \in Demand \cup {PoolStakers[pid][u].shares} : withdraw(u, pid, shares)
        \/ reconcile_withdraw_queue(pid, u)
        \/ \E w \in Worker : unbind(u, pid, w)
  BY DEF UserCall
<1>2. ASSUME u \in PoolOwner, create(u, pid) PROVE Kept
  BY <1>0, <1>2, CreatePreserves DEF Kept
<1>3. ASSUME NEW amount \in Contribution, contribute(u, pid, amount) PROVE Kept
  BY <1>0, <1>3, ContributePreserves DEF Kept
<1>4. ASSUME NEW shares \in Demand \cup {PoolStakers[pid][u].shares}, withdraw(u, pid, shares)
      PROVE  Kept
  BY <1>0, <1>4, WithdrawPreserves DEF Kept
<1>5. ASSUME reconcile_withdraw_queue(pid, u) PROVE Kept
  BY <1>0, <1>5, ReconcilePreserves DEF Kept
<1>6. ASSUME NEW w \in Worker, unbind(u, pid, w) PROVE Kept
  <2>1. DetachWorker(pid, w)
    BY <1>6 DEF unbind
  <2> QED BY <1>0, <2>1, DetachPreserves DEF Kept
<1> QED BY <1>1, <1>2, <1>3, <1>4, <1>5, <1>6

\* Calls of pool owners keep the pools' invariant.
LEMMA PoolCallKeeps ==
    ASSUME PoolInv, MP!MiningInv', PoolCall
    PROVE  Kept
<1>0. StakeInv /\ MP!MiningInv /\ BindInv /\ WorkedPools
  BY DEF PoolInv
<1>1. PICK pid \in Pid :
        \/ \E cap \in Cap : set_cap(pid, cap)
        \/ \E w \in Worker :
              \/ add_worker(pid, w)
              \/ remove_worker(pid, w)
              \/ \E stake \in StakeAmount : start_mining(pid, w, stake)
              \/ stop_mining(pid, w)
              \/ reclaim_pool_worker(pid, w)
  BY DEF PoolCall
<1>2. ASSUME NEW cap \in Cap, set_cap(pid, cap) PROVE Kept
  BY <1>0, <1>2, SetCapPreserves DEF Kept
<1>3. ASSUME NEW w \in Worker, add_worker(pid, w) PROVE Kept
  <2>1. UNCHANGED <<poolVars, queueVars, Stakes>>
    BY <1>3 DEF add_worker, M!bind
  <2> QED BY <1>0, <2>1, StakeInvKept DEF Kept
<1>4. ASSUME NEW w \in Worker, remove_worker(pid, w) PROVE Kept
  <2>1. DetachWorker(pid, w)
    BY <1>4 DEF remove_worker
  <2> QED BY <1>0, <2>1, DetachPreserves DEF Kept
<1>5. ASSUME NEW w \in Worker, NEW stake \in StakeAmount, start_mining(pid, w, stake) PROVE Kept
  BY <1>0, <1>5, StartPreserves DEF Kept
<1>6. ASSUME NEW w \in Worker, stop_mining(pid, w) PROVE Kept
  BY <1>0, <1>6, StopPreserves DEF Kept
<1>7. ASSUME NEW w \in Worker, reclaim_pool_worker(pid, w) PROVE Kept
  BY <1>0, <1>7, ReclaimWorkerPreserves DEF Kept
<1> QED BY <1>1, <1>2, <1>3, <1>4, <1>5, <1>6, <1>7

\* The gatekeeper's messages, the end of blocks and the council keep the pools' invariant.
LEMMA ChainEventKeeps ==
    ASSUME PoolInv, ChainEvent
    PROVE  Kept
<1>0. StakeInv /\ MP!MiningInv /\ WorkedPools
  BY DEF PoolInv
<1>1. CASE \E offline, recovered, settled \in SUBSET Worker : \E settle \in [settled -> V] :
             on_gk_message_received(offline, recovered, settle)
  <2>1. UNCHANGED <<poolVars, queueVars, Stakes>>
    BY <1>1 DEF on_gk_message_received, M!on_gk_message_received
  <2> QED BY <1>0, <2>1, StakeInvKept DEF Kept
<1>2. CASE \E period \in CoolDowns : set_cool_down_expiration(period)
  <2>1. UNCHANGED <<poolVars, queueVars, Stakes>>
    BY <1>2 DEF set_cool_down_expiration, M!set_cool_down_expiration
  <2> QED BY <1>0, <2>1, StakeInvKept DEF Kept
<1>3. CASE \E enable \in Switch : set_mining_enable(enable)
  <2>1. UNCHANGED <<poolVars, queueVars, Stakes>>
    BY <1>3 DEF set_mining_enable, minerVars
  <2> QED BY <1>0, <2>1, StakeInvKept DEF Kept
<1>4. CASE EndBlock
  BY <1>0, <1>4, EndBlockPreserves DEF Kept
<1> QED BY <1>1, <1>2, <1>3, <1>4 DEF ChainEvent

\* A pool's list of workers grows by add_worker alone, which wants the pool to exist.
WorkersMove ==
    \/ UNCHANGED PoolWorkers
    \/ \E q \in Pid, w \in Worker : DetachWorker(q, w)
    \/ \E q \in Pid, w \in Worker : add_worker(q, w)

\* The calls of users add no worker.
LEMMA UserCallFrame == MiscTypes /\ UserCall => WorkersMove /\ MiscTypes'
<1> SUFFICES ASSUME MiscTypes, UserCall PROVE WorkersMove /\ MiscTypes'
  OBVIOUS
<1> USE DEF MiscTypes, miscVars, bindVars, WorkersMove
<1>1. PICK u \in User, pid \in Pid :
        \/ u \in PoolOwner /\ create(u, pid)
        \/ \E amount \in Contribution : contribute(u, pid, amount)
        \/ \E shares \in Demand \cup {PoolStakers[pid][u].shares} : withdraw(u, pid, shares)
        \/ reconcile_withdraw_queue(pid, u)
        \/ \E w \in Worker : unbind(u, pid, w)
  BY DEF UserCall
<1>2. CASE create(u, pid)
  BY <1>2 DEF create
<1>3. ASSUME NEW amount, contribute(u, pid, amount) PROVE WorkersMove /\ MiscTypes'
  BY <1>3 DEF contribute, Panic, Commit
<1>4. ASSUME NEW shares, withdraw(u, pid, shares) PROVE WorkersMove /\ MiscTypes'
  BY <1>4 DEF withdraw, Panic, Commit
<1>5. CASE reconcile_withdraw_queue(pid, u)
  BY <1>5, Zenon DEF reconcile_withdraw_queue
<1>6. ASSUME NEW w \in Worker, unbind(u, pid, w) PROVE WorkersMove /\ MiscTypes'
  <2>1. DetachWorker(pid, w)
    BY <1>6 DEF unbind
  <2> QED BY <2>1 DEF DetachWorker
<1> QED BY <1>1, <1>2, <1>3, <1>4, <1>5, <1>6

\* Of the calls of pool owners, add_worker alone adds one.
LEMMA PoolCallFrame == MiscTypes /\ PoolCall => WorkersMove /\ MiscTypes'
<1> SUFFICES ASSUME MiscTypes, PoolCall PROVE WorkersMove /\ MiscTypes'
  OBVIOUS
<1> USE DEF MiscTypes, miscVars, bindVars, WorkersMove
<1>1. PICK pid \in Pid :
        \/ \E cap \in Cap : set_cap(pid, cap)
        \/ \E w \in Worker :
              \/ add_worker(pid, w)
              \/ remove_worker(pid, w)
              \/ \E stake \in StakeAmount : start_mining(pid, w, stake)
              \/ stop_mining(pid, w)
              \/ reclaim_pool_worker(pid, w)
  BY DEF PoolCall
<1>2. ASSUME NEW cap, set_cap(pid, cap) PROVE WorkersMove /\ MiscTypes'
  BY <1>2 DEF set_cap
<1>3. ASSUME NEW w \in Worker, add_worker(pid, w) PROVE WorkersMove /\ MiscTypes'
  BY <1>3 DEF add_worker
<1>4. ASSUME NEW w \in Worker, remove_worker(pid, w) PROVE WorkersMove /\ MiscTypes'
  <2>1. DetachWorker(pid, w)
    BY <1>4 DEF remove_worker
  <2> QED BY <2>1 DEF DetachWorker
<1>5. ASSUME NEW w, NEW stake, start_mining(pid, w, stake) PROVE WorkersMove /\ MiscTypes'
  BY <1>5 DEF start_mining
<1>6. ASSUME NEW w, stop_mining(pid, w) PROVE WorkersMove /\ MiscTypes'
  BY <1>6 DEF stop_mining
<1>7. ASSUME NEW w, reclaim_pool_worker(pid, w) PROVE WorkersMove /\ MiscTypes'
  BY <1>7 DEF reclaim_pool_worker, Panic, Commit
<1> QED BY <1>1, <1>2, <1>3, <1>4, <1>5, <1>6, <1>7

\* Nor does what the chain does by itself.
LEMMA ChainEventFrame == MiscTypes /\ ChainEvent => WorkersMove /\ MiscTypes'
<1> SUFFICES ASSUME MiscTypes, ChainEvent PROVE WorkersMove /\ MiscTypes'
  OBVIOUS
<1> USE DEF MiscTypes, miscVars, bindVars, WorkersMove
<1>1. CASE \E offline, recovered, settled \in SUBSET Worker : \E settle \in [settled -> V] :
             on_gk_message_received(offline, recovered, settle)
  BY <1>1 DEF on_gk_message_received
<1>2. CASE \E period \in CoolDowns : set_cool_down_expiration(period)
  BY <1>2 DEF set_cool_down_expiration
<1>3. CASE \E enable \in Switch : set_mining_enable(enable)
  BY <1>3, StakePoolAssumption DEF set_mining_enable
<1>4. CASE EndBlock
  BY <1>4 DEF EndBlock
<1> QED BY <1>1, <1>2, <1>3, <1>4 DEF ChainEvent

\* A step of the whole.
LEMMA StepFrame == MiscTypes /\ (Next \/ UNCHANGED vars) => WorkersMove /\ MiscTypes'
<1>1. MiscTypes /\ UNCHANGED vars => WorkersMove /\ MiscTypes'
  BY DEF vars, MiscTypes, miscVars, bindVars, WorkersMove
<1> QED BY <1>1, UserCallFrame, PoolCallFrame, ChainEventFrame DEF Next

\* A pool's list of workers only ever gets a new member when the pool exists.
LEMMA WorkersOfPools ==
    ASSUME WorkedPools, BindTypes, WorkersMove, NEW pid \in Pid, PoolWorkers'[pid] # {}
    PROVE  Exists(pid)
<1>1. CASE PoolWorkers'[pid] \subseteq PoolWorkers[pid]
  BY <1>1 DEF WorkedPools
<1>2. CASE \E q \in Pid, w \in Worker : add_worker(q, w)
  <2>1. PICK q \in Pid, w \in Worker : add_worker(q, w)
    BY <1>2
  <2>2. Exists(q) /\ PoolWorkers' = [PoolWorkers EXCEPT ![q] = @ \cup {w}]
    BY <2>1 DEF add_worker
  <2> QED BY <2>2 DEF WorkedPools, BindTypes
<1>3. CASE \E q \in Pid, w \in Worker : DetachWorker(q, w)
  <2>1. PICK q \in Pid, w \in Worker : DetachWorker(q, w)
    BY <1>3
  <2>2. PoolWorkers' = [PoolWorkers EXCEPT ![WorkerAssignments[w]] = @ \ {w}]
    BY <2>1 DEF DetachWorker
  <2>3. PoolWorkers'[pid] \subseteq PoolWorkers[pid]
    BY <2>2 DEF BindTypes
  <2> QED BY <1>1, <2>3
<1>4. CASE UNCHANGED PoolWorkers
  BY <1>1, <1>4
<1> QED BY <1>2, <1>3, <1>4 DEF WorkersMove

\* Every step keeps the inductive invariant.
LEMMA PoolInvStep == PoolInv /\ [Next]_vars => PoolInv'
<1> SUFFICES ASSUME PoolInv, Next \/ UNCHANGED vars PROVE PoolInv'
  OBVIOUS
<1>1. MP!MiningInv'
  <2>1. CASE Next
    <3>1. M!Next \/ UNCHANGED M!vars
      BY <2>1, UserCallSteps, PoolCallSteps, ChainEventSteps DEF Next
    <3> QED BY <3>1, MiningStep DEF PoolInv
  <2>2. CASE UNCHANGED vars
    <3>1. UNCHANGED M!vars
      BY <2>2 DEF vars, minerVars, M!vars
    <3> QED BY <3>1, MiningStep DEF PoolInv
  <2> QED BY <2>1, <2>2
<1>2. BindInv'
  BY BindInvStep DEF PoolInv
<1>3. Kept
  <2>1. CASE UNCHANGED vars
    <3>1. UNCHANGED <<poolVars, queueVars, Stakes>>
      BY <2>1 DEF vars, minerVars
    <3> QED BY <3>1, StakeInvKept DEF PoolInv, Kept
  <2> QED BY <1>1, <2>1, UserCallKeeps, PoolCallKeeps, ChainEventKeeps DEF Next
<1>4. WorkedPools'
  BY <1>3, StepFrame, WorkersOfPools DEF Kept, WorkedPools, PoolInv, BindInv
<1>5. MiscTypes'
  BY StepFrame DEF PoolInv
<1> QED BY <1>1, <1>2, <1>3, <1>4, <1>5 DEF PoolInv, Kept

-----------------------------------------------------------------------------
(* Theorems *)

\* The inductive invariant holds in every reachable state, for any pools, workers and users.
THEOREM StakePoolInv == Spec => []PoolInv
  BY PoolInvInit, PoolInvStep, PTL DEF Spec

\* Every entry of the pallets' storage is of its type: no amount goes below zero, whatever the
\* rounding and the order of calls (stakepool.rs subtracts without a check in remove_stake and in
\* start_mining).
THEOREM StakePoolTypeCorrect == Spec => []TypeOK
<1>1. PoolInv => TypeOK
  <2> SUFFICES ASSUME PoolInv PROVE TypeOK
    OBVIOUS
  <2>1. M!TypeOK
    BY MiningFacts DEF PoolInv
  <2>2. StakePools \in [Pid -> PoolInfo \cup {None}] /\ PoolStakers \in [Pid -> [User -> UserStakeInfo]]
        /\ StakeLedger \in [User -> Nat] /\ FreeBalance \in [User -> Nat]
    BY DEF PoolInv, StakeInv, PoolsGood, UserTypes
  <2>3. WithdrawalTimestamps \in Seq(Age) /\ WithdrawalQueuedPools \in [Age -> SUBSET Pid]
    BY DEF PoolInv, StakeInv, QueueIndexed
  <2>4. PoolWorkers \in [Pid -> SUBSET Worker] /\ WorkerAssignments \in [Worker -> Pid \cup {None}]
        /\ SubAccountPreimages \subseteq Miner
    BY DEF PoolInv, BindInv, BindTypes
  <2> QED BY <2>1, <2>2, <2>3, <2>4 DEF TypeOK, PoolInv, MiscTypes
<1> QED BY <1>1, StakePoolInv, PTL

\* A pool's total_shares are always the sum of its stakers' shares: add_stake, remove_stake, the
\* loop over the queue and the dropped dust all move both.
THEOREM StakePoolShares == Spec => []SharesConserved
<1>1. PoolInv => SharesConserved
  <2> SUFFICES ASSUME PoolInv, NEW pid \in Pid, Exists(pid)
               PROVE  StakePools[pid].total_shares =
                        SumFunction([u \in User |-> PoolStakers[pid][u].shares])
    BY DEF SharesConserved, Pools
  <2>1. StakePools[pid].total_shares = SumFunctionOnSet(Shares(PoolStakers[pid]), User)
    BY DEF PoolInv, StakeInv, SharesOK, SharesMatch
  <2>2. DOMAIN Shares(PoolStakers[pid]) = User
    BY DEF Shares
  <2>3. SumFunction(Shares(PoolStakers[pid])) = SumFunctionOnSet(Shares(PoolStakers[pid]), User)
    BY <2>2, SumsAreSums
  <2> QED BY <2>1, <2>3 DEF Shares
<1> QED BY <1>1, StakePoolInv, PTL

\* The ledger of a user covers what the user has locked in all pools and the balance covers the
\* ledger, so that a slash of one pool is never paid from the lock of another.
THEOREM StakePoolLedger == Spec => []LedgerCovers
<1>1. PoolInv => LedgerCovers
  BY DEF PoolInv, StakeInv
<1> QED BY <1>1, StakePoolInv, PTL

\* A pool never owns more stake than it has free and in its workers' sessions, whatever was
\* slashed, returned or paid out in between.
THEOREM StakePoolBacked == Spec => []StakeBacked
<1>1. PoolInv => StakeBacked
  BY DEF PoolInv, StakeInv, PoolsGood, GoodPool, StakeBacked, Pools, Staked
<1> QED BY <1>1, StakePoolInv, PTL

\* A user never has two requests in a pool's queue, and no request is for dust.
THEOREM StakePoolRequests == Spec => []OneRequestPerUser
<1>1. PoolInv => OneRequestPerUser
  BY DEF PoolInv, StakeInv, PoolsGood, GoodPool, OneRequestPerUser, Pools, QueueFits, Queue
<1> QED BY <1>1, StakePoolInv, PTL

\* A request that is in grace is found by the sweep of the end of some block to come: the
\* index lists its pool at its age.
THEOREM StakePoolIndexed == Spec => []RequestsIndexed
<1>1. PoolInv => RequestsIndexed
  <2> SUFFICES ASSUME PoolInv PROVE RequestsIndexed
    OBVIOUS
  <2>1. QueueIndexed
    BY DEF PoolInv, StakeInv
  <2>2. ASSUME NEW pid \in Pools, NEW i \in DOMAIN Queue(pid), Queue(pid)[i].age <= GracePeriod
        PROVE  pid \in WithdrawalQueuedPools[Queue(pid)[i].age]
    <3>1. Ages(Queue(pid)) \subseteq Listed(pid)
      BY DEF PoolInv, StakeInv, PoolsGood, GoodPool, Pools, Queue
    <3>2. Queue(pid)[i].age \in Listed(pid)
      BY <3>1 DEF Ages
    <3> QED BY <2>2, <3>2 DEF Listed
  <2> QED BY <2>1, <2>2 DEF QueueIndexed, RequestsIndexed
<1> QED BY <1>1, StakePoolInv, PTL

\* A pool's stake never exceeds its cap: neither by contributions, nor by a cap set later.
THEOREM StakePoolCap == Spec => []CapRespected
<1>1. PoolInv => CapRespected
  BY DEF PoolInv, StakeInv, PoolsGood, GoodPool, CapRespected, Pools
<1> QED BY <1>1, StakePoolInv, PTL

-----------------------------------------------------------------------------
(* What the pools expect back *)

\* Stake is only in a session of a pool that is there.
SessionsOfPools == \A m \in Miner : Stakes[m] # None => Exists(m[1])

\* What every pool expects back is what its cooling miners will return.
Expected == \A pid \in Pid : Exists(pid) =>
                StakePools[pid].releasing_stake = Repayment(Cooling(pid))

\* What each sub-account returns, as a function to sum.
Returns == [m \in Miner |-> M!Returned(m)]

\* What a set of miners in session returns, as a sum over that function.
LEMMA RepaymentSum ==
    ASSUME MP!MiningInv, NEW S \in SUBSET Miner, \A m \in S : Stakes[m] # None
    PROVE  /\ IsFiniteSet(S) /\ \A m \in S : Returns[m] \in Nat
           /\ Repayment(S) = SumFunctionOnSet(Returns, S)
<1> DEFINE f == [m \in S |-> M!Returned(m)]
           g == Returns
<1>1. \A m \in S : f[m] \in Nat /\ f[m] = g[m]
  BY ReturnedNat DEF Returns
<1>2. IsFiniteSet(S)
  BY MinerFinite, FS_Subset
<1>3. DOMAIN f = S /\ Repayment(S) = SumFunction(f)
  BY DEF Repayment
<1> HIDE DEF f, g
<1>4. SumFunctionOnSet(f, S) = SumFunctionOnSet(g, S)
  BY <1>1, <1>2, SumSame
<1>5. SumFunction(f) = SumFunctionOnSet(f, S)
  BY <1>3, SumsAreSums
<1>6. \A m \in S : g[m] \in Nat
  BY <1>1
<1> QED BY <1>2, <1>3, <1>4, <1>5, <1>6 DEF g

\* What the cooling miners of a pool return, as a sum.
LEMMA CoolingSum ==
    MP!MiningInv => \A pid \in Pid :
       /\ Cooling(pid) \in SUBSET Miner /\ IsFiniteSet(Cooling(pid))
       /\ \A m \in Cooling(pid) : Returns[m] \in Nat
       /\ Repayment(Cooling(pid)) = SumFunctionOnSet(Returns, Cooling(pid))
<1> SUFFICES ASSUME MP!MiningInv, NEW pid \in Pid
             PROVE  /\ Cooling(pid) \in SUBSET Miner /\ IsFiniteSet(Cooling(pid))
                    /\ \A m \in Cooling(pid) : Returns[m] \in Nat
                    /\ Repayment(Cooling(pid)) = SumFunctionOnSet(Returns, Cooling(pid))
  OBVIOUS
<1> DEFINE S == Cooling(pid)
<1>1. S \in SUBSET Miner /\ \A m \in S : Stakes[m] # None
  BY DEF Cooling, InSession
<1> HIDE DEF S
<1>2. /\ IsFiniteSet(S) /\ \A m \in S : Returns[m] \in Nat
      /\ Repayment(S) = SumFunctionOnSet(Returns, S)
  BY <1>1, RepaymentSum
<1> QED BY <1>1, <1>2 DEF S

\* The same after a step.
LEMMA CoolingSumNext ==
    MP!MiningInv' => \A pid \in Pid :
       Repayment(Cooling(pid))' = SumFunctionOnSet(Returns', Cooling(pid)')
<1>1. (MP!MiningInv => \A pid \in Pid :
       /\ Cooling(pid) \in SUBSET Miner /\ IsFiniteSet(Cooling(pid))
       /\ \A m \in Cooling(pid) : Returns[m] \in Nat
       /\ Repayment(Cooling(pid)) = SumFunctionOnSet(Returns, Cooling(pid)))'
  BY CoolingSum, PTL
<1> QED BY <1>1

\* A miner whose stake and V stay returns the same.
LEMMA SameReturn ==
    ASSUME NEW m \in Miner, Stakes'[m] = Stakes[m], Miners'[m].v = Miners[m].v
    PROVE  Returns'[m] = Returns[m]
  BY DEF Returns, M!Returned, M!bmul, M!to_fixed, M!from_fixed, M!Lesser

\* The same cooling miners, each of which returns the same.
LEMMA SameRepayment ==
    ASSUME MP!MiningInv, MP!MiningInv', NEW pid \in Pid, Cooling(pid)' = Cooling(pid),
           \A m \in Cooling(pid) : Returns'[m] = Returns[m]
    PROVE  Repayment(Cooling(pid))' = Repayment(Cooling(pid))
<1> DEFINE S == Cooling(pid)
<1>1. S \in SUBSET Miner /\ IsFiniteSet(S) /\ (\A m \in S : Returns[m] \in Nat)
      /\ Repayment(S) = SumFunctionOnSet(Returns, S)
  BY CoolingSum
<1>2. Repayment(Cooling(pid))' = SumFunctionOnSet(Returns', S)
  BY CoolingSumNext
<1> HIDE DEF S
<1>3. \A m \in S : Returns[m] \in Int /\ Returns[m] = Returns'[m]
  BY <1>1 DEF S
<1>4. SumFunctionOnSet(Returns, S) = SumFunctionOnSet(Returns', S)
  BY <1>1, <1>3, SumSame
<1>5. Repayment(Cooling(pid))' = Repayment(S)
  BY <1>1, <1>2, <1>4
<1> QED BY <1>5 DEF S

\* Steps that stop the miners in "stopped": what they return is added to what is expected.
LEMMA ExpectedStopped ==
    ASSUME MP!MiningInv, MP!MiningInv', Expected, NEW stopped \in SUBSET Miner,
           \A m \in stopped : M!is_mining(m),
           \A q \in Pid : Exists(q)' => Exists(q),
           \A q \in Pid : Exists(q) => \E p :
                /\ p.releasing_stake = StakePools[q].releasing_stake
                /\ StakePools'[q] = Expecting(p, q, stopped),
           Stakes' = Stakes,
           \A m \in Miner : /\ Miners'[m].v = Miners[m].v
                            /\ Miners'[m].state = "MiningCoolingDown"
                                 <=> Miners[m].state = "MiningCoolingDown" \/ m \in stopped
    PROVE  Expected'
<1> SUFFICES ASSUME NEW q \in Pid, Exists(q)'
             PROVE  StakePools'[q].releasing_stake = Repayment(Cooling(q))'
  BY DEF Expected
<1> DEFINE S == Cooling(q)
           R == {m \in stopped : m[1] = q}
           r == StakePools[q].releasing_stake
<1>1. \A m \in stopped : Stakes[m] # None /\ Miners[m].state # "MiningCoolingDown"
  BY MiningFacts DEF M!is_mining
<1>2. Cooling(q)' = S \cup R /\ S \cap R = {}
  BY <1>1 DEF Cooling, InSession
<1>3. S \in SUBSET Miner /\ IsFiniteSet(S) /\ (\A m \in S : Returns[m] \in Nat)
      /\ Repayment(S) = SumFunctionOnSet(Returns, S) /\ r = Repayment(S)
  BY CoolingSum DEF Expected
<1>4. IsFiniteSet(R) /\ (\A m \in R : Returns[m] \in Nat)
      /\ Repayment(R) = SumFunctionOnSet(Returns, R)
  <2>1. R \in SUBSET Miner /\ \A m \in R : Stakes[m] # None
    BY <1>1
  <2> HIDE DEF R
  <2> QED BY <2>1, RepaymentSum
<1>5. StakePools'[q].releasing_stake = r + Repayment(R)
  <2>1. PICK p : /\ p.releasing_stake = StakePools[q].releasing_stake
                 /\ StakePools'[q] = Expecting(p, q, stopped)
    OBVIOUS
  <2>2. CASE R = {}
    <3>1. StakePools'[q].releasing_stake = r
      BY <2>1, <2>2 DEF Expecting
    <3>2. Repayment(R) = 0
      BY <1>4, <2>2, SumEmpty
    <3>3. r \in Nat
      <4>1. SumFunctionOnSet(Returns, S) \in Nat
        BY <1>3, SumNat
      <4> QED BY <1>3, <4>1
    <3> HIDE DEF R, r
    <3> QED BY <3>1, <3>2, <3>3
  <2>3. CASE R # {}
    <3>1. StakePools'[q] = WithReleasing(p, p.releasing_stake + Repayment(R))
      BY <2>1, <2>3 DEF Expecting
    <3> QED BY <2>1, <3>1 DEF WithReleasing
  <2> QED BY <2>2, <2>3
<1>6. \A m \in S \cup R : m \in Miner /\ Returns[m] \in Int
  BY <1>3, <1>4
<1> HIDE DEF S, R, r
<1>7. SumFunctionOnSet(Returns, S \cup R)
        = SumFunctionOnSet(Returns, S) + SumFunctionOnSet(Returns, R)
  BY <1>2, <1>3, <1>4, <1>6, SumUnion
<1>8. SumFunctionOnSet(Returns, S \cup R) = SumFunctionOnSet(Returns', S \cup R)
  <2>1. \A m \in S \cup R : Returns[m] \in Int /\ Returns[m] = Returns'[m]
    BY <1>6, SameReturn
  <2>2. IsFiniteSet(S \cup R)
    BY <1>3, <1>4, FS_Union
  <2> DEFINE T == S \cup R
  <2> HIDE DEF T
  <2>3. (\A m \in T : Returns[m] \in Int /\ Returns[m] = Returns'[m]) /\ IsFiniteSet(T)
    BY <2>1, <2>2 DEF T
  <2>4. SumFunctionOnSet(Returns, T) = SumFunctionOnSet(Returns', T)
    BY <2>3, SumSame
  <2> QED BY <2>4 DEF T
<1>9. Repayment(Cooling(q))' = SumFunctionOnSet(Returns', S \cup R)
  BY <1>2, CoolingSumNext
<1> QED BY <1>3, <1>4, <1>5, <1>7, <1>8, <1>9

\* A reclaim takes what it returns off what is expected.
LEMMA ExpectedReturned ==
    ASSUME MP!MiningInv, MP!MiningInv', Expected, NEW pid \in Pid, NEW w \in Worker, Exists(pid),
           ReturnsExpected(pid, w)
    PROVE  \A q \in Pid : Exists(q) => StakePools'[q].releasing_stake = Repayment(Cooling(q))'
<1> SUFFICES ASSUME NEW q \in Pid, Exists(q)
             PROVE  StakePools'[q].releasing_stake = Repayment(Cooling(q))'
  OBVIOUS
<1> DEFINE m == <<pid, w>>
<1>1. /\ m \in Miner /\ m[1] = pid /\ Miners[m].state = "MiningCoolingDown"
      /\ Miners' = [Miners EXCEPT ![m] = [state |-> "Ready", v |-> @.v, cooled |-> M!MaxCoolDown]]
      /\ Stakes' = [Stakes EXCEPT ![m] = None] /\ Stakes[m] # None
  <2>1. m \in Miner
    BY MinerPairs
  <2> QED BY <2>1, MiningFacts DEF ReturnsExpected, M!reclaim, M!can_reclaim
<1>2. Miners \in [Miner -> M!MinerInfo] /\ DOMAIN Stakes = Miner
  BY MiningFacts DEF M!TypeOK
<1>3. \A x \in Miner \ {m} : Miners'[x] = Miners[x] /\ Stakes'[x] = Stakes[x]
  BY <1>1, <1>2
<1>4. Stakes'[m] = None
  BY <1>1, <1>2
<1>5. \A x \in Miner \ {m} : Returns'[x] = Returns[x]
  BY <1>3, SameReturn
<1> HIDE DEF m
<1>6. CASE q # pid
  <2>1. Cooling(q)' = Cooling(q) /\ m \notin Cooling(q)
    BY <1>1, <1>3, <1>4, <1>6 DEF Cooling, InSession
  <2>2. \A x \in Cooling(q) : Returns'[x] = Returns[x]
    BY <1>5, <2>1 DEF Cooling, InSession
  <2>3. Repayment(Cooling(q))' = Repayment(Cooling(q))
    BY <2>1, <2>2, SameRepayment
  <2> QED BY <1>6, <2>3 DEF Expected, ReturnsExpected
<1>7. CASE q = pid
  <2> DEFINE S == Cooling(pid)
             T == S \ {m}
  <2>1. Cooling(pid)' = T /\ m \in S
    BY <1>1, <1>3, <1>4 DEF Cooling, InSession
  <2>2. IsFiniteSet(S) /\ (\A x \in S : x \in Miner /\ Returns[x] \in Nat)
        /\ StakePools[pid].releasing_stake = SumFunctionOnSet(Returns, S)
    BY CoolingSum DEF Expected
  <2>3. Repayment(Cooling(pid))' = SumFunctionOnSet(Returns', T)
    BY <2>1, CoolingSumNext
  <2>4. StakePools'[pid].releasing_stake
          = SaturatingSub(StakePools[pid].releasing_stake, Returns[m])
    BY <1>1 DEF ReturnsExpected, Returns, m
  <2> HIDE DEF S
  <2>5. SumFunctionOnSet(Returns, S) = Returns[m] + SumFunctionOnSet(Returns, T)
    BY <2>1, <2>2, SumElement
  <2>6. IsFiniteSet(T) /\ \A x \in T : Returns[x] \in Nat /\ Returns[x] = Returns'[x]
    BY <1>5, <2>2, FS_Subset
  <2> HIDE DEF T
  <2>7. SumFunctionOnSet(Returns, T) \in Nat
    BY <2>6, SumNat
  <2>8. SumFunctionOnSet(Returns, T) = SumFunctionOnSet(Returns', T)
    BY <2>6, SumSame
  <2>9. PICK a \in Nat, b \in Nat : a = Returns[m] /\ b = SumFunctionOnSet(Returns, T)
    BY <2>1, <2>2, <2>7
  <2>10. SaturatingSub(a + b, a) = b
    BY DEF SaturatingSub
  <2> QED BY <1>7, <2>2, <2>3, <2>4, <2>5, <2>8, <2>9, <2>10
<1> QED BY <1>6, <1>7

\* Sessions are of pools that exist, and these expect exactly what their cooling miners return.
ReleasingInv == SessionsOfPools /\ Expected

\* No pool expects other stake, and no cooling miner comes, goes or returns other stake.
Quiet ==
    /\ SameReleasing
    /\ \A m \in Miner : /\ Stakes'[m] # None /\ Miners'[m].state = "MiningCoolingDown"
                             <=> Stakes[m] # None /\ Miners[m].state = "MiningCoolingDown"
                        /\ Miners[m].state = "MiningCoolingDown" =>
                             Stakes'[m] = Stakes[m] /\ Miners'[m].v = Miners[m].v

\* A step that touches no miner and no expectation.
LEMMA UnchangedIsQuiet == SameReleasing /\ UNCHANGED <<Miners, Stakes>> => Quiet
  BY DEF Quiet

\* A step that touches no pool.
LEMMA UnchangedReleasing == UNCHANGED StakePools => SameReleasing
  BY DEF SameReleasing

\* The exact amount that an existing pool expects, also of the pools that are created.
LEMMA QuietKeeps ==
    ASSUME MP!MiningInv, MP!MiningInv', ReleasingInv, Quiet,
           \A q \in Pid : Exists(q) => Exists(q)',
           \A q \in Pid : ~Exists(q) /\ Exists(q)' => StakePools'[q].releasing_stake = 0,
           \A m \in Miner : Stakes'[m] # None => Stakes[m] # None \/ Exists(m[1])
    PROVE  ReleasingInv'
<1>1. SessionsOfPools'
  BY MinerPairs DEF SessionsOfPools, ReleasingInv
<1>2. ASSUME NEW q \in Pid, Exists(q)' PROVE StakePools'[q].releasing_stake = Repayment(Cooling(q))'
  <2>1. Cooling(q)' = Cooling(q)
    BY DEF Cooling, InSession, Quiet
  <2>2. \A m \in Cooling(q) : Returns'[m] = Returns[m]
    BY SameReturn DEF Cooling, InSession, Quiet
  <2>3. Repayment(Cooling(q))' = Repayment(Cooling(q))
    BY <2>1, <2>2, SameRepayment
  <2>4. CASE Exists(q)
    BY <2>3, <2>4 DEF Expected, ReleasingInv, Quiet, SameReleasing
  <2>5. CASE ~Exists(q)
    <3>1. Cooling(q) = {}
      BY <2>5 DEF Cooling, InSession, SessionsOfPools, ReleasingInv
    <3>2. Repayment({}) = 0
      <4>1. Repayment({}) = SumFunctionOnSet(Returns, {})
        BY RepaymentSum
      <4> QED BY <4>1, SumEmpty
    <3> QED BY <1>2, <2>3, <2>5, <3>1, <3>2
  <2> QED BY <2>4, <2>5
<1> QED BY <1>1, <1>2 DEF ReleasingInv, Expected

-----------------------------------------------------------------------------
(* What the calls do to it *)

\* A write to one pool.
LEMMA OtherPoolsStay ==
    ASSUME StakeInv, NEW pid \in Pid, NEW r, StakePools' = [StakePools EXCEPT ![pid] = r]
    PROVE  /\ StakePools'[pid] = r
           /\ \A q \in Pid \ {pid} : StakePools'[q] = StakePools[q] /\ (Exists(q)' <=> Exists(q))
  BY DEF StakeInv, PoolsGood, Exists

\* A quiet call that writes one existing pool.
LEMMA QuietWrite ==
    ASSUME PoolInv, PoolInv', ReleasingInv, NEW pid \in Pid, Exists(pid), NEW r,
           StakePools' = [StakePools EXCEPT ![pid] = r], Quiet,
           \A q \in Pid : Exists(q) => Exists(q)',
           \A m \in Miner : Stakes'[m] # None => Stakes[m] # None \/ Exists(m[1])
    PROVE  ReleasingInv'
<1>1. \A q \in Pid : ~Exists(q) => ~Exists(q)'
  BY OtherPoolsStay DEF PoolInv
<1> QED BY <1>1, QuietKeeps DEF PoolInv

\* A quiet call that writes no pool.
LEMMA QuietUnwritten ==
    ASSUME PoolInv, PoolInv', ReleasingInv, StakePools' = StakePools, Quiet,
           \A m \in Miner : Stakes'[m] # None => Stakes[m] # None
    PROVE  ReleasingInv'
<1>1. \A q \in Pid : Exists(q) <=> Exists(q)'
  BY DEF Exists
<1> QED BY <1>1, QuietKeeps DEF PoolInv

\* A call that panics is rolled back.
LEMMA PanicReleasing ==
    ASSUME PoolInv, PoolInv', ReleasingInv, Panic
    PROVE  ReleasingInv'
<1>1. UNCHANGED <<StakePools, Miners, Stakes>>
  BY DEF Panic, poolVars, minerVars
<1> QED BY <1>1, UnchangedIsQuiet, UnchangedReleasing, QuietUnwritten

\* A new pool expects nothing and has no sessions.
LEMMA CreateReleasing ==
    ASSUME PoolInv, PoolInv', Kept, ReleasingInv, NEW owner, NEW pid \in Pid, create(owner, pid)
    PROVE  ReleasingInv'
<1>1. /\ ~Exists(pid) /\ StakePools' = [StakePools EXCEPT ![pid] = EmptyPool(owner)]
      /\ UNCHANGED <<Miners, Stakes>>
  BY DEF create, minerVars
<1>2. /\ StakePools'[pid] = EmptyPool(owner)
      /\ \A q \in Pid \ {pid} : StakePools'[q] = StakePools[q] /\ (Exists(q)' <=> Exists(q))
  BY <1>1, OtherPoolsStay DEF PoolInv
<1>3. Quiet
  <2>1. SameReleasing
    BY <1>1, <1>2 DEF SameReleasing
  <2> QED BY <1>1, <2>1, UnchangedIsQuiet
<1>4. \A q \in Pid : ~Exists(q) /\ Exists(q)' => StakePools'[q].releasing_stake = 0
  BY <1>2 DEF EmptyPool
<1> QED BY <1>1, <1>3, <1>4, QuietKeeps DEF PoolInv, Kept

\* contribute stops no miner.
LEMMA ContributeReleasing ==
    ASSUME PoolInv, PoolInv', Kept, ReleasingInv, NEW pid \in Pid, NEW u \in User,
           NEW amount \in Contribution, contribute(u, pid, amount)
    PROVE  ReleasingInv'
<1>1. SameReleasing
  BY ContributePreserves DEF PoolInv
<1>2. CASE Panic
  BY <1>2, PanicReleasing
<1>3. ASSUME NEW c, Commit(pid, c), UNCHANGED minerVars PROVE ReleasingInv'
  <2>1. Exists(pid) /\ StakePools' = [StakePools EXCEPT ![pid] = c.p] /\ UNCHANGED <<Miners, Stakes>>
    BY <1>3 DEF contribute, Commit, minerVars
  <2> QED BY <1>1, <2>1, UnchangedIsQuiet, QuietWrite DEF Kept
<1> QED BY <1>2, <1>3 DEF contribute

\* withdraw stops no miner; when a pool waits for stake it is the end of the block that does.
LEMMA WithdrawReleasing ==
    ASSUME PoolInv, PoolInv', Kept, ReleasingInv, NEW pid \in Pid, NEW u \in User,
           NEW shares \in Demand \cup {PoolStakers[pid][u].shares}, withdraw(u, pid, shares)
    PROVE  ReleasingInv'
<1>1. SameReleasing
  BY WithdrawPreserves DEF PoolInv
<1>2. CASE Panic
  BY <1>2, PanicReleasing
<1>3. ASSUME NEW c, Commit(pid, c), UNCHANGED minerVars PROVE ReleasingInv'
  <2>1. Exists(pid) /\ StakePools' = [StakePools EXCEPT ![pid] = c.p] /\ UNCHANGED <<Miners, Stakes>>
    BY <1>3 DEF withdraw, Commit, minerVars
  <2> QED BY <1>1, <2>1, UnchangedIsQuiet, QuietWrite DEF Kept
<1> QED BY <1>2, <1>3 DEF withdraw

\* A pool's record is replaced by one that expects the same.
LEMMA WriteReleasing ==
    ASSUME PoolInv, PoolInv', Kept, ReleasingInv, NEW pid \in Pid, Exists(pid), NEW r,
           r.releasing_stake = StakePools[pid].releasing_stake,
           StakePools' = [StakePools EXCEPT ![pid] = r], UNCHANGED <<Miners, Stakes>>
    PROVE  ReleasingInv'
<1>1. SameReleasing
  BY OtherPoolsStay DEF PoolInv, SameReleasing
<1> QED BY <1>1, UnchangedIsQuiet, QuietWrite DEF Kept

\* The repair of a request leaves what the pool expects.
LEMMA ReconcileReleasing ==
    ASSUME PoolInv, PoolInv', Kept, ReleasingInv, NEW pid \in Pid, NEW u,
           reconcile_withdraw_queue(pid, u)
    PROVE  ReleasingInv'
<1>1. PICK queue : Exists(pid) /\ StakePools' = [StakePools EXCEPT ![pid] = WithQueue(StakePools[pid], queue)]
                   /\ UNCHANGED <<Miners, Stakes>>
  BY Zenon DEF reconcile_withdraw_queue, minerVars
<1>2. WithQueue(StakePools[pid], queue).releasing_stake = StakePools[pid].releasing_stake
  BY DEF WithQueue
<1> QED BY <1>1, <1>2, WriteReleasing

\* So does a new cap.
LEMMA SetCapReleasing ==
    ASSUME PoolInv, PoolInv', Kept, ReleasingInv, NEW pid \in Pid, NEW cap, set_cap(pid, cap)
    PROVE  ReleasingInv'
<1>1. Exists(pid) /\ StakePools' = [StakePools EXCEPT ![pid] = WithCap(StakePools[pid], cap)]
      /\ UNCHANGED <<Miners, Stakes>>
  BY DEF set_cap, minerVars
<1>2. WithCap(StakePools[pid], cap).releasing_stake = StakePools[pid].releasing_stake
  BY DEF WithCap
<1> QED BY <1>1, <1>2, WriteReleasing

\* A miner that starts is not cooling, and was not before.
LEMMA StartReleasing ==
    ASSUME PoolInv, PoolInv', Kept, ReleasingInv, NEW pid \in Pid, NEW w \in Worker, NEW stake,
           start_mining(pid, w, stake)
    PROVE  ReleasingInv'
<1> DEFINE m == <<pid, w>>
           p == StakePools[pid]
           r == WithStake(p, p.total_shares, p.total_stake, p.free_stake - stake)
<1>1. /\ Exists(pid) /\ StakePools' = [StakePools EXCEPT ![pid] = r]
      /\ Stakes[m] = None /\ Miners[m].state = "Ready" /\ Stakes' = [Stakes EXCEPT ![m] = stake]
      /\ Miners' = [Miners EXCEPT ![m] = [state |-> "MiningIdle", v |-> VE, cooled |-> @.cooled]]
  BY DEF start_mining, M!start_mining
<1>2. r.releasing_stake = p.releasing_stake
  BY DEF WithStake
<1>3. m \in Miner /\ m[1] = pid /\ DOMAIN Miners = Miner /\ DOMAIN Stakes = Miner
  BY MinerPairs, MiningFacts DEF PoolInv, M!TypeOK
<1> HIDE DEF r, m
<1>4. \A x \in Miner \ {m} : Miners'[x] = Miners[x] /\ Stakes'[x] = Stakes[x]
  BY <1>1, <1>3
<1>5. Miners'[m].state = "MiningIdle"
  BY <1>1, <1>3
<1>6. SameReleasing
  BY <1>1, <1>2, OtherPoolsStay DEF PoolInv, SameReleasing
<1>7. Quiet
  BY <1>1, <1>4, <1>5, <1>6 DEF Quiet
<1>8. \A x \in Miner : Stakes'[x] # None => Stakes[x] # None \/ Exists(x[1])
  BY <1>1, <1>3, <1>4
<1> QED BY <1>1, <1>7, <1>8, QuietWrite DEF Kept

\* A worker that joins has no session yet.
LEMMA AddWorkerReleasing ==
    ASSUME PoolInv, PoolInv', Kept, ReleasingInv, NEW pid \in Pid, NEW w \in Worker,
           add_worker(pid, w)
    PROVE  ReleasingInv'
<1> DEFINE m == <<pid, w>>
<1>1. /\ StakePools' = StakePools /\ Stakes' = Stakes /\ Miners[m].state \in {"None", "Ready"}
      /\ Miners' = [Miners EXCEPT ![m] = [state |-> "Ready", v |-> 0, cooled |-> M!MaxCoolDown]]
  BY DEF add_worker, M!bind, poolVars
<1>2. m \in Miner /\ DOMAIN Miners = Miner
  BY MinerPairs, MiningFacts DEF PoolInv, M!TypeOK
<1> HIDE DEF m
<1>3. (\A x \in Miner \ {m} : Miners'[x] = Miners[x]) /\ Miners'[m].state = "Ready"
  BY <1>1, <1>2
<1>4. Quiet
  BY <1>1, <1>3, UnchangedReleasing DEF Quiet
<1> QED BY <1>1, <1>4, QuietUnwritten

\* A message of a gatekeeper in step with the chain changes no cooling miner's V.
LEMMA GkReleasing ==
    ASSUME PoolInv, PoolInv', Kept, ReleasingInv, GkInSync, NEW offline, NEW recovered, NEW settle,
           on_gk_message_received(offline, recovered, settle)
    PROVE  ReleasingInv'
<1>1. /\ \A m \in Miner : M!Hits(DOMAIN settle, m) => M!is_mining(m)
      /\ Miners' = [m \in Miner |-> [state |-> M!StateAfter(m, offline, recovered),
                                     v |-> M!VAfter(m, settle), cooled |-> Miners[m].cooled]]
      /\ UNCHANGED <<StakePools, Stakes>>
  BY DEF on_gk_message_received, M!on_gk_message_received, M!can_settle, poolVars
<1>2. \A m \in Miner : Miners'[m].state = "MiningCoolingDown" <=> Miners[m].state = "MiningCoolingDown"
  BY <1>1 DEF M!StateAfter, M!is_mining
<1>3. \A m \in Miner : Miners[m].state = "MiningCoolingDown" => Miners'[m].v = Miners[m].v
  BY <1>1 DEF M!VAfter, M!is_mining
<1>4. Quiet
  BY <1>1, <1>2, <1>3, UnchangedReleasing DEF Quiet
<1> QED BY <1>1, <1>4, QuietUnwritten

\* Steps that stop miners keep what the pools expect exact.
LEMMA StoppedReleasing ==
    ASSUME PoolInv, PoolInv', Kept, ReleasingInv, NEW stopped \in SUBSET Miner,
           \A m \in stopped : M!is_mining(m),
           \A q \in Pid : Exists(q)' => Exists(q),
           \A q \in Pid : Exists(q) => \E p :
                /\ p.releasing_stake = StakePools[q].releasing_stake
                /\ StakePools'[q] = Expecting(p, q, stopped),
           Stakes' = Stakes,
           \A m \in Miner : /\ Miners'[m].v = Miners[m].v
                            /\ Miners'[m].state = "MiningCoolingDown"
                                 <=> Miners[m].state = "MiningCoolingDown" \/ m \in stopped
    PROVE  ReleasingInv'
<1>1. Expected'
  BY ExpectedStopped DEF ReleasingInv, PoolInv
<1>2. SessionsOfPools'
  BY MinerPairs DEF SessionsOfPools, ReleasingInv, Kept
<1> QED BY <1>1, <1>2 DEF ReleasingInv

\* A pool that is not there does not appear when workers are stopped.
LEMMA NoPoolAppears ==
    ASSUME PoolInv, NEW stopped \in SUBSET Miner, \A m \in stopped : Exists(m[1]),
           NEW q \in Pid, StakePools'[q] = Expecting(StakePools[q], q, stopped)
    PROVE  Exists(q)' => Exists(q)
  BY DEF Expecting, Exists

\* The same when the record is otherwise unchanged.
LEMMA OnStoppedReleasing ==
    ASSUME PoolInv, PoolInv', Kept, ReleasingInv, NEW stopped \in SUBSET Miner,
           \A m \in stopped : M!is_mining(m), on_stopped(stopped), Stakes' = Stakes,
           \A m \in stopped : Miners'[m] = M!Stopped(Miners[m]),
           \A m \in Miner \ stopped : Miners'[m] = Miners[m]
    PROVE  ReleasingInv'
<1>1. \A q \in Pid : StakePools'[q] = Expecting(StakePools[q], q, stopped)
  BY DEF on_stopped
<1>2. \A m \in stopped : Exists(m[1])
  BY MiningFacts DEF SessionsOfPools, ReleasingInv, PoolInv
<1>3. \A q \in Pid : Exists(q)' => Exists(q)
  BY <1>1, <1>2, NoPoolAppears
<1>4. \A m \in Miner : /\ Miners'[m].v = Miners[m].v
                       /\ Miners'[m].state = "MiningCoolingDown"
                             <=> Miners[m].state = "MiningCoolingDown" \/ m \in stopped
  <2> SUFFICES ASSUME NEW m \in Miner
               PROVE  /\ Miners'[m].v = Miners[m].v
                      /\ Miners'[m].state = "MiningCoolingDown"
                            <=> Miners[m].state = "MiningCoolingDown" \/ m \in stopped
    OBVIOUS
  <2>1. CASE m \in stopped
    <3>1. Miners'[m] = M!Stopped(Miners[m])
      BY <2>1
    <3> QED BY <2>1, <3>1 DEF M!Stopped
  <2>2. CASE m \notin stopped
    <3>1. Miners'[m] = Miners[m]
      BY <2>2
    <3> QED BY <2>2, <3>1
  <2> QED BY <2>1, <2>2
<1> QED BY <1>1, <1>3, <1>4, StoppedReleasing

\* A worker that leaves its pool while it mines is stopped and expected back.
LEMMA DetachReleasing ==
    ASSUME PoolInv, PoolInv', Kept, ReleasingInv, NEW pid \in Pid, NEW w \in Worker,
           DetachWorker(pid, w)
    PROVE  ReleasingInv'
<1> DEFINE m == <<pid, w>>
           stopped == {m} \cap M!MiningMiners
<1>1. /\ on_stopped(stopped) /\ Stakes' = Stakes
      /\ \/ M!is_mining(m) /\ Miners' = [Miners EXCEPT ![m] = M!Stopped(Miners[m])]
         \/ ~M!is_mining(m) /\ Miners' = Miners
  BY DEF DetachWorker, M!unbind_miner
<1>2. m \in Miner /\ DOMAIN Miners = Miner
  BY MinerPairs, MiningFacts DEF PoolInv, M!TypeOK
<1>3. stopped = IF M!is_mining(m) THEN {m} ELSE {}
  BY <1>2 DEF M!MiningMiners
<1> HIDE DEF stopped, m
<1>4. /\ \A x \in stopped : M!is_mining(x) /\ Miners'[x] = M!Stopped(Miners[x])
      /\ \A x \in Miner \ stopped : Miners'[x] = Miners[x]
      /\ stopped \in SUBSET Miner
  BY <1>1, <1>2, <1>3
<1> QED BY <1>1, <1>4, OnStoppedReleasing

\* stop_mining: the pool is told of the one miner.
LEMMA StopReleasing ==
    ASSUME PoolInv, PoolInv', Kept, ReleasingInv, NEW pid \in Pid, NEW w \in Worker,
           stop_mining(pid, w)
    PROVE  ReleasingInv'
<1> DEFINE m == <<pid, w>>
<1>1. /\ on_stopped({m}) /\ Stakes' = Stakes /\ M!is_mining(m)
      /\ Miners' = [Miners EXCEPT ![m] = M!Stopped(Miners[m])]
  BY DEF stop_mining, M!stop_mining
<1>2. m \in Miner /\ DOMAIN Miners = Miner
  BY MinerPairs, MiningFacts DEF PoolInv, M!TypeOK
<1> HIDE DEF m
<1>3. /\ \A x \in {m} : M!is_mining(x) /\ Miners'[x] = M!Stopped(Miners[x])
      /\ \A x \in Miner \ {m} : Miners'[x] = Miners[x]
      /\ {m} \in SUBSET Miner
  BY <1>1, <1>2
<1> QED BY <1>1, <1>3, OnStoppedReleasing

\* The end of a block stops the workers of every pool out of grace, and tells the pools of the
\* ones that were mining, once.
LEMMA EndBlockReleasing ==
    ASSUME PoolInv, PoolInv', Kept, ReleasingInv, EndBlock
    PROVE  ReleasingInv'
<1> DEFINE stopping == {m \in Miner : m[1] \in ForcedPools /\ m[2] \in PoolWorkers[m[1]]}
           stopped == stopping \cap M!MiningMiners
           down == {m \in stopping : MinerBindings[m] # None /\ M!is_mining(m)}
<1>1. /\ StakePools' = PoolsAfterBlock(stopped) /\ Stakes' = Stakes
      /\ Miners' = [m \in Miner |->
                        M!Aged(IF m \in down THEN M!Stopped(Miners[m]) ELSE Miners[m])]
  BY DEF EndBlock, M!EndBlock
<1>2. stopped \in SUBSET Miner /\ stopped = down /\ \A m \in stopped : M!is_mining(m)
  BY MiningFacts DEF PoolInv, M!MiningMiners
<1> HIDE DEF stopped, down
<1>3. \A q \in Pid : StakePools'[q] = Expecting(AgedPool(StakePools[q]), q, stopped)
  BY <1>1 DEF PoolsAfterBlock
<1>4. \A m \in stopped : Exists(m[1])
  BY <1>2, MiningFacts DEF SessionsOfPools, ReleasingInv, PoolInv
<1>5. \A q \in Pid : Exists(q)' => Exists(q)
  <2> SUFFICES ASSUME NEW q \in Pid, ~Exists(q) PROVE ~Exists(q)'
    OBVIOUS
  <2>1. StakePools[q] = None /\ AgedPool(StakePools[q]) = None
    BY DEF Exists, AgedPool
  <2>2. {m \in stopped : m[1] = q} = {}
    BY <1>4
  <2> QED BY <1>3, <2>1, <2>2 DEF Expecting, Exists
<1>6. \A q \in Pid : Exists(q) =>
         AgedPool(StakePools[q]).releasing_stake = StakePools[q].releasing_stake
  BY DEF AgedPool, WithQueue, Exists
<1>7. \A m \in Miner : /\ Miners'[m].v = Miners[m].v
                       /\ Miners'[m].state = "MiningCoolingDown"
                             <=> Miners[m].state = "MiningCoolingDown" \/ m \in stopped
  BY <1>1, <1>2 DEF M!Stopped, M!Aged
<1> QED BY <1>1, <1>2, <1>3, <1>5, <1>6, <1>7, StoppedReleasing

\* A reclaim returns what was expected of the miner, and the miner stops cooling.
LEMMA ReclaimReleasing ==
    ASSUME PoolInv, PoolInv', Kept, ReleasingInv, NEW pid \in Pid, NEW w \in Worker,
           reclaim_pool_worker(pid, w)
    PROVE  ReleasingInv'
<1>1. Exists(pid) /\ (Panic \/ ReturnsExpected(pid, w))
  BY ReclaimWorkerPreserves DEF reclaim_pool_worker, PoolInv
<1>2. CASE Panic
  BY <1>2, PanicReleasing
<1>3. CASE ReturnsExpected(pid, w)
  <2>1. \A q \in Pid : Exists(q) => StakePools'[q].releasing_stake = Repayment(Cooling(q))'
    BY <1>1, <1>3, ExpectedReturned DEF PoolInv, ReleasingInv
  <2>2. \A q \in Pid : Exists(q)' => Exists(q)
    BY <1>1, <1>3 DEF ReturnsExpected, Exists
  <2>3. Stakes' = [Stakes EXCEPT ![<<pid, w>>] = None] /\ DOMAIN Stakes = Miner
    BY <1>3, MiningFacts DEF ReturnsExpected, M!reclaim, PoolInv, M!TypeOK
  <2>4. SessionsOfPools'
    BY <2>3, MinerPairs DEF SessionsOfPools, ReleasingInv, Kept
  <2> QED BY <2>1, <2>2, <2>4 DEF ReleasingInv, Expected
<1> QED BY <1>1, <1>2, <1>3

\* There are no sessions at first.
LEMMA ReleasingInit == Init => ReleasingInv
  BY DEF Init, M!Init, ReleasingInv, SessionsOfPools, Expected, Exists

\* Every step keeps what the pools expect exact, when gatekeepers are in step with the chain.
LEMMA ReleasingStep == GkInSync /\ PoolInv /\ PoolInv' /\ ReleasingInv /\ [Next]_vars => ReleasingInv'
<1> SUFFICES ASSUME GkInSync, PoolInv, PoolInv', ReleasingInv, Next \/ UNCHANGED vars
             PROVE  ReleasingInv'
  OBVIOUS
<1>0. Kept
  <2>1. CASE UNCHANGED vars
    <3>1. UNCHANGED <<poolVars, queueVars, Stakes>>
      BY <2>1 DEF vars, minerVars
    <3> QED BY <3>1, StakeInvKept DEF PoolInv, Kept
  <2> QED BY <2>1, UserCallKeeps, PoolCallKeeps, ChainEventKeeps DEF Next, PoolInv
<1>1. CASE UserCall
  <2>1. PICK u \in User, pid \in Pid :
          \/ u \in PoolOwner /\ create(u, pid)
          \/ \E amount \in Contribution : contribute(u, pid, amount)
          \/ \E shares \in Demand \cup {PoolStakers[pid][u].shares} : withdraw(u, pid, shares)
          \/ reconcile_withdraw_queue(pid, u)
          \/ \E w \in Worker : unbind(u, pid, w)
    BY <1>1 DEF UserCall
  <2>2. ASSUME create(u, pid) PROVE ReleasingInv'
    BY <1>0, <2>2, CreateReleasing
  <2>3. ASSUME NEW amount \in Contribution, contribute(u, pid, amount) PROVE ReleasingInv'
    BY <1>0, <2>3, ContributeReleasing
  <2>4. ASSUME NEW shares \in Demand \cup {PoolStakers[pid][u].shares}, withdraw(u, pid, shares)
        PROVE  ReleasingInv'
    BY <1>0, <2>4, WithdrawReleasing
  <2>5. ASSUME reconcile_withdraw_queue(pid, u) PROVE ReleasingInv'
    BY <1>0, <2>5, ReconcileReleasing
  <2>6. ASSUME NEW w \in Worker, unbind(u, pid, w) PROVE ReleasingInv'
    BY <1>0, <2>6, DetachReleasing DEF unbind
  <2> QED BY <2>1, <2>2, <2>3, <2>4, <2>5, <2>6
<1>2. CASE PoolCall
  <2>1. PICK pid \in Pid :
          \/ \E cap \in Cap : set_cap(pid, cap)
          \/ \E w \in Worker :
                \/ add_worker(pid, w)
                \/ remove_worker(pid, w)
                \/ \E stake \in StakeAmount : start_mining(pid, w, stake)
                \/ stop_mining(pid, w)
                \/ reclaim_pool_worker(pid, w)
    BY <1>2 DEF PoolCall
  <2>2. ASSUME NEW cap \in Cap, set_cap(pid, cap) PROVE ReleasingInv'
    BY <1>0, <2>2, SetCapReleasing
  <2>3. ASSUME NEW w \in Worker, add_worker(pid, w) PROVE ReleasingInv'
    BY <1>0, <2>3, AddWorkerReleasing
  <2>4. ASSUME NEW w \in Worker, remove_worker(pid, w) PROVE ReleasingInv'
    BY <1>0, <2>4, DetachReleasing DEF remove_worker
  <2>5. ASSUME NEW w \in Worker, NEW stake \in StakeAmount, start_mining(pid, w, stake)
        PROVE  ReleasingInv'
    BY <1>0, <2>5, StartReleasing
  <2>6. ASSUME NEW w \in Worker, stop_mining(pid, w) PROVE ReleasingInv'
    BY <1>0, <2>6, StopReleasing
  <2>7. ASSUME NEW w \in Worker, reclaim_pool_worker(pid, w) PROVE ReleasingInv'
    BY <1>0, <2>7, ReclaimReleasing
  <2> QED BY <2>1, <2>2, <2>3, <2>4, <2>5, <2>6, <2>7
<1>3. CASE ChainEvent
  <2>1. ASSUME NEW offline, NEW recovered, NEW settle,
               on_gk_message_received(offline, recovered, settle)
        PROVE  ReleasingInv'
    BY <1>0, <2>1, GkReleasing
  <2>2. CASE \E period \in CoolDowns : set_cool_down_expiration(period)
    <3>1. UNCHANGED <<StakePools, Miners, Stakes>>
      BY <2>2 DEF set_cool_down_expiration, M!set_cool_down_expiration, poolVars
    <3> QED BY <3>1, UnchangedIsQuiet, UnchangedReleasing, QuietUnwritten
  <2>3. CASE \E enable \in Switch : set_mining_enable(enable)
    <3>1. UNCHANGED <<StakePools, Miners, Stakes>>
      BY <2>3 DEF set_mining_enable, poolVars, minerVars
    <3> QED BY <3>1, UnchangedIsQuiet, UnchangedReleasing, QuietUnwritten
  <2>4. CASE EndBlock
    BY <1>0, <2>4, EndBlockReleasing
  <2> QED BY <1>3, <2>1, <2>2, <2>3, <2>4 DEF ChainEvent
<1>4. CASE UNCHANGED vars
  <2>1. UNCHANGED <<StakePools, Miners, Stakes>>
    BY <1>4 DEF vars, poolVars, minerVars
  <2> QED BY <2>1, UnchangedIsQuiet, UnchangedReleasing, QuietUnwritten
<1> QED BY <1>1, <1>2, <1>3, <1>4 DEF Next

\* What a pool expects back (releasing_stake) is exactly what its cooling miners will return, when
\* the gatekeepers' reports are in step with the chain: each stop is counted once, whoever stops
\* the worker, and each reclaim takes off what was counted.
THEOREM StakePoolReleasing == GkInSync => (Spec => []ReleasingExact)
<1>1. ReleasingInv => ReleasingExact
  BY DEF ReleasingInv, Expected, ReleasingExact, Pools
<1>2. ASSUME GkInSync PROVE Spec => []ReleasingExact
  <2>1. PoolInv /\ PoolInv' /\ ReleasingInv /\ [Next]_vars => ReleasingInv'
    BY <1>2, ReleasingStep
  <2> QED BY <1>1, <2>1, ReleasingInit, StakePoolInv, PTL DEF Spec
<1> QED BY <1>2
-----------------------------------------------------------------------------
(* First come, first served *)

\* Where two users' requests stand in a queue.
Waits(queue, u) == \E i \in DOMAIN queue : queue[i].user = u
Behind(queue, u, v) ==
    \E i, j \in DOMAIN queue : i < j /\ queue[i].user = u /\ queue[j].user = v

\* Either nothing of u's is left in the queue, or v is still behind and has what v had.
InTurn(c, u, v, had) ==
    \/ ~Waits(c.p.withdraw_queue, u)
    \/ Behind(c.p.withdraw_queue, u, v) /\ c.s[v].shares = had

\* Taking the front off a queue of one request per user.
LEMMA TailInTurn ==
    ASSUME NEW queue \in Seq(WithdrawInfo), queue # <<>>, QueueFits(queue), NEW u, NEW v
    PROVE  /\ ~Waits(queue, u) => ~Waits(Tail(queue), u)
           /\ Behind(queue, u, v) => ~Waits(Tail(queue), u) \/ Behind(Tail(queue), u, v)
           /\ Behind(queue, u, v) => Head(queue).user # v
<1> DEFINE tail == Tail(queue)
<1>1. Len(queue) \in Nat \ {0} /\ DOMAIN queue = 1..Len(queue) /\ Head(queue) = queue[1]
  OBVIOUS
<1>2. tail \in Seq(WithdrawInfo) /\ Len(tail) = Len(queue) - 1
      /\ \A i \in 1..Len(tail) : tail[i] = queue[i + 1]
  BY <1>1
<1> HIDE DEF tail
<1>3. DOMAIN tail = 1..(Len(queue) - 1)
  BY <1>2
<1>4. \A i \in DOMAIN tail : i + 1 \in DOMAIN queue /\ tail[i] = queue[i + 1]
  BY <1>1, <1>2, <1>3
<1>5. ASSUME ~Waits(queue, u) PROVE ~Waits(tail, u)
  BY <1>4, <1>5 DEF Waits
<1>6. ASSUME Behind(queue, u, v)
      PROVE  (~Waits(tail, u) \/ Behind(tail, u, v)) /\ Head(queue).user # v
  <2>1. PICK i \in DOMAIN queue, j \in DOMAIN queue :
          i < j /\ queue[i].user = u /\ queue[j].user = v
    BY <1>6 DEF Behind
  <2>2. Head(queue).user # v
    <3>1. 1 \in DOMAIN queue /\ j # 1
      BY <1>1, <2>1
    <3> QED BY <1>1, <2>1, <3>1 DEF QueueFits
  <2>3. CASE i = 1
    <3>1. ASSUME NEW k \in DOMAIN tail, tail[k].user = u PROVE FALSE
      <4>1. k + 1 \in DOMAIN queue /\ queue[k + 1].user = u /\ k + 1 # 1
        BY <1>3, <1>4, <3>1
      <4> QED BY <2>1, <2>3, <4>1 DEF QueueFits
    <3> QED BY <2>2, <3>1 DEF Waits
  <2>4. CASE i # 1
    <3>1. i - 1 \in DOMAIN tail /\ j - 1 \in DOMAIN tail /\ i - 1 < j - 1
      BY <1>1, <1>3, <2>1, <2>4
    <3>2. tail[i - 1] = queue[i] /\ tail[j - 1] = queue[j]
      BY <1>1, <1>4, <2>1, <3>1
    <3> QED BY <2>1, <2>2, <3>1, <3>2 DEF Behind
  <2> QED BY <2>2, <2>3, <2>4
<1> QED BY <1>5, <1>6 DEF tail

\* Putting what is left of the front's request back in its place.
LEMMA LeftInTurn ==
    ASSUME NEW queue \in Seq(WithdrawInfo), queue # <<>>, NEW left, left.user = Head(queue).user,
           NEW u, NEW v
    PROVE  /\ ~Waits(queue, u) => ~Waits(<<left>> \o Tail(queue), u)
           /\ Behind(queue, u, v) => Behind(<<left>> \o Tail(queue), u, v)
<1> DEFINE tail == Tail(queue)
           new == <<left>> \o tail
<1>1. Len(queue) \in Nat \ {0} /\ DOMAIN queue = 1..Len(queue) /\ Head(queue) = queue[1]
  OBVIOUS
<1>2. tail \in Seq(WithdrawInfo) /\ Len(tail) = Len(queue) - 1
      /\ \A i \in 1..Len(tail) : tail[i] = queue[i + 1]
  BY <1>1
<1>3. DOMAIN new = 1..Len(queue) /\ new[1] = left /\ \A i \in 2..Len(queue) : new[i] = queue[i]
  <2> DEFINE S == WithdrawInfo \cup {left}
  <2>1. <<left>> \in Seq(S) /\ Len(<<left>>) = 1 /\ tail \in Seq(S)
    BY <1>2
  <2> HIDE DEF tail, S
  <2>2. new \in Seq(S) /\ Len(new) = 1 + Len(tail)
    BY <2>1
  <2>3. new[1] = left
    BY <1>2, <2>1
  <2>4. ASSUME NEW i \in 2..Len(queue) PROVE new[i] = queue[i]
    <3>1. new[i] = tail[i - 1]
      BY <1>1, <1>2, <2>1
    <3> QED BY <1>1, <1>2, <3>1
  <2>5. Len(new) = Len(queue)
    <3> HIDE DEF new
    <3> QED BY <1>1, <1>2, <2>2
  <2> QED BY <2>2, <2>3, <2>4, <2>5
<1> HIDE DEF new
<1>4. DOMAIN new = DOMAIN queue /\ \A i \in DOMAIN queue : new[i].user = queue[i].user
  <2> SUFFICES ASSUME NEW i \in DOMAIN queue PROVE new[i].user = queue[i].user
    BY <1>1, <1>3
  <2>1. i = 1 \/ i \in 2..Len(queue)
    BY <1>1
  <2> QED BY <1>1, <1>3, <2>1
<1>5. Waits(new, u) => Waits(queue, u)
  BY <1>4 DEF Waits
<1>6. Behind(queue, u, v) => Behind(new, u, v)
  BY <1>4 DEF Behind
<1> QED BY <1>5, <1>6 DEF new

\* One iteration serves the front alone, and leaves the rest of the queue in its order.
LEMMA FrontServed ==
    ASSUME NEW c \in Ctx, NEW price
    PROVE  LET queue == c.p.withdraw_queue
               new == ProcessFront(c, price)
           IN  /\ \E left : /\ left.user = Head(queue).user
                            /\ new.p.withdraw_queue \in {queue, Tail(queue), <<left>> \o Tail(queue)}
               /\ \A v \in User : v # Head(queue).user => new.s[v].shares = c.s[v].shares
<1> DEFINE queue == c.p.withdraw_queue
           request == Head(queue)
           u == request.user
           free_shares == IF price = 0 THEN request.shares ELSE bdiv(c.p.free_stake, price)
           withdrawing == Lesser(free_shares, request.shares)
           rest == NonDust(request.shares - withdrawing)
           settled == maybe_settle_slash(c, u)
           served == remove_stake(settled, u, withdrawing)
           left == [user |-> u, shares |-> rest, age |-> request.age]
           new == ProcessFront(c, price)
<1>1. new = IF served.ok THEN Requeue(served, IF rest = 0 THEN Tail(queue) ELSE <<left>> \o Tail(queue))
            ELSE served
  BY DEF ProcessFront
<1>2. left.user = u
  OBVIOUS
<1> HIDE DEF rest, withdrawing, left, new, u
<1>3. settled.p = c.p /\ \A v \in User \ {u} : settled.s[v] = c.s[v]
  BY DEF maybe_settle_slash, Ctx
<1>5. served.p.withdraw_queue = settled.p.withdraw_queue
  BY RemoveKeepsQueue
<1>6. \A v \in User \ {u} : served.s[v] = settled.s[v]
  <2>1. DOMAIN settled.s = User
    BY DEF maybe_settle_slash, Ctx
  <2> HIDE DEF settled
  <2> QED BY <2>1 DEF remove_stake, ledger_reduce, Failed
<1> HIDE DEF served, settled
<1>7. new.s = served.s
  BY <1>1 DEF Requeue
<1>8. new.p.withdraw_queue \in {queue, Tail(queue), <<left>> \o Tail(queue)}
  <2>1. CASE ~served.ok
    BY <1>1, <1>3, <1>5, <2>1
  <2>2. CASE served.ok
    BY <1>1, <2>2 DEF Requeue, WithQueue
  <2> QED BY <2>1, <2>2
<1>9. \A v \in User : v # u => new.s[v].shares = c.s[v].shares
  BY <1>3, <1>6, <1>7
<1> HIDE DEF queue, request
<1> QED BY <1>2, <1>8, <1>9 DEF queue, request, u, new

\* One iteration keeps the order.
LEMMA FrontInTurn ==
    ASSUME NEW c \in Ctx, QueueFits(c.p.withdraw_queue), c.p.withdraw_queue # <<>>, NEW price,
           NEW u, NEW v \in User, NEW had, InTurn(c, u, v, had)
    PROVE  InTurn(ProcessFront(c, price), u, v, had)
<1> DEFINE queue == c.p.withdraw_queue
           new == ProcessFront(c, price)
<1>1. queue \in Seq(WithdrawInfo)
  BY DEF Ctx, PoolInfo
<1>2. PICK left : /\ left.user = Head(queue).user
                  /\ new.p.withdraw_queue \in {queue, Tail(queue), <<left>> \o Tail(queue)}
  BY FrontServed
<1>3. v # Head(queue).user => new.s[v].shares = c.s[v].shares
  BY FrontServed
<1> HIDE DEF queue, new
<1>4. queue # <<>> /\ QueueFits(queue)
  BY DEF queue
<1>5. /\ ~Waits(queue, u) => ~Waits(Tail(queue), u)
      /\ Behind(queue, u, v) => ~Waits(Tail(queue), u) \/ Behind(Tail(queue), u, v)
      /\ Behind(queue, u, v) => Head(queue).user # v
  BY <1>1, <1>4, TailInTurn
<1>6. /\ ~Waits(queue, u) => ~Waits(<<left>> \o Tail(queue), u)
      /\ Behind(queue, u, v) => Behind(<<left>> \o Tail(queue), u, v)
  BY <1>1, <1>2, <1>4, LeftInTurn
<1>7. ~Waits(queue, u) => ~Waits(new.p.withdraw_queue, u)
  BY <1>2, <1>5, <1>6
<1>8. Behind(queue, u, v) =>
        ~Waits(new.p.withdraw_queue, u) \/ Behind(new.p.withdraw_queue, u, v)
  BY <1>2, <1>5, <1>6
<1> QED BY <1>3, <1>5, <1>7, <1>8 DEF InTurn, queue, new

\* So does the loop over the queue.
LEMMA LoopInTurn ==
    ASSUME NEW other \in [User -> Nat], NEW staked \in Nat, NEW ages, NEW limit \in Nat, NEW cap,
           NEW releasing, NEW c, Sound(c, other, staked, ages, limit, cap, releasing),
           NEW u, NEW v \in User, NEW had, InTurn(c, u, v, had)
    PROVE  InTurn(try_process_withdraw_queue(c), u, v, had)
<1> DEFINE K == {x \in Ctx : Sound(x, other, staked, ages, limit, cap, releasing)
                             /\ InTurn(x, u, v, had)}
<1>1. c \in K /\ c.p \in PoolInfo
  BY DEF Sound, Ctx
<1>2. ASSUME NEW x \in K, MayServe(x), HasPrice(c.p)
      PROVE  ProcessFront(x, share_price(c.p)) \in K
  <2>1. PICK price \in Nat : price = share_price(c.p)
    BY <1>1, <1>2, PriceNat
  <2>2. /\ Sound(x, other, staked, ages, limit, cap, releasing) /\ InTurn(x, u, v, had)
        /\ x.p.withdraw_queue # <<>> /\ x \in Ctx
    BY <1>2 DEF MayServe
  <2>3. Sound(ProcessFront(x, price), other, staked, ages, limit, cap, releasing)
    BY <2>2, FrontSound
  <2>4. InTurn(ProcessFront(x, price), u, v, had)
    <3>1. QueueFits(x.p.withdraw_queue)
      BY <2>2 DEF Sound
    <3> QED BY <2>2, <3>1, FrontInTurn
  <2> QED BY <2>1, <2>3, <2>4 DEF Sound
<1> HIDE DEF K
<1>3. try_process_withdraw_queue(c) \in K
  BY <1>1, <1>2, QueueLoop
<1> QED BY <1>3 DEF K

\* No step lets v pass u in the queue of a pool: v's stake leaves the pool, above dust, only when
\* u does not wait any more.
NoOvertaking(pid, u, v) ==
    QueuedBefore(pid, u, v) /\ PoolStakers'[pid][v].shares < PoolStakers[pid][v].shares
        /\ Unlocked(v)' > Unlocked(v) + Dust
      => ~WaitsIn(u, pid)'

\* Nobody passes where no shares go.
LEMMA SharesStay ==
    ASSUME UserTypes, NEW pid \in Pid, NEW u, NEW v \in User,
           PoolStakers'[pid][v].shares = PoolStakers[pid][v].shares
    PROVE  NoOvertaking(pid, u, v)
<1>1. PoolStakers[pid][v].shares \in Nat
  BY DEF UserTypes, UserStakeInfo
<1> QED BY <1>1 DEF NoOvertaking

\* Nobody passes by a call that leaves u served, or v with the shares v had.
NotPassed(c, pid, u, v) ==
    QueuedBefore(pid, u, v) => \/ ~Waits(c.p.withdraw_queue, u)
                               \/ c.s[v].shares >= PoolStakers[pid][v].shares

LEMMA LoopOvertakesNobody ==
    ASSUME UserTypes, NEW pid \in Pid, StakePools \in [Pid -> PoolInfo \cup {None}],
           NEW u, NEW v \in User, NEW c, c.s \in [User -> UserStakeInfo],
           NotPassed(c, pid, u, v), Commit(pid, c)
    PROVE  NoOvertaking(pid, u, v)
<1>1. StakePools'[pid] = c.p /\ PoolStakers'[pid] = c.s
  BY DEF Commit, UserTypes
<1> SUFFICES ASSUME QueuedBefore(pid, u, v), c.s[v].shares < PoolStakers[pid][v].shares
             PROVE  ~WaitsIn(u, pid)'
  BY <1>1 DEF NoOvertaking
<1>2. PoolStakers[pid][v].shares \in Nat /\ c.s[v].shares \in Nat
  BY DEF UserTypes, UserStakeInfo
<1>3. ~Waits(c.p.withdraw_queue, u)
  BY <1>2 DEF NotPassed
<1> QED BY <1>1, <1>3 DEF WaitsIn, Waits, Queue

\* add_stake takes no shares from anybody, and leaves the queue.
LEMMA AddedShares ==
    ASSUME NEW c \in Ctx, NEW u \in User, NEW amount \in Nat, NEW v \in User
    PROVE  LET added == add_stake(maybe_settle_slash(c, u), u, amount)
           IN  /\ added.p.withdraw_queue = c.p.withdraw_queue
               /\ added.s[v].shares \in Nat /\ added.s[v].shares >= c.s[v].shares
<1> DEFINE settled == maybe_settle_slash(c, u)
           added == add_stake(settled, u, amount)
           bought == SharesFor(c.p, amount)
<1>1. settled.p = c.p /\ DOMAIN settled.s = User /\ settled.s[v].shares = c.s[v].shares
  BY DEF maybe_settle_slash, Ctx
<1>2. bought \in Nat /\ c.s[v].shares \in Nat
  BY SharesForNat DEF Ctx, UserStakeInfo
<1> HIDE DEF settled, bought
<1>3. added.p.withdraw_queue = c.p.withdraw_queue
  BY <1>1 DEF add_stake, WithStake
<1>4. added.s[v].shares = IF v = u THEN settled.s[v].shares + bought ELSE settled.s[v].shares
  BY <1>1 DEF add_stake, bought
<1> HIDE DEF added
<1>5. added.s[v].shares \in Nat /\ added.s[v].shares >= c.s[v].shares
  BY <1>1, <1>2, <1>4
<1> QED BY <1>3, <1>5 DEF added, settled

\* Nobody passes when somebody contributes.
LEMMA ContributeInTurn ==
    ASSUME StakeInv, NEW q \in Pid, NEW x \in User, NEW amount \in Contribution,
           contribute(x, q, amount), NEW pid \in Pid, NEW u, NEW v \in User
    PROVE  NoOvertaking(pid, u, v)
<1> DEFINE p == StakePools[q]
           added == add_stake(maybe_settle_slash(Context(q), x), x, amount)
           done == try_process_withdraw_queue(added)
<1>0. UserTypes /\ StakePools \in [Pid -> PoolInfo \cup {None}]
  BY DEF StakeInv, PoolsGood
<1>1. CASE UNCHANGED PoolStakers
  BY <1>0, <1>1, SharesStay
<1>2. CASE Commit(q, done)
  <2>1. CASE pid # q
    <3>1. PoolStakers'[pid] = PoolStakers[pid]
      BY <1>0, <1>2, <2>1 DEF Commit, UserTypes
    <3> QED BY <1>0, <3>1, SharesStay
  <2>2. CASE pid = q
    <3>1. PICK limit \in Nat :
            Sound(added, Elsewhere(q), Staked(q), Listed(q), limit, p.cap, p.releasing_stake)
      BY ContributedSound
    <3>2. Elsewhere(q) \in [User -> Nat] /\ Staked(q) \in Nat /\ Exists(q)
      BY ContributedSound
    <3>3. Context(q) \in Ctx /\ Context(q).p.withdraw_queue = Queue(q)
          /\ Context(q).s = PoolStakers[q]
      BY <3>2, ContextSound DEF Sound, Context, Queue
    <3>4. amount \in Nat
      BY StakePoolAssumption
    <3>5. /\ added.p.withdraw_queue = Queue(q)
          /\ added.s[v].shares \in Nat /\ added.s[v].shares >= PoolStakers[q][v].shares
      BY <3>3, <3>4, AddedShares
    <3> HIDE DEF added, p
    <3>6. Sound(done, Elsewhere(q), Staked(q), Listed(q), limit, p.cap, p.releasing_stake)
      BY <3>1, <3>2, QueueSound
    <3>7. ASSUME QueuedBefore(q, u, v) PROVE InTurn(done, u, v, added.s[v].shares)
      <4>1. InTurn(added, u, v, added.s[v].shares)
        BY <3>5, <3>7 DEF InTurn, QueuedBefore, Behind
      <4> QED BY <3>1, <3>2, <4>1, LoopInTurn
    <3> HIDE DEF done
    <3>8. NotPassed(done, q, u, v)
      BY <3>5, <3>7 DEF NotPassed, InTurn
    <3>9. done.s \in [User -> UserStakeInfo]
      BY <3>6 DEF Sound, Ctx
    <3> QED BY <1>0, <1>2, <2>2, <3>8, <3>9, LoopOvertakesNobody
  <2> QED BY <2>1, <2>2
<1> QED BY <1>1, <1>2 DEF contribute, Panic, poolVars

\* What a miner holds is part of what its pool has in sessions.
LEMMA InSessionStaked ==
    ASSUME StakesType, NEW q \in Pid, NEW m \in Miner, m[1] = q, Stakes[m] # None
    PROVE  Staked(q) \in Nat /\ Stakes[m] <= Staked(q)
<1> DEFINE S == InSession(q)
<1>1. IsFiniteSet(S) /\ \A x \in S : Stakes[x] \in Nat
  <2>1. S = Holding(Stakes, q)
    BY DEF InSession, Holding
  <2> QED BY <2>1, HoldingNat DEF StakesType
<1>2. m \in S
  BY DEF InSession
<1> HIDE DEF S
<1>3. SumFunctionOnSet(Stakes, S) = Stakes[m] + SumFunctionOnSet(Stakes, S \ {m})
  BY <1>1, <1>2, SumElement
<1>4. SumFunctionOnSet(Stakes, S \ {m}) \in Nat
  BY <1>1, FS_Subset, SumNat
<1>5. Stakes[m] \in Nat
  BY <1>1, <1>2
<1> QED BY <1>3, <1>4, <1>5 DEF Staked, S

\* Nobody passes when stake comes back from a miner.
LEMMA ReclaimInTurn ==
    ASSUME StakeInv, MP!MiningInv, NEW q \in Pid, NEW w \in Worker, reclaim_pool_worker(q, w),
           NEW pid \in Pid, NEW u, NEW v \in User
    PROVE  NoOvertaking(pid, u, v)
<1> DEFINE m == <<q, w>>
           p == StakePools[q]
           c == Context(q)
           done == handle_reclaim(c, Stakes[m], M!Slashed(m))
<1>0. UserTypes /\ StakePools \in [Pid -> PoolInfo \cup {None}]
  BY DEF StakeInv, PoolsGood
<1>1. CASE UNCHANGED PoolStakers
  BY <1>0, <1>1, SharesStay
<1>2. CASE Commit(q, done)
  <2>1. CASE pid # q
    <3>1. PoolStakers'[pid] = PoolStakers[pid]
      BY <1>0, <1>2, <2>1 DEF Commit, UserTypes
    <3> QED BY <1>0, <3>1, SharesStay
  <2>2. CASE pid = q
    <3>1. Exists(q) /\ M!can_reclaim(m)
      BY DEF reclaim_pool_worker
    <3>2. m \in Miner /\ Stakes[m] # None /\ m[1] = q
      <4>1. m \in Miner
        BY DEF Miner
      <4> QED BY <3>1, <4>1, MiningFacts DEF M!can_reclaim
    <3>3. PICK n \in Nat : n = Stakes[m]
      BY <3>2, ReturnedNat
    <3>4. PICK k \in Nat : k = M!Slashed(m) /\ k <= n
      BY <3>2, <3>3, ReturnedNat
    <3>5. Staked(q) \in Nat /\ n <= Staked(q)
      BY <3>2, <3>3, InSessionStaked DEF StakeInv
    <3>6. /\ Sound(c, Elsewhere(q), Staked(q), Listed(q), Limit(p), p.cap, p.releasing_stake)
          /\ Limit(p) \in Nat /\ p.releasing_stake \in Nat /\ Elsewhere(q) \in [User -> Nat]
      BY <3>1, ContextSound, ElsewhereNat DEF StakeInv
    <3>7. c.p.withdraw_queue = Queue(q) /\ c.s = PoolStakers[q]
      BY DEF Context, Queue
    <3>8. PICK t \in Nat : t = Staked(q)
      BY <3>5
    <3>9. PICK r \in Nat : r = p.releasing_stake
      BY <3>6
    <3> HIDE DEF c, p
    <3>10. PICK d : /\ Sound(d, Elsewhere(q), t - n, Listed(q), Limit(p), p.cap,
                             SaturatingSub(r, n - k))
                    /\ handle_reclaim(c, n, k) = try_process_withdraw_queue(d)
                    /\ d.s = c.s /\ d.p.withdraw_queue = c.p.withdraw_queue
      <4>1. Sound(c, Elsewhere(q), t, Listed(q), Limit(p), p.cap, r)
        BY <3>6, <3>8, <3>9
      <4> QED BY <3>4, <3>5, <3>6, <3>8, <4>1, ReclaimedSound
    <3>11. done = try_process_withdraw_queue(d)
      BY <3>3, <3>4, <3>10
    <3> HIDE DEF done
    <3>12. PICK rest \in Nat : rest = t - n
      BY <3>5, <3>8
    <3>13. PICK expected : expected = SaturatingSub(r, n - k)
      OBVIOUS
    <3>14. Sound(d, Elsewhere(q), rest, Listed(q), Limit(p), p.cap, expected)
      BY <3>10, <3>12, <3>13
    <3>15. Sound(done, Elsewhere(q), rest, Listed(q), Limit(p), p.cap, expected)
      BY <3>6, <3>11, <3>14, QueueSound
    <3>16. ASSUME QueuedBefore(q, u, v) PROVE InTurn(done, u, v, d.s[v].shares)
      <4>1. InTurn(d, u, v, d.s[v].shares)
        BY <3>7, <3>10, <3>16 DEF InTurn, QueuedBefore, Behind
      <4> QED BY <3>6, <3>11, <3>14, <4>1, LoopInTurn
    <3>17. NotPassed(done, q, u, v)
      <4>1. d.s[v].shares \in Nat /\ d.s[v].shares = PoolStakers[q][v].shares
        BY <1>0, <3>7, <3>10 DEF UserTypes, UserStakeInfo
      <4> QED BY <3>16, <4>1 DEF NotPassed, InTurn
    <3>18. done.s \in [User -> UserStakeInfo]
      BY <3>15 DEF Sound, Ctx
    <3> QED BY <1>0, <1>2, <2>2, <3>17, <3>18, LoopOvertakesNobody
  <2> QED BY <2>1, <2>2
<1> QED BY <1>1, <1>2 DEF reclaim_pool_worker, Panic, poolVars

\* What is paid and dropped of a lock unlocks no more than what is paid.
LEMMA PaidUnlocks ==
    ASSUME NEW l \in Nat, NEW b \in Nat, l <= b, NEW amount \in Nat, NEW dust \in Nat
    PROVE  SaturatingSub(b, dust) - SaturatingSub(l, amount + dust) <= b - l + amount
  BY DEF SaturatingSub

\* A withdrawal unlocks no more than dust for its user when the pool has no idle stake.
LEMMA WithdrawPays ==
    ASSUME NEW other \in [User -> Nat], NEW staked \in Nat, NEW ages, NEW limit \in Nat, NEW cap,
           NEW releasing, NEW c, Sound(c, other, staked, ages, limit, cap, releasing),
           NEW u \in User, NEW shares \in Nat, ~IsIdle(c.p)
    PROVE  LET done == try_withdraw(c, u, shares)
           IN  done.bal[u] - done.ledger[u] <= c.bal[u] - c.ledger[u] + Dust
<1> DEFINE now == WithdrawnNow(c.p, shares)
           settled == maybe_settle_slash(c, u)
           paid == WithdrawNow(c, u, now)
           done == try_withdraw(c, u, shares)
<1>1. done.bal = paid.bal /\ done.ledger = paid.ledger
  BY DEF try_withdraw, Requeue
<1>2. c \in Ctx /\ c.p \in PoolInfo /\ c.p.free_stake \in Nat /\ c.bal[u] \in Nat
      /\ c.ledger[u] \in Nat /\ Dust \in Nat
  BY BalanceMathAssumption DEF Sound, Ctx, PoolInfo
<1>3. now \in Nat
  BY <1>2, SplitNat
<1>4. CASE now = 0
  <2>1. paid = c
    BY <1>4 DEF WithdrawNow
  <2> QED BY <1>1, <1>2, <2>1
<1>5. CASE now # 0
  <2>1. c.p.free_stake <= Dust
    <3>1. CASE IsPriced(c.p)
      <4>1. share_price(c.p) \in Nat \ {0}
        BY <1>2, <3>1, PriceNat DEF IsPriced
      <4>2. PICK k \in Nat : k = bdiv(c.p.free_stake, share_price(c.p))
        BY <1>2, <4>1, BalancesNat
      <4>3. now = NonDust(Lesser(shares, k))
        BY <3>1, <4>2 DEF WithdrawnNow
      <4>4. Lesser(shares, k) \in Nat /\ Lesser(shares, k) <= k
        BY DEF Lesser
      <4>5. is_nondust_balance(k)
        BY <1>2, <1>5, <4>3, <4>4 DEF NonDust, is_nondust_balance, balance_close_to_zero
      <4>6. ~is_nondust_balance(c.p.free_stake)
        BY <3>1, <4>2, <4>5 DEF IsIdle
      <4> QED BY <1>2, <4>6 DEF is_nondust_balance, balance_close_to_zero
    <3>2. CASE ~IsPriced(c.p)
      <4>1. ~is_nondust_balance(c.p.free_stake)
        BY <3>2 DEF IsIdle
      <4> QED BY <1>2, <4>1 DEF is_nondust_balance, balance_close_to_zero
    <3> QED BY <3>1, <3>2
  <2>2. PICK n \in Nat : n = now
    BY <1>3
  <2>3. paid = remove_stake(settled, u, n)
    BY <1>3, <1>5, <2>2 DEF WithdrawNow
  <2>4. /\ Sound(settled, other, staked, ages, limit, cap, releasing)
        /\ settled.p = c.p
        /\ settled.bal[u] - settled.ledger[u] = c.bal[u] - c.ledger[u]
    BY SettleSound
  <2> HIDE DEF settled, paid, now, done
  <2>5. /\ settled \in Ctx /\ settled.bal[u] \in Nat /\ settled.ledger[u] \in Nat
        /\ settled.ledger[u] <= settled.bal[u] /\ settled.s[u].locked \in Nat
        /\ settled.ledger \in [User -> Nat] /\ settled.bal \in [User -> Nat]
    BY <2>4 DEF Sound, Ctx, LocksCovered, UserStakeInfo
  <2>6. CASE HasPrice(settled.p)
    <3> DEFINE amount == Payout(settled, u, n)
               dust == DustOf(settled.s[u].locked - amount)
    <3>1. amount \in Nat /\ amount <= Dust /\ amount <= settled.s[u].locked
      BY <1>2, <2>1, <2>4, <2>5, <2>6, PayoutNat
    <3>2. dust \in Nat
      <4> HIDE DEF amount
      <4> QED BY <2>5, <3>1 DEF DustOf, balance_close_to_zero
    <3>3. \/ paid.bal = settled.bal /\ paid.ledger = settled.ledger
          \/ /\ paid.bal[u] = SaturatingSub(settled.bal[u], dust)
             /\ paid.ledger[u] = SaturatingSub(settled.ledger[u], amount + dust)
      BY <2>3, <2>5 DEF remove_stake, ledger_reduce, Failed
    <3> HIDE DEF amount, dust
    <3>4. paid.bal[u] - paid.ledger[u] <= settled.bal[u] - settled.ledger[u] + Dust
      <4>1. CASE paid.bal = settled.bal /\ paid.ledger = settled.ledger
        BY <1>2, <2>5, <4>1
      <4>2. CASE /\ paid.bal[u] = SaturatingSub(settled.bal[u], dust)
                 /\ paid.ledger[u] = SaturatingSub(settled.ledger[u], amount + dust)
        <5>1. PICK b \in Nat : b = settled.bal[u]
          BY <2>5
        <5>2. PICK l \in Nat : l = settled.ledger[u]
          BY <2>5
        <5>3. l <= b
          BY <2>5, <5>1, <5>2
        <5>4. SaturatingSub(b, dust) - SaturatingSub(l, amount + dust) <= b - l + amount
          BY <3>1, <3>2, <5>3, PaidUnlocks
        <5>5. SaturatingSub(b, dust) \in Nat /\ SaturatingSub(l, amount + dust) \in Nat
          BY <3>1, <3>2 DEF SaturatingSub
        <5> QED BY <1>2, <3>1, <4>2, <5>1, <5>2, <5>4, <5>5
      <4> QED BY <3>3, <4>1, <4>2
    <3>5. done.bal[u] - done.ledger[u] <= c.bal[u] - c.ledger[u] + Dust
      BY <1>1, <2>4, <3>4
    <3> QED BY <3>5 DEF done
  <2>7. CASE ~HasPrice(settled.p)
    <3>1. paid.bal = settled.bal /\ paid.ledger = settled.ledger
      BY <2>3, <2>7 DEF remove_stake, Failed
    <3>2. done.bal[u] - done.ledger[u] <= c.bal[u] - c.ledger[u] + Dust
      BY <1>1, <1>2, <2>4, <2>5, <3>1
    <3> QED BY <3>2 DEF done
  <2> QED BY <2>6, <2>7
<1> QED BY <1>3, <1>4, <1>5

\* A withdrawal takes shares from nobody else.
LEMMA OthersKeepShares ==
    ASSUME NEW c \in Ctx, NEW x \in User, NEW shares, NEW v \in User \ {x}
    PROVE  try_withdraw(c, x, shares).s[v] = c.s[v]
<1> DEFINE settled == maybe_settle_slash(c, x)
           now == WithdrawnNow(c.p, shares)
           paid == WithdrawNow(c, x, now)
<1>1. DOMAIN settled.s = User /\ settled.s[v] = c.s[v]
  BY DEF maybe_settle_slash, Ctx
<1>2. paid.s[v] = c.s[v]
  <2> HIDE DEF settled, now
  <2>1. remove_stake(settled, x, now).s[v] = settled.s[v]
    BY <1>1 DEF remove_stake, ledger_reduce, Failed
  <2> QED BY <1>1, <2>1 DEF WithdrawNow, settled
<1> HIDE DEF paid
<1>3. try_withdraw(c, x, shares).s = paid.s
  BY DEF try_withdraw, Requeue, paid, now
<1> QED BY <1>2, <1>3

\* Nobody passes by a withdrawal from a pool without idle stake: only dust is paid at once.
LEMMA WithdrawInTurn ==
    ASSUME StakeInv, NoIdleStake, NEW q \in Pid, NEW x \in User,
           NEW shares \in Demand \cup {PoolStakers[q][x].shares}, withdraw(x, q, shares),
           NEW pid \in Pid, NEW u, NEW v \in User
    PROVE  NoOvertaking(pid, u, v)
<1> DEFINE p == StakePools[q]
           c == Context(q)
           done == try_withdraw(c, x, shares)
<1>0. /\ UserTypes /\ StakePools \in [Pid -> PoolInfo \cup {None}] /\ Exists(q)
      /\ PoolStakers[q] \in [User -> UserStakeInfo]
  BY DEF StakeInv, PoolsGood, withdraw, UserTypes
<1>1. CASE UNCHANGED PoolStakers
  BY <1>0, <1>1, SharesStay
<1>2. CASE Commit(q, done)
  <2>1. c.s = PoolStakers[q] /\ c.p = p /\ c.ledger = StakeLedger /\ c.bal = FreeBalance
    BY DEF Context
  <2>2. /\ Sound(c, Elsewhere(q), Staked(q), Listed(q), Limit(p), p.cap, p.releasing_stake)
        /\ Limit(p) \in Nat /\ Elsewhere(q) \in [User -> Nat] /\ Staked(q) \in Nat
    BY <1>0, ContextSound, ElsewhereNat, StakedNat DEF StakeInv
  <2>3. PICK n \in Nat : n = shares
    <3>1. PoolStakers[q][x].shares \in Nat
      BY <1>0 DEF UserStakeInfo
    <3> QED BY <3>1, StakePoolAssumption
  <2> HIDE DEF c, p
  <2>4. CASE pid # q
    <3>1. PoolStakers'[pid] = PoolStakers[pid]
      BY <1>0, <1>2, <2>4 DEF Commit, UserTypes
    <3> QED BY <1>0, <3>1, SharesStay
  <2>5. CASE pid = q /\ v # x
    <3>1. c \in Ctx
      BY <2>2 DEF Sound
    <3>2. done.s[v] = c.s[v]
      BY <2>5, <3>1, OthersKeepShares
    <3> HIDE DEF done
    <3>3. PoolStakers'[pid] = done.s
      BY <1>0, <1>2, <2>5 DEF Commit, UserTypes
    <3> QED BY <1>0, <2>1, <2>5, <3>2, <3>3, SharesStay
  <2>6. CASE pid = q /\ v = x
    <3> SUFFICES ASSUME QueuedBefore(pid, u, v) PROVE ~(Unlocked(v)' > Unlocked(v) + Dust)
      BY DEF NoOvertaking
    <3>1. Queue(q) # <<>>
      BY <2>6 DEF QueuedBefore
    <3>2. ~IsIdle(c.p)
      BY <1>0, <2>1, <3>1 DEF NoIdleStake, Pools, p
    <3>3. LET d == try_withdraw(c, x, n)
          IN  d.bal[x] - d.ledger[x] <= c.bal[x] - c.ledger[x] + Dust
      BY <2>2, <3>2, WithdrawPays
    <3>4. done.bal[x] - done.ledger[x] <= c.bal[x] - c.ledger[x] + Dust
      BY <2>3, <3>3
    <3> HIDE DEF done
    <3>5. StakeLedger' = done.ledger /\ FreeBalance' = done.bal
      BY <1>2 DEF Commit
    <3>6. StakeLedger[x] \in Nat /\ FreeBalance[x] \in Nat /\ Dust \in Nat
      BY <1>0, BalanceMathAssumption DEF UserTypes
    <3>7. Unlocked(v)' \in Int
      <4>1. FreeBalance'[x] \in Nat /\ StakeLedger'[x] \in Nat
        <5>1. Sound(try_withdraw(c, x, n), Elsewhere(q), Staked(q), Listed(q) \cup {0}, Limit(p),
                    p.cap, p.releasing_stake)
          BY <2>2, WithdrawSound
        <5> QED BY <2>3, <3>5, <5>1 DEF Sound, Ctx, done
      <4> QED BY <2>6, <4>1 DEF Unlocked
    <3>8. Unlocked(v)' <= Unlocked(v) + Dust
      BY <2>1, <2>6, <3>4, <3>5 DEF Unlocked
    <3>9. Unlocked(v) \in Int
      BY <2>6, <3>6 DEF Unlocked
    <3> QED BY <3>6, <3>7, <3>8, <3>9
  <2> QED BY <2>4, <2>5, <2>6
<1> QED BY <1>1, <1>2 DEF withdraw, Panic, poolVars

\* No step of the pallets lets a request pass another.
LEMMA StepInTurn ==
    ASSUME PoolInv, NoIdleStake, Next \/ UNCHANGED vars, NEW pid \in Pid, NEW u, NEW v \in User
    PROVE  NoOvertaking(pid, u, v)
<1>0. StakeInv /\ MP!MiningInv /\ UserTypes
  BY DEF PoolInv, StakeInv
<1>1. CASE UNCHANGED PoolStakers
  BY <1>0, <1>1, SharesStay
<1>2. CASE UserCall
  <2>1. PICK x \in User, q \in Pid :
          \/ x \in PoolOwner /\ create(x, q)
          \/ \E amount \in Contribution : contribute(x, q, amount)
          \/ \E shares \in Demand \cup {PoolStakers[q][x].shares} : withdraw(x, q, shares)
          \/ reconcile_withdraw_queue(q, x)
          \/ \E w \in Worker : unbind(x, q, w)
    BY <1>2 DEF UserCall
  <2>2. ASSUME NEW amount \in Contribution, contribute(x, q, amount)
        PROVE  NoOvertaking(pid, u, v)
    BY <1>0, <2>2, ContributeInTurn
  <2>3. ASSUME NEW shares \in Demand \cup {PoolStakers[q][x].shares}, withdraw(x, q, shares)
        PROVE  NoOvertaking(pid, u, v)
    BY <1>0, <2>3, WithdrawInTurn
  <2>4. CASE \/ create(x, q)
             \/ reconcile_withdraw_queue(q, x)
             \/ \E w \in Worker : unbind(x, q, w)
    <3>1. create(x, q) => UNCHANGED PoolStakers
      BY DEF create
    <3>2. ASSUME reconcile_withdraw_queue(q, x) PROVE UNCHANGED PoolStakers
      <4>1. UNCHANGED <<PoolStakers, StakeLedger, FreeBalance>>
        BY <3>2, Zenon DEF reconcile_withdraw_queue
      <4> QED BY <4>1
    <3>3. ASSUME NEW w \in Worker, unbind(x, q, w) PROVE UNCHANGED PoolStakers
      BY <3>3 DEF unbind, DetachWorker
    <3> QED BY <1>1, <2>4, <3>1, <3>2, <3>3
  <2> QED BY <2>1, <2>2, <2>3, <2>4
<1>3. CASE PoolCall
  <2>1. PICK q \in Pid :
          \/ \E cap \in Cap : set_cap(q, cap)
          \/ \E w \in Worker :
                \/ add_worker(q, w)
                \/ remove_worker(q, w)
                \/ \E stake \in StakeAmount : start_mining(q, w, stake)
                \/ stop_mining(q, w)
                \/ reclaim_pool_worker(q, w)
    BY <1>3 DEF PoolCall
  <2>2. ASSUME NEW w \in Worker, reclaim_pool_worker(q, w) PROVE NoOvertaking(pid, u, v)
    BY <1>0, <2>2, ReclaimInTurn
  <2>3. CASE \/ \E cap \in Cap : set_cap(q, cap)
             \/ \E w \in Worker : add_worker(q, w) \/ remove_worker(q, w)
             \/ \E w \in Worker, stake \in StakeAmount : start_mining(q, w, stake)
             \/ \E w \in Worker : stop_mining(q, w)
    <3>1. UNCHANGED PoolStakers
      BY <2>3 DEF set_cap, add_worker, remove_worker, start_mining, stop_mining, DetachWorker, poolVars
    <3> QED BY <1>1, <3>1
  <2> QED BY <2>1, <2>2, <2>3
<1>4. CASE ChainEvent
  <2>1. UNCHANGED PoolStakers
    BY <1>4 DEF ChainEvent, on_gk_message_received, set_cool_down_expiration, set_mining_enable,
                EndBlock, poolVars
  <2> QED BY <1>1, <2>1
<1>5. CASE UNCHANGED vars
  <2>1. UNCHANGED PoolStakers
    BY <1>5 DEF vars, poolVars
  <2> QED BY <1>1, <2>1
<1> QED BY <1>2, <1>3, <1>4, <1>5 DEF Next

\* First come, first served: while stake and requests never wait for each other (NoIdleStake), a
\* request is never passed by a later one, neither by the loop that serves the queue, wherever
\* it is run, nor by a withdrawal paid at once.
THEOREM StakePoolInOrder == Spec /\ []NoIdleStake => FirstComeFirstServed
<1>1. PoolInv /\ NoIdleStake /\ [Next]_vars =>
        [\A pid \in Pools, u, v \in User :
            QueuedBefore(pid, u, v) /\ PoolStakers'[pid][v].shares < PoolStakers[pid][v].shares
              /\ Unlocked(v)' > Unlocked(v) + Dust
            => ~WaitsIn(u, pid)']_vars
  <2> SUFFICES ASSUME PoolInv, NoIdleStake, [Next]_vars, NEW pid \in Pools, NEW u \in User,
                      NEW v \in User
               PROVE  NoOvertaking(pid, u, v)
    BY DEF NoOvertaking
  <2>1. pid \in Pid
    BY DEF Pools
  <2> QED BY <2>1, StepInTurn
<1> QED BY <1>1, StakePoolInv, PTL DEF Spec, FirstComeFirstServed

=============================================================================
