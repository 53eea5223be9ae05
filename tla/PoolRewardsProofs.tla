------------------------- MODULE PoolRewardsProofs --------------------------
(***************************************************************************)
(* What is proved of the rewards, for any pools, users, shares and payouts: *)
(* the records keep their types, and a user's debt to the accumulator is   *)
(* never above what its shares have earned.                                *)
(***************************************************************************)
EXTENDS PoolRewards, SumTheorems

-----------------------------------------------------------------------------
(* Fixed-point amounts *)

\* Products and quotients of amounts are amounts.
LEMMA Arithmetic ==
    /\ \A a, b \in Nat : a * b \in Nat
    /\ \A a \in Nat : \A b \in Nat \ {0} : a \div b \in Nat
  OBVIOUS

\* Multiplication is monotone.
LEMMA TimesMonotone == ASSUME NEW a \in Nat, NEW x \in Nat, NEW y \in Nat, x <= y PROVE a * x <= a * y
  OBVIOUS

\* Division is monotone.
LEMMA DivMonotone ==
    ASSUME NEW x \in Nat, NEW y \in Nat, NEW k \in Nat \ {0}, x <= y
    PROVE  x \div k <= y \div k
<1>1. PICK p \in Nat, q \in Nat : p = x \div k /\ q = y \div k
  OBVIOUS
<1>2. p * k <= x /\ x < (p + 1) * k /\ q * k <= y /\ y < (q + 1) * k
  BY <1>1
<1>3. ~ (q + 1 <= p)
  <2> SUFFICES ASSUME q + 1 <= p PROVE FALSE
    OBVIOUS
  <2>1. (q + 1) * k <= p * k
    OBVIOUS
  <2> QED BY <1>2, <2>1
<1> QED BY <1>1, <1>3

\* A positive balance has a positive fixed-point number (balance_convert::to_fixed).
LEMMA FixedNat ==
    /\ \A n \in Nat : to_fixed(n) \in Nat /\ from_fixed(n) \in Nat
    /\ \A n \in Nat \ {0} : to_fixed(n) # 0
    /\ \A n \in Nat, k \in Nat : n <= k => from_fixed(n) <= from_fixed(k)
<1>1. UNIT \in Nat \ {0} /\ ONE \in Nat \ {0} /\ UNIT <= ONE
  BY BalanceMathAssumption
<1>2. ASSUME NEW n \in Nat PROVE to_fixed(n) \in Nat /\ from_fixed(n) \in Nat
  <2>1. n * ONE \in Nat /\ n * UNIT \in Nat
    BY <1>1, Arithmetic
  <2> QED BY <1>1, <2>1, Arithmetic DEF to_fixed, from_fixed
<1>3. ASSUME NEW n \in Nat \ {0} PROVE to_fixed(n) # 0
  <2>1. n * ONE \in Nat /\ ONE <= n * ONE
    <3>1. ONE * 1 <= ONE * n
      BY <1>1, TimesMonotone
    <3> QED BY <1>1, <3>1, Arithmetic
  <2>2. UNIT <= n * ONE
    BY <1>1, <2>1
  <2>3. 1 = UNIT \div UNIT
    BY <1>1
  <2>4. UNIT \div UNIT <= (n * ONE) \div UNIT
    BY <1>1, <2>1, <2>2, DivMonotone
  <2> QED BY <2>3, <2>4 DEF to_fixed
<1>4. ASSUME NEW n \in Nat, NEW k \in Nat, n <= k PROVE from_fixed(n) <= from_fixed(k)
  <2>1. n * UNIT \in Nat /\ k * UNIT \in Nat /\ n * UNIT <= k * UNIT
    <3>1. UNIT * n <= UNIT * k
      BY <1>1, <1>4, TimesMonotone
    <3> QED BY <1>1, <3>1, Arithmetic
  <2> QED BY <1>1, <2>1, DivMonotone DEF from_fixed
<1> QED BY <1>2, <1>3, <1>4

\* What shares have earned is an amount that does not become less when the accumulator grows.
LEMMA Earned ==
    /\ \A n, y \in Nat : bmul(n, y) \in Nat
    /\ \A n, y, z \in Nat : y <= z => bmul(n, y) <= bmul(n, z)
    /\ \A n \in Nat, m \in Nat \ {0} : FixedRatio(n, m) \in Nat
<1>1. ONE \in Nat \ {0}
  BY BalanceMathAssumption
<1> DEFINE part(n, y) == (to_fixed(n) * y) \div ONE
<1>2. ASSUME NEW n \in Nat, NEW y \in Nat PROVE part(n, y) \in Nat
  <2>1. to_fixed(n) * y \in Nat
    BY FixedNat, Arithmetic
  <2> QED BY <1>1, <2>1, Arithmetic
<1>3. ASSUME NEW n \in Nat, NEW y \in Nat, NEW z \in Nat, y <= z PROVE part(n, y) <= part(n, z)
  <2>1. /\ to_fixed(n) * y \in Nat /\ to_fixed(n) * z \in Nat
        /\ to_fixed(n) * y <= to_fixed(n) * z
    BY <1>3, FixedNat, Arithmetic, TimesMonotone
  <2> QED BY <1>1, <2>1, DivMonotone
<1>4. \A n, y : bmul(n, y) = from_fixed(part(n, y))
  BY DEF bmul
<1>5. ASSUME NEW n \in Nat, NEW m \in Nat \ {0} PROVE FixedRatio(n, m) \in Nat
  <2>1. to_fixed(n) * ONE \in Nat /\ to_fixed(m) \in Nat \ {0}
    BY <1>1, FixedNat, Arithmetic
  <2> QED BY <2>1, Arithmetic DEF FixedRatio
<1> HIDE DEF part
<1> QED BY <1>2, <1>3, <1>4, <1>5, FixedNat

-----------------------------------------------------------------------------
(* The invariant *)

Pool == [reward_acc : Nat, owner_reward : Nat, payout_commission : 0..MILLION]

Staker == [shares : Nat, available_rewards : Nat, reward_debt : Nat]

\* The types of what the accumulator is computed from, and that no debt is above what was earned.
RewardsInv ==
    /\ StakePools \in [Pid -> Pool]
    /\ PoolStakers \in [Pid -> [User -> Staker]]
    /\ WorkerAssignments \in [Worker -> Pid \cup {None}]
    /\ DebtsEarned

\* A call that settles a user first finds a reward that is not negative, and leaves a debt that is
\* exactly what the new shares have earned (settle_user_pending_reward, reset_pending_reward).
LEMMA SettledEven ==
    ASSUME RewardsInv, NEW pid \in Pid, NEW u \in User, NEW shares \in Nat
    PROVE  LET x == settle_user_pending_reward(pid, u, shares)
           IN  x \in Staker /\ x.shares = shares
               /\ x.reward_debt = bmul(shares, StakePools[pid].reward_acc)
<1>1. /\ StakePools[pid].reward_acc \in Nat
      /\ PoolStakers[pid][u].available_rewards \in Nat
      /\ PoolStakers[pid][u].shares \in Nat /\ PoolStakers[pid][u].reward_debt \in Nat
  BY DEF RewardsInv, Pool, Staker
<1>2. /\ bmul(shares, StakePools[pid].reward_acc) \in Nat
      /\ bmul(PoolStakers[pid][u].shares, StakePools[pid].reward_acc) \in Nat
  BY <1>1, Earned
<1>3. pending_reward(pid, u) >= 0
  BY DEF RewardsInv, DebtsEarned
<1>4. pending_reward(pid, u) \in Int
  BY <1>1, <1>2 DEF pending_reward
<1>5. PoolStakers[pid][u].available_rewards + pending_reward(pid, u) \in Nat
  BY <1>1, <1>3, <1>4
<1> QED BY <1>2, <1>5 DEF settle_user_pending_reward, Staker

\* A user's debt is earned when it is what its shares have earned, also with a larger accumulator.
LEMMA StillEarned ==
    ASSUME RewardsInv, StakePools' \in [Pid -> Pool], PoolStakers' \in [Pid -> [User -> Staker]],
           WorkerAssignments' \in [Worker -> Pid \cup {None}],
           \A pid \in Pid : StakePools[pid].reward_acc <= StakePools'[pid].reward_acc,
           \A pid \in Pid, u \in User :
              \/ PoolStakers'[pid][u] = PoolStakers[pid][u]
              \/ PoolStakers'[pid][u].reward_debt
                    = bmul(PoolStakers'[pid][u].shares, StakePools[pid].reward_acc)
    PROVE  RewardsInv'
<1> SUFFICES ASSUME NEW pid \in Pid, NEW u \in User PROVE pending_reward(pid, u)' >= 0
  BY DEF RewardsInv, DebtsEarned
<1> DEFINE x == PoolStakers[pid][u]
           y == PoolStakers'[pid][u]
           a == StakePools[pid].reward_acc
           b == StakePools'[pid].reward_acc
<1>1. /\ a \in Nat /\ b \in Nat /\ a <= b
      /\ x.shares \in Nat /\ x.reward_debt \in Nat
      /\ y.shares \in Nat /\ y.reward_debt \in Nat
  BY DEF RewardsInv, Pool, Staker
<1>2. y.reward_debt <= bmul(y.shares, a)
  <2>1. bmul(x.shares, a) - x.reward_debt >= 0
    BY DEF RewardsInv, DebtsEarned, pending_reward
  <2>2. bmul(x.shares, a) \in Nat /\ bmul(y.shares, a) \in Nat
    BY <1>1, Earned
  <2>3. x.reward_debt <= bmul(x.shares, a)
    BY <1>1, <2>1, <2>2
  <2>4. y = x \/ y.reward_debt = bmul(y.shares, a)
    OBVIOUS
  <2> HIDE DEF x, y, a
  <2> QED BY <1>1, <2>2, <2>3, <2>4
<1>3. bmul(y.shares, a) <= bmul(y.shares, b) /\ bmul(y.shares, a) \in Nat /\ bmul(y.shares, b) \in Nat
  BY <1>1, Earned
<1>4. pending_reward(pid, u)' = bmul(y.shares, b) - y.reward_debt
  BY DEF pending_reward
<1> HIDE DEF y, a, b
<1> QED BY <1>1, <1>2, <1>3, <1>4

-----------------------------------------------------------------------------
(* The pools after a message *)

\* The total of a pool's shares is a number.
LEMMA TotalNat ==
    ASSUME PoolStakers \in [Pid -> [User -> Staker]], NEW pid \in Pid
    PROVE  total_shares(pid) \in Nat
<1> DEFINE f == [u \in User |-> PoolStakers[pid][u].shares]
<1>1. \A u \in User : f[u] \in Nat
  BY DEF Staker
<1> HIDE DEF f
<1>2. SumFunctionOnSet(f, User) \in Nat
  BY <1>1, SumNat, PoolRewardsAssumption
<1> QED BY <1>2 DEF total_shares, f

\* Pools whose accumulators are not behind.
Grown(pools) ==
    /\ pools \in [Pid -> Pool]
    /\ \A pid \in Pid : StakePools[pid].reward_acc <= pools[pid].reward_acc

\* The owner's commission is an amount (handle_pool_new_reward).
LEMMA CommissionNat == ASSUME NEW p \in Pool, NEW n \in Nat PROVE PermillOf(p.payout_commission, n) \in Nat
<1>1. p.payout_commission \in Nat /\ MILLION \in Nat \ {0}
  BY PoolRewardsAssumption DEF Pool
<1>2. p.payout_commission * n \in Nat
  BY <1>1, Arithmetic
<1>3. (p.payout_commission * n) \div MILLION \in Nat
  BY <1>1, <1>2, Arithmetic
<1> QED BY <1>3 DEF PermillOf

\* A new reward makes no accumulator smaller (distribute_reward).
LEMMA RewardGrows ==
    ASSUME PoolStakers \in [Pid -> [User -> Staker]], StakePools \in [Pid -> Pool],
           NEW c, Grown(c.pools), NEW pid \in Pid \cup {None}, NEW n \in Nat
    PROVE  Grown(handle_pool_new_reward(c, pid, n).pools)
<1> DEFINE total == total_shares(pid)
           commission == PermillOf(c.pools[pid].payout_commission, n)
           rest == n - commission
           distributed == IF is_nondust_balance(rest) THEN rest ELSE 0
           acc == c.pools[pid].reward_acc + FixedRatio(distributed, total)
           owner == c.pools[pid].owner_reward + commission
           y == [c.pools[pid] EXCEPT !.owner_reward = owner, !.reward_acc = acc]
           m == handle_pool_new_reward(c, pid, n)
<1>1. m.pools = c.pools \/ m.pools = [c.pools EXCEPT ![pid] = y]
  BY DEF handle_pool_new_reward, Grown
<1>2. CASE m.pools = c.pools
  BY <1>2
<1>3. CASE pid = None
  <2>1. pid \notin Pid
    BY <1>3, PoolRewardsAssumption
  <2> HIDE DEF m, y
  <2>2. [c.pools EXCEPT ![pid] = y] = c.pools
    BY <2>1 DEF Grown
  <2> QED BY <1>1, <2>2 DEF m
<1>4. CASE pid \in Pid /\ n # 0 /\ ~balance_close_to_zero(total)
  <2>1. c.pools[pid] \in Pool /\ Dust \in Nat
    BY <1>4, BalanceMathAssumption DEF Grown
  <2>2. commission \in Nat
    BY <2>1, CommissionNat
  <2>3. distributed \in Nat
    BY <2>1, <2>2 DEF is_nondust_balance, balance_close_to_zero
  <2>4. total \in Nat \ {0}
    BY <2>1, <1>4, TotalNat DEF balance_close_to_zero
  <2>5. FixedRatio(distributed, total) \in Nat
    BY <2>3, <2>4, Earned
  <2>6. acc \in Nat /\ c.pools[pid].reward_acc <= acc /\ owner \in Nat
    BY <2>1, <2>2, <2>5 DEF Pool
  <2> HIDE DEF m, acc, owner
  <2>7. y \in Pool /\ y.reward_acc = acc
    BY <2>1, <2>6 DEF Pool
  <2> HIDE DEF y
  <2>8. ASSUME NEW q \in Pid
        PROVE  StakePools[q].reward_acc <= [c.pools EXCEPT ![pid] = y][q].reward_acc
    <3>1. StakePools[q].reward_acc <= c.pools[q].reward_acc
      BY DEF Grown
    <3>2. StakePools[q].reward_acc \in Nat /\ c.pools[q].reward_acc \in Nat
      BY DEF Grown, Pool
    <3>3. [c.pools EXCEPT ![pid] = y][q] = (IF q = pid THEN y ELSE c.pools[q])
      BY DEF Grown
    <3>4. CASE q = pid
      BY <2>6, <2>7, <3>1, <3>2, <3>3, <3>4
    <3>5. CASE q # pid
      BY <3>1, <3>3, <3>5
    <3> QED BY <3>4, <3>5
  <2>9. [c.pools EXCEPT ![pid] = y] \in [Pid -> Pool]
    BY <2>7 DEF Grown
  <2>10. Grown([c.pools EXCEPT ![pid] = y])
    BY <2>8, <2>9 DEF Grown
  <2> QED BY <1>1, <2>10 DEF m
<1>5. CASE n = 0 \/ balance_close_to_zero(total)
  BY <1>5 DEF handle_pool_new_reward
<1> QED BY <1>3, <1>4, <1>5

\* Settlements: their workers are workers, their payouts fixed-point amounts.
Settled == [worker : Worker, payout : Nat, treasury : Nat]

\* The recursive equation of the settlements served.
ServedEq(settle, D, h) ==
    h = [n \in D |->
            IF n = 0 THEN [pools |-> StakePools, due |-> due, outstanding |-> outstanding]
            ELSE handle_pool_new_reward(h[n - 1], WorkerAssignments[settle[n].worker],
                                        reward(settle[n]))]

\* The settlements of a message are served one after the other (on_reward).
LEMMA ServedSteps ==
    ASSUME NEW settle \in Seq(Settled)
    PROVE  /\ served(settle)[0]
                 = [pools |-> StakePools, due |-> due, outstanding |-> outstanding]
           /\ \A k \in 0..(Len(settle) - 1) :
                 served(settle)[k + 1]
                    = handle_pool_new_reward(served(settle)[k],
                                             WorkerAssignments[settle[k + 1].worker],
                                             reward(settle[k + 1]))
<1> DEFINE L == Len(settle)
           next(c, k) == handle_pool_new_reward(c, WorkerAssignments[settle[k].worker],
                                                reward(settle[k]))
           first == [pools |-> StakePools, due |-> due, outstanding |-> outstanding]
           D(k) == 0..k
           I == {k \in Nat : \E h : ServedEq(settle, D(k), h)}
<1>1. L \in Nat /\ \A k \in 1..L : settle[k] \in Settled
  OBVIOUS
<1>2. 0 \in I
  <2> DEFINE h == [k \in D(0) |-> first]
  <2>1. ServedEq(settle, D(0), h)
    BY DEF ServedEq
  <2> QED BY <2>1
<1>3. ASSUME NEW k \in Nat, k \in I PROVE k + 1 \in I
  <2>1. PICK h : ServedEq(settle, D(k), h)
    BY <1>3
  <2> DEFINE g == [j \in D(k + 1) |-> IF j = 0 THEN first ELSE next(h[j - 1], j)]
  <2> HIDE DEF next, first
  <2>2. h = [j \in D(k) |-> IF j = 0 THEN first ELSE next(h[j - 1], j)]
    BY <2>1 DEF ServedEq, next, first
  <2>3. \A j \in D(k) : g[j] = h[j]
    <3> SUFFICES ASSUME NEW j \in D(k) PROVE g[j] = h[j]
      OBVIOUS
    <3>1. h[j] = (IF j = 0 THEN first ELSE next(h[j - 1], j))
      BY <2>2
    <3>2. j \in D(k + 1)
      BY <1>3
    <3> QED BY <3>1, <3>2
  <2>4. ASSUME NEW j \in D(k + 1) PROVE g[j] = (IF j = 0 THEN first ELSE next(g[j - 1], j))
    <3>1. g[j] = (IF j = 0 THEN first ELSE next(h[j - 1], j))
      OBVIOUS
    <3>2. j # 0 => j - 1 \in D(k)
      BY <1>3, <2>4
    <3>3. j # 0 => g[j - 1] = h[j - 1]
      BY <2>3, <3>2
    <3> HIDE DEF g
    <3> QED BY <3>1, <3>3
  <2>5. g = [j \in D(k + 1) |-> g[j]]
    OBVIOUS
  <2> HIDE DEF g
  <2>6. g = [j \in D(k + 1) |-> IF j = 0 THEN first ELSE next(g[j - 1], j)]
    BY <2>4, <2>5
  <2>7. ServedEq(settle, D(k + 1), g)
    BY <2>6 DEF ServedEq, next, first
  <2> QED BY <2>7
<1>4. Nat \subseteq I
  <2> HIDE DEF I
  <2> QED BY <1>2, <1>3, SetInduction
<1>5. \E h : ServedEq(settle, D(L), h)
  BY <1>1, <1>4
<1>6. served(settle) = CHOOSE h : ServedEq(settle, D(L), h)
  BY DEF served, ServedEq
<1>7. ServedEq(settle, D(L), served(settle))
  BY <1>5, <1>6
<1>8. served(settle)[0] = first
  BY <1>1, <1>7 DEF ServedEq
<1>9. ASSUME NEW k \in 0..(L - 1)
      PROVE  served(settle)[k + 1] = next(served(settle)[k], k + 1)
  <2> HIDE DEF next, first
  <2>1. served(settle) = [j \in D(L) |-> IF j = 0 THEN first ELSE next(served(settle)[j - 1], j)]
    BY <1>7 DEF ServedEq, next, first
  <2>2. k + 1 \in D(L) /\ k + 1 # 0 /\ (k + 1) - 1 = k
    BY <1>1
  <2>3. served(settle)[k + 1] = next(served(settle)[(k + 1) - 1], k + 1)
    BY <2>1, <2>2
  <2> QED BY <2>2, <2>3
<1> QED BY <1>8, <1>9

\* Serving the settlements of a message makes no accumulator smaller (on_reward).
LEMMA ServedGrows ==
    ASSUME PoolStakers \in [Pid -> [User -> Staker]], StakePools \in [Pid -> Pool],
           WorkerAssignments \in [Worker -> Pid \cup {None}],
           NEW settle \in Seq(Settled), NEW n \in 0..Len(settle)
    PROVE  Grown(served(settle)[n].pools)
<1> DEFINE J == {k \in Nat : k <= Len(settle) => Grown(served(settle)[k].pools)}
<1>1. Len(settle) \in Nat /\ \A k \in 1..Len(settle) : settle[k] \in Settled
  OBVIOUS
<1>2. 0 \in J
  <2>1. served(settle)[0].pools = StakePools
    BY ServedSteps
  <2>2. Grown(StakePools)
    BY DEF Grown, Pool
  <2> QED BY <2>1, <2>2
<1>3. ASSUME NEW k \in Nat, k \in J PROVE k + 1 \in J
  <2> SUFFICES ASSUME k + 1 <= Len(settle) PROVE Grown(served(settle)[k + 1].pools)
    OBVIOUS
  <2>1. k \in 0..(Len(settle) - 1)
    BY <1>1
  <2>2. served(settle)[k + 1]
           = handle_pool_new_reward(served(settle)[k], WorkerAssignments[settle[k + 1].worker],
                                    reward(settle[k + 1]))
    BY <2>1, ServedSteps
  <2>3. Grown(served(settle)[k].pools)
    BY <1>1, <1>3
  <2>4. /\ WorkerAssignments[settle[k + 1].worker] \in Pid \cup {None}
        /\ reward(settle[k + 1]) \in Nat
    <3>1. settle[k + 1] \in Settled
      BY <1>1
    <3> QED BY <3>1, FixedNat DEF Settled, reward
  <2>5. Grown(handle_pool_new_reward(served(settle)[k], WorkerAssignments[settle[k + 1].worker],
                                     reward(settle[k + 1])).pools)
    BY <2>3, <2>4, RewardGrows
  <2> QED BY <2>2, <2>5
<1>4. Nat \subseteq J
  <2> HIDE DEF J
  <2> QED BY <1>2, <1>3, SetInduction
<1> QED BY <1>1, <1>4

-----------------------------------------------------------------------------
(* Steps *)

\* A call that changes shares (contribute, withdraw, reclaim).
LEMMA ChangeSharesKeeps ==
    ASSUME RewardsInv, NEW pid \in Pid, NEW us \in SUBSET User, NEW shares \in [us -> Shares],
           ChangeShares(pid, shares)
    PROVE  RewardsInv'
<1> DEFINE changed(u) == settle_user_pending_reward(pid, u, shares[u])
           row == [u \in User |-> IF u \in us THEN changed(u) ELSE PoolStakers[pid][u]]
<1>1. PoolStakers' = [PoolStakers EXCEPT ![pid] = row]
  BY DEF ChangeShares
<1>2. PoolStakers \in [Pid -> [User -> Staker]] /\ StakePools \in [Pid -> Pool]
  BY DEF RewardsInv
<1>3. UNCHANGED <<StakePools, WorkerAssignments>>
  BY DEF ChangeShares
<1>4. \A u \in us : shares[u] \in Nat
  BY PoolRewardsAssumption
<1>5. ASSUME NEW u \in us
      PROVE  /\ changed(u) \in Staker
             /\ changed(u).reward_debt = bmul(changed(u).shares, StakePools[pid].reward_acc)
  BY <1>4, SettledEven
<1> HIDE DEF changed
<1>6. row \in [User -> Staker]
  BY <1>2, <1>5
<1>7. ASSUME NEW q \in Pid, NEW u \in User
      PROVE  \/ PoolStakers'[q][u] = PoolStakers[q][u]
             \/ PoolStakers'[q][u].reward_debt
                   = bmul(PoolStakers'[q][u].shares, StakePools[q].reward_acc)
  <2>1. CASE q = pid /\ u \in us
    <3>1. PoolStakers'[q][u] = changed(u)
      BY <1>1, <1>2, <2>1
    <3> QED BY <1>5, <2>1, <3>1
  <2>2. CASE ~(q = pid /\ u \in us)
    BY <1>1, <1>2, <2>2
  <2> QED BY <2>1, <2>2
<1> HIDE DEF row
<1>8. PoolStakers' \in [Pid -> [User -> Staker]]
  BY <1>1, <1>2, <1>6
<1>9. \A q \in Pid : StakePools[q].reward_acc <= StakePools'[q].reward_acc
  BY <1>2, <1>3 DEF Pool
<1> QED
  <2>1. StakePools' \in [Pid -> Pool] /\ WorkerAssignments' \in [Worker -> Pid \cup {None}]
    BY <1>2, <1>3 DEF RewardsInv
  <2> QED BY <1>7, <1>8, <1>9, <2>1, StillEarned

\* Settings and assignments move neither shares nor debts.
LEMMA AdminKeeps ==
    ASSUME RewardsInv,
           \/ \E w \in Worker, pid \in Pid \cup {None} : assign(w, pid)
           \/ \E pid \in Pid, commission \in Commission : set_payout_pref(pid, commission)
    PROVE  RewardsInv'
<1>1. PoolStakers' = PoolStakers
  BY DEF assign, set_payout_pref
<1>2. WorkerAssignments' \in [Worker -> Pid \cup {None}]
  BY DEF assign, set_payout_pref, RewardsInv
<1>3. /\ StakePools' \in [Pid -> Pool]
      /\ \A q \in Pid : StakePools'[q].reward_acc = StakePools[q].reward_acc
  <2>1. CASE UNCHANGED StakePools
    BY <2>1 DEF RewardsInv
  <2>2. ASSUME NEW pid \in Pid, NEW commission \in Commission, set_payout_pref(pid, commission)
        PROVE  /\ StakePools' \in [Pid -> Pool]
               /\ \A q \in Pid : StakePools'[q].reward_acc = StakePools[q].reward_acc
    <3> DEFINE y == [StakePools[pid] EXCEPT !.payout_commission = commission]
    <3>1. StakePools' = [StakePools EXCEPT ![pid] = y]
      BY <2>2 DEF set_payout_pref
    <3>2. y \in Pool /\ y.reward_acc = StakePools[pid].reward_acc
      <4>1. commission \in 0..MILLION /\ StakePools[pid] \in Pool
        BY PoolRewardsAssumption DEF RewardsInv
      <4> QED BY <4>1 DEF Pool
    <3> HIDE DEF y
    <3> QED BY <3>1, <3>2 DEF RewardsInv
  <2> QED BY <2>1, <2>2 DEF assign
<1>4. \A q \in Pid : StakePools[q].reward_acc <= StakePools'[q].reward_acc
  <2> SUFFICES ASSUME NEW q \in Pid PROVE StakePools[q].reward_acc <= StakePools'[q].reward_acc
    OBVIOUS
  <2>1. StakePools[q].reward_acc \in Nat
    BY DEF RewardsInv, Pool
  <2> QED BY <1>3, <2>1
<1>5. PoolStakers' \in [Pid -> [User -> Staker]]
  BY <1>1 DEF RewardsInv
<1> QED BY <1>1, <1>2, <1>3, <1>4, <1>5, StillEarned

\* The size of an interval that starts at 1.
LEMMA IntervalSize == ASSUME NEW n \in Nat PROVE IsFiniteSet(1..n) /\ Cardinality(1..n) = n
<1>1. IsFiniteSet(1..n) /\ Cardinality(1..n) = IF 1 > n THEN 0 ELSE (n - 1) + 1
  BY FS_Interval
<1> QED BY <1>1

\* No more settlements are served than there are.
LEMMA RewardedSize ==
    ASSUME NEW settle \in Seq(Settled)
    PROVE  Cardinality(Rewarded(settle)) \in 0..Len(settle) /\ IsFiniteSet(Rewarded(settle))
<1>1. PICK L \in Nat : L = Len(settle)
  OBVIOUS
<1>2. IsFiniteSet(1..L) /\ Cardinality(1..L) = L
  BY IntervalSize
<1>3. Rewarded(settle) \subseteq 1..L
  BY <1>1 DEF Rewarded
<1>4. IsFiniteSet(Rewarded(settle)) /\ Cardinality(Rewarded(settle)) <= L
  BY <1>2, <1>3, FS_Subset
<1>5. Cardinality(Rewarded(settle)) \in Nat
  BY <1>4, FS_CardinalityType
<1> QED BY <1>1, <1>4, <1>5

\* A message's settlements.
LEMMA SettlementTypes == \A settle \in Settlements : settle \in Seq(Settled)
<1> SUFFICES ASSUME NEW settle \in Settlements PROVE settle \in Seq(Settled)
  OBVIOUS
<1>1. PICK ws \in SeqOf(Worker, Cardinality(Worker)), p \in Payout, t \in Treasury :
          settle = [i \in DOMAIN ws |-> [worker |-> ws[i], payout |-> p, treasury |-> t]]
  BY DEF Settlements
<1>2. Cardinality(Worker) \in Nat
  BY PoolRewardsAssumption, FS_CardinalityType
<1>3. PICK k \in 0..Cardinality(Worker) : ws \in [1..k -> Worker]
  BY DEF SeqOf
<1>4. p \in Nat /\ t \in Nat /\ k \in Nat
  BY <1>2, PoolRewardsAssumption
<1>5. settle \in [1..k -> Settled]
  <2>1. DOMAIN ws = 1..k /\ \A i \in 1..k : ws[i] \in Worker
    BY <1>3
  <2>2. \A i \in 1..k : [worker |-> ws[i], payout |-> p, treasury |-> t] \in Settled
    BY <1>4, <2>1 DEF Settled
  <2>3. settle = [i \in 1..k |-> [worker |-> ws[i], payout |-> p, treasury |-> t]]
    BY <1>1, <2>1, Zenon
  <2> HIDE DEF Settled
  <2> QED BY <2>2, <2>3
<1> QED BY <1>4, <1>5

\* A message with settlements (on_reward).
LEMMA RewardKeeps ==
    ASSUME RewardsInv, NEW settle \in Settlements, on_reward(settle)
    PROVE  RewardsInv'
<1> DEFINE n == Cardinality(Rewarded(settle))
<1>1. settle \in Seq(Settled) /\ Len(settle) \in Nat
  BY SettlementTypes
<1>2. n \in 0..Len(settle)
  BY <1>1, RewardedSize
<1>3. StakePools' = served(settle)[n].pools /\ UNCHANGED <<PoolStakers, WorkerAssignments>>
  BY DEF on_reward
<1> HIDE DEF n
<1>4. Grown(served(settle)[n].pools)
  BY <1>1, <1>2, ServedGrows DEF RewardsInv
<1>5. /\ StakePools' \in [Pid -> Pool]
      /\ \A q \in Pid : StakePools[q].reward_acc <= StakePools'[q].reward_acc
  BY <1>3, <1>4 DEF Grown
<1>6. /\ PoolStakers' \in [Pid -> [User -> Staker]]
      /\ WorkerAssignments' \in [Worker -> Pid \cup {None}]
  BY <1>3 DEF RewardsInv
<1> QED BY <1>3, <1>5, <1>6, StillEarned

\* A claim (claim_rewards).
LEMMA ClaimKeeps ==
    ASSUME RewardsInv, NEW pid \in Pid, NEW u \in User, claim_rewards(pid, u)
    PROVE  RewardsInv'
<1> DEFINE x == settle_user_pending_reward(pid, u, PoolStakers[pid][u].shares)
           y == [x EXCEPT !.available_rewards = 0]
           owner == StakePools[pid].owner_reward - owned_reward(pid, u)
           pool == [StakePools[pid] EXCEPT !.owner_reward = owner]
<1>1. PoolStakers \in [Pid -> [User -> Staker]] /\ StakePools \in [Pid -> Pool]
  BY DEF RewardsInv
<1>2. /\ PoolStakers' = [PoolStakers EXCEPT ![pid] = [PoolStakers[pid] EXCEPT ![u] = y]]
      /\ StakePools' = [StakePools EXCEPT ![pid] = pool]
      /\ WorkerAssignments' = WorkerAssignments
  BY DEF claim_rewards
<1>3. PoolStakers[pid][u].shares \in Nat /\ StakePools[pid].owner_reward \in Nat
  BY <1>1 DEF Staker, Pool
<1>4. x \in Staker /\ x.reward_debt = bmul(x.shares, StakePools[pid].reward_acc)
  BY <1>3, SettledEven
<1> HIDE DEF x
<1>5. y \in Staker /\ y.reward_debt = bmul(y.shares, StakePools[pid].reward_acc)
  BY <1>4 DEF Staker
<1> HIDE DEF y
<1>6. owner \in Nat
  <2>1. owned_reward(pid, u) = StakePools[pid].owner_reward \/ owned_reward(pid, u) = 0
    BY DEF owned_reward
  <2> QED BY <1>3, <2>1
<1> HIDE DEF owner
<1>7. pool \in Pool /\ pool.reward_acc = StakePools[pid].reward_acc
  BY <1>1, <1>6 DEF Pool
<1> HIDE DEF pool
<1>8. /\ StakePools' \in [Pid -> Pool]
      /\ \A q \in Pid : StakePools'[q].reward_acc = StakePools[q].reward_acc
  BY <1>1, <1>2, <1>7
<1>9. \A q \in Pid : StakePools[q].reward_acc <= StakePools'[q].reward_acc
  <2> SUFFICES ASSUME NEW q \in Pid PROVE StakePools[q].reward_acc <= StakePools'[q].reward_acc
    OBVIOUS
  <2>1. StakePools[q].reward_acc \in Nat
    BY <1>1 DEF Pool
  <2> QED BY <1>8, <2>1
<1>10. PoolStakers' \in [Pid -> [User -> Staker]]
  BY <1>1, <1>2, <1>5
<1>11. ASSUME NEW q \in Pid, NEW v \in User
       PROVE  \/ PoolStakers'[q][v] = PoolStakers[q][v]
              \/ PoolStakers'[q][v].reward_debt
                    = bmul(PoolStakers'[q][v].shares, StakePools[q].reward_acc)
  <2>1. CASE q = pid /\ v = u
    BY <1>1, <1>2, <1>5, <2>1
  <2>2. CASE ~(q = pid /\ v = u)
    BY <1>1, <1>2, <2>2
  <2> QED BY <2>1, <2>2
<1>12. WorkerAssignments' \in [Worker -> Pid \cup {None}]
  BY <1>2 DEF RewardsInv
<1> QED BY <1>8, <1>9, <1>10, <1>11, <1>12, StillEarned

\* Nothing is owed at the start.
LEMMA InitRewards == Init => RewardsInv
<1> SUFFICES ASSUME Init PROVE RewardsInv
  OBVIOUS
<1>1. MILLION \in Nat
  BY PoolRewardsAssumption
<1>2. StakePools \in [Pid -> Pool]
  BY <1>1 DEF Init, Pool
<1>3. PoolStakers \in [Pid -> [User -> Staker]] /\ WorkerAssignments \in [Worker -> Pid \cup {None}]
  BY DEF Init, Staker
<1>4. ASSUME NEW pid \in Pid, NEW u \in User PROVE pending_reward(pid, u) >= 0
  <2>1. pending_reward(pid, u) = bmul(0, 0) - 0
    BY DEF Init, pending_reward
  <2>2. bmul(0, 0) \in Nat
    BY Earned
  <2> QED BY <2>1, <2>2
<1> QED BY <1>2, <1>3, <1>4 DEF RewardsInv, DebtsEarned

\* The pools, the stakers and the assignments keep their types, and no user's debt to the accumulator
\* is ever above what its shares have earned: the unsigned subtraction in Accumulator::pending does
\* not wrap around, whatever the fixed-point resolution and the amounts are.
THEOREM RewardsInvHolds == Spec => []RewardsInv
<1>1. ASSUME RewardsInv, [Next]_vars PROVE RewardsInv'
  <2>1. CASE \E pid \in Pid : \E us \in SUBSET User : \E shares \in [us -> Shares] :
                ChangeShares(pid, shares)
    BY <1>1, <2>1, ChangeSharesKeeps
  <2>2. CASE \/ \E w \in Worker, pid \in Pid \cup {None} : assign(w, pid)
             \/ \E pid \in Pid, commission \in Commission : set_payout_pref(pid, commission)
    BY <1>1, <2>2, AdminKeeps
  <2>3. CASE \E settle \in Settlements : on_reward(settle)
    BY <1>1, <2>3, RewardKeeps
  <2>4. CASE \E pid \in Pid, u \in User : claim_rewards(pid, u)
    BY <1>1, <2>4, ClaimKeeps
  <2>5. CASE UNCHANGED vars
    BY <1>1, <2>5 DEF vars, RewardsInv, DebtsEarned, pending_reward
  <2> QED BY <1>1, <2>1, <2>2, <2>3, <2>4, <2>5 DEF Next
<1> QED BY <1>1, InitRewards, PTL DEF Spec

\* Accumulator::pending never subtracts more than was earned (utils/accumulator.rs).
THEOREM DebtsEarnedHolds == Spec => []DebtsEarned
<1>1. RewardsInv => DebtsEarned
  BY DEF RewardsInv
<1> QED BY <1>1, RewardsInvHolds, PTL

-----------------------------------------------------------------------------
(* A reward that is shared out *)

\* Adding y to a dividend adds to the quotient at most what y is of the divisor, and one.
LEMMA DivStep ==
    ASSUME NEW x \in Nat, NEW y \in Nat, NEW k \in Nat \ {0}
    PROVE  \E n \in Nat : (x + y) \div k = (x \div k) + n /\ n * k <= y + k
<1>1. PICK p \in Nat, q \in Nat : p = x \div k /\ q = (x + y) \div k
  OBVIOUS
<1>2. x < (p + 1) * k /\ q * k <= x + y
  BY <1>1
<1>3. p <= q
  BY <1>1, DivMonotone
<1>4. PICK n \in Nat : q = p + n
  BY <1>3
<1>5. n * k <= y + k
  <2>1. q * k = p * k + n * k /\ (p + 1) * k = p * k + 1 * k
    BY <1>4, Distribute
  <2>2. p * k \in Nat /\ n * k \in Nat /\ 1 * k = k
    OBVIOUS
  <2> QED BY <1>2, <2>1, <2>2
<1> QED BY <1>1, <1>4, <1>5

\* A growth of the accumulator by r makes shares earn m units more: about what n is worth, and n is
\* about their product with r in fixed point.
Earns(shares, a, r, n, m) ==
    /\ bmul(shares, a + r) = bmul(shares, a) + m
    /\ n * ONE <= to_fixed(shares) * r + ONE
    /\ m * ONE <= n * UNIT + ONE

\* What shares earn when the accumulator grows.
LEMMA EarnedStep ==
    ASSUME NEW s \in Nat, NEW a \in Nat, NEW r \in Nat
    PROVE  \E n \in Nat, m \in Nat : Earns(s, a, r, n, m)
<1>1. ONE \in Nat \ {0} /\ UNIT \in Nat
  BY BalanceMathAssumption
<1>2. PICK f \in Nat : f = to_fixed(s)
  BY FixedNat
<1>3. f * a \in Nat /\ f * r \in Nat /\ f * (a + r) = f * a + f * r
  BY Arithmetic
<1>4. PICK n \in Nat : (f * a + f * r) \div ONE = ((f * a) \div ONE) + n /\ n * ONE <= f * r + ONE
  BY <1>1, <1>3, DivStep
<1>5. PICK x \in Nat : x = (f * a) \div ONE
  BY <1>1, <1>3, Arithmetic
<1>6. x * UNIT \in Nat /\ n * UNIT \in Nat /\ (x + n) * UNIT = x * UNIT + n * UNIT
  BY <1>1, Arithmetic, Distribute
<1>7. PICK m \in Nat : /\ (x * UNIT + n * UNIT) \div ONE = ((x * UNIT) \div ONE) + m
                       /\ m * ONE <= n * UNIT + ONE
  BY <1>1, <1>6, DivStep
<1>8. bmul(s, a) = (x * UNIT) \div ONE
  BY <1>2, <1>5 DEF bmul, from_fixed
<1>9. bmul(s, a + r) = (x * UNIT + n * UNIT) \div ONE
  <2>1. (f * (a + r)) \div ONE = x + n
    BY <1>3, <1>4, <1>5
  <2>2. bmul(s, a + r) = ((x + n) * UNIT) \div ONE
    BY <1>2, <2>1 DEF bmul, from_fixed
  <2> QED BY <1>6, <2>2
<1>10. bmul(s, a + r) = bmul(s, a) + m /\ n * ONE <= to_fixed(s) * r + ONE
  BY <1>2, <1>4, <1>7, <1>8, <1>9
<1> QED BY <1>7, <1>10 DEF Earns

\* A quotient times its divisor is not above the dividend.
LEMMA DivBelow == ASSUME NEW x \in Nat, NEW k \in Nat \ {0} PROVE (x \div k) * k <= x
  OBVIOUS

\* A bound that holds k times holds once.
LEMMA CancelTimes ==
    ASSUME NEW x \in Nat, NEW y \in Nat, NEW k \in Nat \ {0}, x * k <= y * k PROVE x <= y
<1> SUFFICES ASSUME y + 1 <= x PROVE FALSE
  OBVIOUS
<1>1. k * (y + 1) <= k * x
  BY TimesMonotone
<1>2. k * (y + 1) = y * k + k /\ k * x = x * k
  OBVIOUS
<1>3. y * k \in Nat /\ x * k \in Nat
  OBVIOUS
<1> QED BY <1>1, <1>2, <1>3

\* A bound of a multiple is a bound of the quotient.
LEMMA DivAbove ==
    ASSUME NEW n \in Nat, NEW x \in Nat, NEW k \in Nat \ {0}, n * k <= x PROVE n <= x \div k
<1>1. PICK q \in Nat : q = x \div k
  OBVIOUS
<1>2. x < (q + 1) * k
  BY <1>1
<1> SUFFICES ASSUME q + 1 <= n PROVE FALSE
  BY <1>1
<1>3. k * (q + 1) <= k * n
  BY TimesMonotone
<1>4. k * (q + 1) = (q + 1) * k /\ k * n = n * k /\ (q + 1) * k \in Nat /\ n * k \in Nat
  OBVIOUS
<1> QED BY <1>2, <1>3, <1>4

\* A reward of d per shares: together they earn no more than d and the rounding of each
\* (distribute_reward, and Accumulator::pending of every user).
LEMMA SharedOut ==
    ASSUME NEW shares \in [User -> Nat], NEW a \in Nat, NEW d \in Nat,
           NEW total \in Nat \ {0}, total = SumFunctionOnSet(shares, User)
    PROVE  LET r == FixedRatio(d, total)
           IN  SumFunctionOnSet([u \in User |-> bmul(shares[u], a + r)], User)
                  <= SumFunctionOnSet([u \in User |-> bmul(shares[u], a)], User) + d + RoundedUp
<1>1. /\ ONE \in Nat \ {0} /\ UNIT \in Nat \ {0} /\ IsFiniteSet(User)
      /\ Cardinality(User) \in Nat
  BY BalanceMathAssumption, PoolRewardsAssumption, FS_CardinalityType
<1>2. PICK c \in Nat : c = Cardinality(User)
  BY <1>1
<1>3. PICK r \in Nat : r = FixedRatio(d, total)
  BY Earned
<1>4. PICK n \in [User -> Nat], m \in [User -> Nat] :
         \A u \in User : Earns(shares[u], a, r, n[u], m[u])
  <2> DEFINE Fits(u, i, j) == Earns(shares[u], a, r, i, j)
  <2>1. \A u \in User : \E i \in Nat, j \in Nat : Fits(u, i, j)
    BY EarnedStep
  <2> HIDE DEF Fits
  <2> DEFINE n == [u \in User |-> CHOOSE i \in Nat : \E j \in Nat : Fits(u, i, j)]
             m == [u \in User |-> CHOOSE j \in Nat : Fits(u, n[u], j)]
  <2>2. \A u \in User : n[u] \in Nat /\ \E j \in Nat : Fits(u, n[u], j)
    BY <2>1
  <2>3. \A u \in User : m[u] \in Nat /\ Fits(u, n[u], m[u])
    <3> HIDE DEF n
    <3> QED BY <2>2
  <2>4. n \in [User -> Nat] /\ m \in [User -> Nat]
    <3>1. n \in [User -> Nat]
      BY <2>2
    <3>2. m \in [User -> Nat]
      BY <2>3
    <3> QED BY <3>1, <3>2
  <2> HIDE DEF n, m
  <2> QED BY <2>3, <2>4 DEF Fits
<1> DEFINE fixed == [u \in User |-> to_fixed(shares[u])]
           before == [u \in User |-> bmul(shares[u], a)]
           after == [u \in User |-> bmul(shares[u], a + r)]
<1>5. ASSUME NEW u \in User
      PROVE  fixed[u] \in Nat /\ before[u] \in Nat /\ after[u] \in Nat
  <2>1. shares[u] \in Nat /\ a + r \in Nat
    OBVIOUS
  <2>2. to_fixed(shares[u]) \in Nat
    BY <2>1, FixedNat
  <2>3. bmul(shares[u], a) \in Nat /\ bmul(shares[u], a + r) \in Nat
    BY <2>1, Earned
  <2> QED BY <2>2, <2>3
<1>6. SumFunctionOnSet(after, User) = SumFunctionOnSet(before, User) + SumFunctionOnSet(m, User)
  <2>1. \A u \in User : before[u] \in Int /\ m[u] \in Int /\ after[u] = before[u] + m[u]
    BY <1>4, <1>5 DEF Earns
  <2> HIDE DEF before, after
  <2> QED BY <1>1, <2>1, SumPlus
<1>7. PICK F \in Nat, N \in Nat, M \in Nat :
         /\ F = SumFunctionOnSet(fixed, User)
         /\ N = SumFunctionOnSet(n, User)
         /\ M = SumFunctionOnSet(m, User)
  <2> HIDE DEF fixed
  <2>1. SumFunctionOnSet(fixed, User) \in Nat
    BY <1>1, <1>5, SumNat
  <2>2. SumFunctionOnSet(n, User) \in Nat
    BY <1>1, SumNat
  <2>3. SumFunctionOnSet(m, User) \in Nat
    BY <1>1, SumNat
  <2> QED BY <2>1, <2>2, <2>3
<1>8. N * ONE <= F * r + c * ONE
  <2>1. Bounded(n, fixed, User, ONE, r, ONE)
    BY <1>4, <1>5 DEF Bounded, Earns
  <2> HIDE DEF fixed
  <2> QED BY <1>1, <1>2, <1>7, <2>1, SumScaled
<1>9. M * ONE <= N * UNIT + c * ONE
  <2>1. Bounded(m, n, User, ONE, UNIT, ONE)
    BY <1>4 DEF Bounded, Earns
  <2> QED BY <1>1, <1>2, <1>7, <2>1, SumScaled
<1>10. PICK T \in Nat \ {0}, D \in Nat : T = to_fixed(total) /\ D = to_fixed(d)
  BY FixedNat
<1>11. F <= T
  <2>1. Bounded(fixed, shares, User, UNIT, ONE, 0)
    <3> SUFFICES ASSUME NEW u \in User PROVE fixed[u] * UNIT <= shares[u] * ONE + 0
      BY <1>5 DEF Bounded
    <3>1. shares[u] * ONE \in Nat
      BY <1>1, Arithmetic
    <3>2. ((shares[u] * ONE) \div UNIT) * UNIT <= shares[u] * ONE
      BY <1>1, <3>1, DivBelow
    <3> QED BY <3>1, <3>2 DEF to_fixed
  <2> HIDE DEF fixed
  <2>2. F * UNIT <= total * ONE + c * 0
    BY <1>1, <1>2, <1>7, <2>1, SumScaled
  <2>3. total * ONE \in Nat /\ c * 0 = 0
    BY <1>1, Arithmetic
  <2>4. F <= (total * ONE) \div UNIT
    BY <1>1, <2>2, <2>3, DivAbove
  <2> QED BY <1>10, <2>4 DEF to_fixed
<1> HIDE DEF fixed, before, after
<1>12. F * r <= D * ONE
  <2>1. r * F <= r * T
    BY <1>11, TimesMonotone
  <2>2. D * ONE \in Nat /\ r = (D * ONE) \div T
    BY <1>1, <1>3, <1>10, Arithmetic DEF FixedRatio
  <2>3. r * T <= D * ONE
    BY <2>2, DivBelow
  <2>4. r * F = F * r /\ F * r \in Nat /\ r * T \in Nat
    OBVIOUS
  <2> QED BY <2>1, <2>2, <2>3, <2>4
<1>13. N <= D + c
  <2>1. (D + c) * ONE = D * ONE + c * ONE
    BY <1>1, Distribute
  <2>2. F * r \in Nat /\ D * ONE \in Nat /\ c * ONE \in Nat /\ N * ONE \in Nat
    BY <1>1, Arithmetic
  <2>3. N * ONE <= (D + c) * ONE
    BY <1>8, <1>12, <2>1, <2>2
  <2> QED BY <1>1, <2>3, CancelTimes
<1>14. N * UNIT <= d * ONE + c * UNIT
  <2>1. UNIT * N <= UNIT * (D + c)
    BY <1>1, <1>13, TimesMonotone
  <2>2. UNIT * N = N * UNIT /\ UNIT * (D + c) = (D + c) * UNIT
    BY <1>1
  <2>3. (D + c) * UNIT = D * UNIT + c * UNIT
    BY <1>1, Distribute
  <2>4. d * ONE \in Nat
    BY <1>1, Arithmetic
  <2>5. D * UNIT <= d * ONE
    BY <1>1, <1>10, <2>4, DivBelow DEF to_fixed
  <2>6. N * UNIT \in Nat /\ D * UNIT \in Nat /\ c * UNIT \in Nat
    BY <1>1, Arithmetic
  <2> QED BY <2>1, <2>2, <2>3, <2>4, <2>5, <2>6
<1>15. M <= d + c + (c * UNIT) \div ONE
  <2>1. PICK e \in Nat : e = c * UNIT
    BY <1>1, Arithmetic
  <2>2. d * ONE \in Nat /\ c * ONE \in Nat /\ M * ONE \in Nat /\ N * UNIT \in Nat
    BY <1>1, Arithmetic
  <2>3. (d + c) * ONE = d * ONE + c * ONE
    BY <1>1, Distribute
  <2>4. M * ONE <= (d + c) * ONE + e
    BY <1>9, <1>14, <2>1, <2>2, <2>3
  <2>5. CASE M <= d + c
    <3>1. e \div ONE \in Nat
      BY <1>1, Arithmetic
    <3> QED BY <2>1, <2>5, <3>1
  <2>6. CASE ~(M <= d + c)
    <3>1. PICK x \in Nat : M = (d + c) + x
      BY <2>6
    <3>2. M * ONE = (d + c) * ONE + x * ONE
      BY <1>1, <3>1, Distribute
    <3>3. (d + c) * ONE \in Nat /\ x * ONE \in Nat
      BY <1>1, Arithmetic
    <3>4. x * ONE <= e
      BY <2>4, <3>2, <3>3
    <3>5. x <= e \div ONE
      BY <1>1, <3>4, DivAbove
    <3>6. e \div ONE \in Nat
      BY <1>1, Arithmetic
    <3> QED BY <2>1, <3>1, <3>5, <3>6
  <2> QED BY <2>5, <2>6
<1>16. RoundedUp = c + (c * UNIT) \div ONE
  BY <1>2 DEF RoundedUp
<1>17. SumFunctionOnSet(before, User) \in Nat /\ (c * UNIT) \div ONE \in Nat
  <2>1. SumFunctionOnSet(before, User) \in Nat
    BY <1>1, <1>5, SumNat
  <2>2. c * UNIT \in Nat
    BY <1>1, Arithmetic
  <2> QED BY <1>1, <2>1, <2>2, Arithmetic
<1>18. SumFunctionOnSet(after, User) <= SumFunctionOnSet(before, User) + d + RoundedUp
  BY <1>6, <1>7, <1>15, <1>16, <1>17
<1> QED BY <1>3, <1>18 DEF before, after

-----------------------------------------------------------------------------
(* Claims *)

\* What a user could claim in a pool, all users in it, and all users in all pools, when the pools
\* are the given ones.
Worth(pools, pid, u) ==
    PoolStakers[pid][u].available_rewards
      + (bmul(PoolStakers[pid][u].shares, pools[pid].reward_acc) - PoolStakers[pid][u].reward_debt)
PoolClaims(pools, pid) ==
    pools[pid].owner_reward + SumFunctionOnSet([u \in User |-> Worth(pools, pid, u)], User)
Claims(pools) == SumFunctionOnSet([pid \in Pid |-> PoolClaims(pools, pid)], Pid)

\* These are the claims of the pools as they are.
LEMMA ClaimsNow == claims = Claims(StakePools)
  BY DEF claims, pool_claims, settled_reward, pending_reward, Claims, PoolClaims, Worth

\* Claims are numbers.
LEMMA ClaimsInt ==
    ASSUME PoolStakers \in [Pid -> [User -> Staker]], NEW pools \in [Pid -> Pool]
    PROVE  /\ \A pid \in Pid, u \in User : Worth(pools, pid, u) \in Int
           /\ \A pid \in Pid : PoolClaims(pools, pid) \in Int
           /\ Claims(pools) \in Int
<1>1. ASSUME NEW pid \in Pid, NEW u \in User PROVE Worth(pools, pid, u) \in Int
  <2>1. /\ PoolStakers[pid][u].shares \in Nat /\ PoolStakers[pid][u].reward_debt \in Nat
        /\ PoolStakers[pid][u].available_rewards \in Nat
        /\ pools[pid].reward_acc \in Nat
    BY DEF Staker, Pool
  <2>2. bmul(PoolStakers[pid][u].shares, pools[pid].reward_acc) \in Nat
    BY <2>1, Earned
  <2> QED BY <2>1, <2>2 DEF Worth
<1>2. ASSUME NEW pid \in Pid PROVE PoolClaims(pools, pid) \in Int
  <2> DEFINE f == [u \in User |-> Worth(pools, pid, u)]
  <2>1. \A u \in User : f[u] \in Int
    BY <1>1
  <2> HIDE DEF f
  <2>2. SumFunctionOnSet(f, User) \in Int
    BY <2>1, SumInt, PoolRewardsAssumption
  <2>3. pools[pid].owner_reward \in Nat
    BY DEF Pool
  <2> QED BY <2>2, <2>3 DEF PoolClaims, f
<1>3. Claims(pools) \in Int
  <2> DEFINE f == [pid \in Pid |-> PoolClaims(pools, pid)]
  <2>1. \A pid \in Pid : f[pid] \in Int
    BY <1>2
  <2> HIDE DEF f
  <2>2. SumFunctionOnSet(f, Pid) \in Int
    BY <2>1, SumInt, PoolRewardsAssumption
  <2> QED BY <2>2 DEF Claims, f
<1> QED BY <1>1, <1>2, <1>3

\* The slack for one reward.
LEMMA RoundedUpNat == RoundedUp \in Nat
<1>1. /\ ONE \in Nat \ {0} /\ UNIT \in Nat
      /\ Cardinality(User) \in Nat
  BY BalanceMathAssumption, PoolRewardsAssumption, FS_CardinalityType
<1>2. PICK c \in Nat : c = Cardinality(User)
  BY <1>1
<1>3. c * UNIT \in Nat
  BY <1>1, Arithmetic
<1>4. (c * UNIT) \div ONE \in Nat
  BY <1>1, <1>3, Arithmetic
<1> QED BY <1>2, <1>4 DEF RoundedUp

\* Pools that are the same but for one of them.
But(x, y, pid) == x \in [Pid -> Pool] /\ y \in [Pid -> Pool] /\ \A q \in Pid \ {pid} : y[q] = x[q]

\* A change of one pool changes the claims by what its own claims change.
LEMMA OnePool ==
    ASSUME PoolStakers \in [Pid -> [User -> Staker]], NEW x, NEW y, NEW pid \in Pid, But(x, y, pid)
    PROVE  Claims(y) = Claims(x) + PoolClaims(y, pid) - PoolClaims(x, pid)
<1> DEFINE f == [q \in Pid |-> PoolClaims(x, q)]
           g == [q \in Pid |-> PoolClaims(y, q)]
<1>1. x \in [Pid -> Pool] /\ y \in [Pid -> Pool] /\ \A q \in Pid \ {pid} : y[q] = x[q]
  BY DEF But
<1>2. \A q \in Pid : f[q] \in Int /\ g[q] \in Int
  BY <1>1, ClaimsInt
<1>3. \A q \in Pid \ {pid} : g[q] = f[q]
  BY <1>1 DEF PoolClaims, Worth
<1>4. f[pid] = PoolClaims(x, pid) /\ g[pid] = PoolClaims(y, pid)
  OBVIOUS
<1>5. Claims(x) = SumFunctionOnSet(f, Pid) /\ Claims(y) = SumFunctionOnSet(g, Pid)
  BY DEF Claims
<1> HIDE DEF f, g
<1>6. SumFunctionOnSet(g, Pid) = SumFunctionOnSet(f, Pid) + g[pid] - f[pid]
  BY <1>2, <1>3, SumChange, PoolRewardsAssumption
<1> QED BY <1>4, <1>5, <1>6

\* When a pool's accumulator grows by a reward per share and its owner gets a commission, the claims
\* on it grow by no more than both and the rounding.
LEMMA PoolShared ==
    ASSUME PoolStakers \in [Pid -> [User -> Staker]], NEW x \in [Pid -> Pool], NEW y \in [Pid -> Pool],
           NEW pid \in Pid, NEW d \in Nat, NEW commission \in Nat, total_shares(pid) # 0,
           y[pid].owner_reward = x[pid].owner_reward + commission,
           y[pid].reward_acc = x[pid].reward_acc + FixedRatio(d, total_shares(pid))
    PROVE  PoolClaims(y, pid) <= PoolClaims(x, pid) + commission + d + RoundedUp
<1> DEFINE shares == [u \in User |-> PoolStakers[pid][u].shares]
           rest == [u \in User |-> PoolStakers[pid][u].available_rewards
                                     - PoolStakers[pid][u].reward_debt]
           a == x[pid].reward_acc
           r == FixedRatio(d, total_shares(pid))
           before == [u \in User |-> bmul(shares[u], a)]
           after == [u \in User |-> bmul(shares[u], a + r)]
           f == [u \in User |-> Worth(x, pid, u)]
           g == [u \in User |-> Worth(y, pid, u)]
<1>1. a \in Nat /\ x[pid].owner_reward \in Nat /\ shares \in [User -> Nat]
  BY DEF Pool, Staker
<1>2. total_shares(pid) \in Nat \ {0} /\ total_shares(pid) = SumFunctionOnSet(shares, User)
  BY TotalNat DEF total_shares
<1>3. r \in Nat
  BY <1>2, Earned
<1>4. ASSUME NEW u \in User
      PROVE  /\ rest[u] \in Int /\ before[u] \in Nat /\ after[u] \in Nat
             /\ f[u] = rest[u] + before[u] /\ g[u] = rest[u] + after[u]
  <2>1. /\ PoolStakers[pid][u].available_rewards \in Nat
        /\ PoolStakers[pid][u].reward_debt \in Nat
    BY DEF Staker
  <2>2. shares[u] \in Nat /\ a + r \in Nat
    BY <1>1, <1>3
  <2>3. bmul(shares[u], a) \in Nat /\ bmul(shares[u], a + r) \in Nat
    BY <1>1, <2>2, Earned
  <2>4. /\ Worth(x, pid, u) = PoolStakers[pid][u].available_rewards
                                 + (bmul(shares[u], a) - PoolStakers[pid][u].reward_debt)
        /\ Worth(y, pid, u) = PoolStakers[pid][u].available_rewards
                                 + (bmul(shares[u], a + r) - PoolStakers[pid][u].reward_debt)
    BY DEF Worth
  <2> HIDE DEF shares, a, r
  <2> QED BY <2>1, <2>3, <2>4
<1>5. SumFunctionOnSet(after, User) <= SumFunctionOnSet(before, User) + d + RoundedUp
  <2> HIDE DEF shares, a
  <2> QED BY <1>1, <1>2, SharedOut
<1>6. /\ PoolClaims(x, pid) = x[pid].owner_reward + SumFunctionOnSet(f, User)
      /\ PoolClaims(y, pid) = (x[pid].owner_reward + commission) + SumFunctionOnSet(g, User)
  BY DEF PoolClaims
<1> HIDE DEF rest, before, after, f, g, shares, a, r
<1>7. IsFiniteSet(User)
  BY PoolRewardsAssumption
<1>8. /\ SumFunctionOnSet(f, User) = SumFunctionOnSet(rest, User) + SumFunctionOnSet(before, User)
      /\ SumFunctionOnSet(g, User) = SumFunctionOnSet(rest, User) + SumFunctionOnSet(after, User)
  BY <1>4, <1>7, SumPlus
<1>9. /\ SumFunctionOnSet(rest, User) \in Int
      /\ SumFunctionOnSet(before, User) \in Int
      /\ SumFunctionOnSet(after, User) \in Int
  <2>1. \A u \in User : rest[u] \in Int /\ before[u] \in Int /\ after[u] \in Int
    BY <1>4
  <2>2. SumFunctionOnSet(rest, User) \in Int
    BY <1>7, <2>1, SumInt
  <2>3. SumFunctionOnSet(before, User) \in Int
    BY <1>7, <2>1, SumInt
  <2>4. SumFunctionOnSet(after, User) \in Int
    BY <1>7, <2>1, SumInt
  <2> QED BY <2>2, <2>3, <2>4
<1>10. RoundedUp \in Nat
  BY RoundedUpNat
<1> QED BY <1>1, <1>5, <1>6, <1>8, <1>9, <1>10

\* A new reward: the claims grow by no more than the reward, less what is reported as dismissed, and
\* the rounding (handle_pool_new_reward).
LEMMA RewardClaims ==
    ASSUME PoolStakers \in [Pid -> [User -> Staker]], StakePools \in [Pid -> Pool],
           NEW c, Grown(c.pools), c.outstanding \in Int, NEW pid \in Pid, NEW n \in Nat
    PROVE  LET m == handle_pool_new_reward(c, pid, n)
           IN  /\ m.outstanding \in Int
               /\ Claims(m.pools) - m.outstanding
                     <= (Claims(c.pools) - c.outstanding) + n + RoundedUp
<1> DEFINE total == total_shares(pid)
           commission == PermillOf(c.pools[pid].payout_commission, n)
           rest == n - commission
           distributed == IF is_nondust_balance(rest) THEN rest ELSE 0
           acc == c.pools[pid].reward_acc + FixedRatio(distributed, total)
           owner == c.pools[pid].owner_reward + commission
           y == [c.pools[pid] EXCEPT !.owner_reward = owner, !.reward_acc = acc]
           m == handle_pool_new_reward(c, pid, n)
<1>1. c.pools \in [Pid -> Pool] /\ RoundedUp \in Nat
  BY RoundedUpNat DEF Grown
<1>2. Claims(c.pools) \in Int
  BY <1>1, ClaimsInt
<1>3. CASE n = 0
  <2>1. m = c
    BY <1>3 DEF handle_pool_new_reward
  <2> HIDE DEF m
  <2> QED BY <1>1, <1>2, <1>3, <2>1 DEF m
<1>4. CASE n # 0 /\ balance_close_to_zero(total)
  <2>1. m.pools = c.pools /\ m.outstanding = c.outstanding - n
    BY <1>4 DEF handle_pool_new_reward
  <2> HIDE DEF m
  <2> QED BY <1>1, <1>2, <2>1 DEF m
<1>5. CASE n # 0 /\ ~balance_close_to_zero(total)
  <2>1. /\ m.pools = [c.pools EXCEPT ![pid] = y]
        /\ m.outstanding = c.outstanding - (rest - distributed)
    BY <1>5 DEF handle_pool_new_reward
  <2>2. c.pools[pid] \in Pool /\ Dust \in Nat
    BY <1>1, BalanceMathAssumption
  <2>3. commission \in Nat
    BY <2>2, CommissionNat
  <2>4. distributed \in Nat
    BY <2>2, <2>3 DEF is_nondust_balance, balance_close_to_zero
  <2>5. total \in Nat \ {0}
    BY <2>2, <1>5, TotalNat DEF balance_close_to_zero
  <2>6. FixedRatio(distributed, total) \in Nat
    BY <2>4, <2>5, Earned
  <2>7. acc \in Nat /\ owner \in Nat
    BY <2>2, <2>3, <2>6 DEF Pool
  <2> HIDE DEF m, acc, owner
  <2>8. y \in Pool /\ y.reward_acc = acc /\ y.owner_reward = owner
    BY <2>2, <2>7 DEF Pool
  <2> HIDE DEF y
  <2>9. m.pools \in [Pid -> Pool] /\ m.pools[pid] = y /\ But(c.pools, m.pools, pid)
    BY <1>1, <2>1, <2>8 DEF But
  <2>10. Claims(m.pools) = Claims(c.pools) + PoolClaims(m.pools, pid) - PoolClaims(c.pools, pid)
    BY <2>9, OnePool
  <2>11. PoolClaims(m.pools, pid) <= PoolClaims(c.pools, pid) + commission + distributed + RoundedUp
    <3> HIDE DEF distributed, commission, total
    <3>1. /\ m.pools[pid].owner_reward = c.pools[pid].owner_reward + commission
          /\ m.pools[pid].reward_acc = c.pools[pid].reward_acc + FixedRatio(distributed, total)
      BY <2>8, <2>9 DEF owner, acc
    <3>2. total_shares(pid) # 0
      BY <2>5 DEF total
    <3> QED BY <1>1, <2>3, <2>4, <2>9, <3>1, <3>2, PoolShared DEF total
  <2>12. PoolClaims(m.pools, pid) \in Int /\ PoolClaims(c.pools, pid) \in Int
    BY <1>1, <2>9, ClaimsInt
  <2>13. m.outstanding = c.outstanding - ((n - commission) - distributed)
    BY <2>1
  <2> HIDE DEF distributed, commission, rest
  <2> QED BY <1>1, <1>2, <2>3, <2>4, <2>10, <2>11, <2>12, <2>13 DEF m
<1> QED BY <1>3, <1>4, <1>5

\* The settlements served are the first ones, all of workers in a pool (on_reward).
LEMMA RewardedPrefix ==
    ASSUME NEW settle \in Seq(Settled), NEW k \in 1..Cardinality(Rewarded(settle))
    PROVE  WorkerAssignments[settle[k].worker] # None
<1> SUFFICES ASSUME WorkerAssignments[settle[k].worker] = None PROVE FALSE
  OBVIOUS
<1>1. PICK n \in Nat : n = Cardinality(Rewarded(settle))
  BY RewardedSize
<1>2. PICK p \in Nat : k = p + 1
  BY <1>1
<1>3. Rewarded(settle) \subseteq 1..p
  <2> SUFFICES ASSUME NEW i \in Rewarded(settle) PROVE i \in 1..p
    OBVIOUS
  <2>1. i \in 1..Len(settle) /\ \A j \in 1..i : WorkerAssignments[settle[j].worker] # None
    BY DEF Rewarded
  <2>2. k \notin 1..i /\ i \in Nat \ {0}
    BY <2>1
  <2> QED BY <1>2, <2>2
<1>4. IsFiniteSet(1..p) /\ Cardinality(1..p) = p
  BY IntervalSize
<1>5. Cardinality(Rewarded(settle)) <= p
  BY <1>3, <1>4, FS_Subset
<1>6. k <= n
  BY <1>1
<1> QED BY <1>1, <1>2, <1>5, <1>6

\* Subtraction of integers.
LEMMA Difference == \A x, y \in Int : x - y \in Int
  OBVIOUS

\* What the first k settlements pay out.
Paid(settle, k) == SumFunctionOnSet([i \in DOMAIN settle |-> reward(settle[i])], 1..k)

\* The claims that serving the first k settlements of a message may add.
Backed(settle, k) ==
    /\ served(settle)[k].outstanding \in Int
    /\ Claims(served(settle)[k].pools) - served(settle)[k].outstanding
          <= (Claims(StakePools) - outstanding) + Paid(settle, k) + k * RoundedUp

\* One more settlement pays its reward more.
LEMMA PaidStep ==
    ASSUME NEW settle \in Seq(Settled), NEW k \in 0..(Len(settle) - 1)
    PROVE  /\ Paid(settle, k + 1) = Paid(settle, k) + reward(settle[k + 1])
           /\ Paid(settle, k) \in Nat /\ reward(settle[k + 1]) \in Nat
<1> DEFINE f == [i \in DOMAIN settle |-> reward(settle[i])]
<1>1. \A i \in 1..Len(settle) : f[i] = reward(settle[i]) /\ f[i] \in Nat
  <2> SUFFICES ASSUME NEW i \in 1..Len(settle) PROVE f[i] = reward(settle[i]) /\ f[i] \in Nat
    OBVIOUS
  <2>1. settle[i] \in Settled /\ i \in DOMAIN settle
    OBVIOUS
  <2>2. reward(settle[i]) \in Nat
    BY <2>1, FixedNat DEF Settled, reward
  <2> QED BY <2>1, <2>2
<1>2. Paid(settle, k) = SumFunctionOnSet(f, 1..k) /\ Paid(settle, k + 1) = SumFunctionOnSet(f, 1..(k + 1))
  BY DEF Paid
<1>3. k \in Nat /\ k + 1 \in 1..Len(settle) /\ 1..k \subseteq 1..Len(settle)
  OBVIOUS
<1>4. 1..(k + 1) = (1..k) \cup {k + 1} /\ k + 1 \notin 1..k
  BY <1>3
<1>5. IsFiniteSet(1..k)
  BY <1>3, FS_Interval
<1> HIDE DEF f
<1>6. /\ \A i \in 1..k : f[i] \in Nat
      /\ \A i \in (1..k) \cup {k + 1} : f[i] \in Int
  BY <1>1, <1>3, <1>4
<1>7. SumFunctionOnSet(f, (1..k) \cup {k + 1}) = SumFunctionOnSet(f, 1..k) + f[k + 1]
  <2> DEFINE S == 1..k
             y == k + 1
  <2>1. IsFiniteSet(S) /\ y \notin S /\ \A i \in S \cup {y} : f[i] \in Int
    BY <1>4, <1>5, <1>6, Zenon
  <2> HIDE DEF S, y
  <2>2. SumFunctionOnSet(f, S \cup {y}) = SumFunctionOnSet(f, S) + f[y]
    BY <2>1, SumAdd
  <2> QED BY <2>2 DEF S, y
<1>8. SumFunctionOnSet(f, 1..k) \in Nat
  BY <1>5, <1>6, SumNat
<1>9. f[k + 1] = reward(settle[k + 1]) /\ reward(settle[k + 1]) \in Nat
  BY <1>1, <1>3
<1> QED BY <1>2, <1>4, <1>7, <1>8, <1>9

\* Serving the settlements adds no more claims than they pay out, less what is reported as dismissed,
\* and the rounding of each (on_reward).
LEMMA ServedBacked ==
    ASSUME PoolStakers \in [Pid -> [User -> Staker]], StakePools \in [Pid -> Pool],
           WorkerAssignments \in [Worker -> Pid \cup {None}], outstanding \in Int,
           NEW settle \in Seq(Settled), NEW n \in 0..Cardinality(Rewarded(settle)),
           Cardinality(Rewarded(settle)) \in 0..Len(settle)
    PROVE  Backed(settle, n)
<1> DEFINE R == Cardinality(Rewarded(settle))
           J == {k \in Nat : k <= R => Backed(settle, k)}
<1>1. R \in Nat /\ R <= Len(settle) /\ RoundedUp \in Nat
  BY RoundedUpNat
<1>2. 0 \in J
  <2>1. served(settle)[0].pools = StakePools /\ served(settle)[0].outstanding = outstanding
    BY ServedSteps
  <2>2. Paid(settle, 0) = 0
    <3>1. 1..0 = {}
      OBVIOUS
    <3> QED BY <3>1, SumEmpty DEF Paid
  <2>3. Claims(StakePools) \in Int
    BY ClaimsInt
  <2>4. Backed(settle, 0)
    BY <1>1, <2>1, <2>2, <2>3 DEF Backed
  <2> QED BY <2>4
<1>3. ASSUME NEW k \in Nat, k \in J PROVE k + 1 \in J
  <2> SUFFICES ASSUME k + 1 <= R PROVE Backed(settle, k + 1)
    OBVIOUS
  <2> DEFINE c == served(settle)[k]
             pid == WorkerAssignments[settle[k + 1].worker]
             a == reward(settle[k + 1])
             m == handle_pool_new_reward(c, pid, a)
  <2>1. k \in 0..(Len(settle) - 1) /\ k \in 0..Len(settle) /\ k + 1 \in 1..R
    BY <1>1
  <2>2. served(settle)[k + 1] = m
    BY <2>1, ServedSteps
  <2>3. Backed(settle, k)
    BY <1>1, <1>3
  <2>4. Grown(c.pools)
    BY <2>1, ServedGrows
  <2>5. pid \in Pid
    <3>1. settle[k + 1] \in Settled
      BY <1>1, <2>1
    <3>2. pid \in Pid \cup {None}
      BY <3>1 DEF Settled
    <3>3. pid # None
      BY <2>1, RewardedPrefix
    <3> QED BY <3>2, <3>3
  <2>6. /\ Paid(settle, k + 1) = Paid(settle, k) + a
        /\ Paid(settle, k) \in Nat /\ a \in Nat
    BY <2>1, PaidStep
  <2>7. c.outstanding \in Int
    BY <2>3 DEF Backed
  <2>8. /\ m.outstanding \in Int
        /\ Claims(m.pools) - m.outstanding <= (Claims(c.pools) - c.outstanding) + a + RoundedUp
    <3> HIDE DEF c, pid, a
    <3> QED BY <2>4, <2>5, <2>6, <2>7, RewardClaims
  <2>9. Claims(c.pools) \in Int /\ Claims(m.pools) \in Int /\ Claims(StakePools) \in Int
    <3>1. c.pools \in [Pid -> Pool]
      BY <2>4 DEF Grown
    <3>2. Grown(m.pools)
      <4> HIDE DEF c, pid, a
      <4> QED BY <2>4, <2>5, <2>6, RewardGrows
    <3>3. m.pools \in [Pid -> Pool]
      BY <3>2 DEF Grown
    <3> HIDE DEF c, m
    <3>4. Claims(c.pools) \in Int
      BY <3>1, ClaimsInt
    <3>5. Claims(m.pools) \in Int
      BY <3>3, ClaimsInt
    <3>6. Claims(StakePools) \in Int
      BY ClaimsInt
    <3> QED BY <3>4, <3>5, <3>6
  <2>10. (k + 1) * RoundedUp = k * RoundedUp + 1 * RoundedUp /\ k * RoundedUp \in Nat
         /\ 1 * RoundedUp = RoundedUp
    BY <1>1, Distribute
  <2>11. Claims(c.pools) - c.outstanding
           <= (Claims(StakePools) - outstanding) + Paid(settle, k) + k * RoundedUp
    BY <2>3 DEF Backed
  <2> HIDE DEF c, m, a
  <2>12. Claims(m.pools) - m.outstanding
           <= (Claims(StakePools) - outstanding) + Paid(settle, k + 1) + (k + 1) * RoundedUp
    <3> DEFINE x == Claims(c.pools) - c.outstanding
               y == Claims(m.pools) - m.outstanding
               z == Claims(StakePools) - outstanding
               p == Paid(settle, k)
               q == k * RoundedUp
               t == RoundedUp
    <3>1. x \in Int /\ y \in Int /\ z \in Int
      BY <2>7, <2>8, <2>9, Difference, Zenon
    <3>2. p \in Nat /\ q \in Nat /\ t \in Nat /\ a \in Nat
      BY <1>1, <2>6, <2>10, Zenon
    <3>3. y <= x + a + t /\ x <= z + p + q
      BY <2>8, <2>11, Zenon
    <3>4. (k + 1) * RoundedUp = q + t /\ Paid(settle, k + 1) = p + a
      BY <2>6, <2>10, Zenon
    <3>5. y <= z + (p + a) + (q + t)
      <4> HIDE DEF x, y, z, p, q, t
      <4> QED BY <3>1, <3>2, <3>3
    <3> QED BY <3>4, <3>5, Zenon
  <2> QED BY <2>2, <2>8, <2>12 DEF Backed
<1>4. Nat \subseteq J
  <2> HIDE DEF J
  <2> QED BY <1>2, <1>3, SetInduction
<1>5. n \in J
  BY <1>1, <1>4
<1> QED BY <1>1, <1>5

-----------------------------------------------------------------------------
(* Promises and payouts *)

\* The promises are covered, and the counters they are compared with are numbers.
AccountInv ==
    /\ messages \in Nat /\ outstanding \in Int
    /\ RewardsAccounted

\* The slack is a number, and grows by as much with each message.
LEMMA RoundingNat ==
    /\ Cardinality(Worker) \in Nat /\ Cardinality(Worker) * RoundedUp \in Nat
    /\ messages \in Nat => /\ Rounding \in Nat /\ Rounding * RoundedUp \in Nat
                           /\ messages' = messages + 1 =>
                                 Rounding' * RoundedUp
                                    = Rounding * RoundedUp + Cardinality(Worker) * RoundedUp
<1>1. PICK w \in Nat : w = Cardinality(Worker)
  BY PoolRewardsAssumption, FS_CardinalityType
<1>2. PICK k \in Nat : k = RoundedUp
  BY RoundedUpNat
<1>3. w * k \in Nat
  BY Arithmetic
<1>4. ASSUME messages \in Nat
      PROVE  /\ messages * w \in Nat /\ (messages * w) * k \in Nat
             /\ ((messages + 1) * w) * k = (messages * w) * k + w * k
  <2>1. messages * w \in Nat /\ (messages * w) * k \in Nat
    BY <1>4, Arithmetic
  <2>2. (messages + 1) * w = messages * w + 1 * w
    BY <1>4, Distribute
  <2>3. 1 * w = w
    OBVIOUS
  <2>4. (messages * w + w) * k = (messages * w) * k + w * k
    BY <2>1, Distribute
  <2> QED BY <2>1, <2>2, <2>3, <2>4
<1>5. Rounding = messages * w /\ Rounding' = messages' * w
  BY <1>1 DEF Rounding
<1> QED BY <1>1, <1>2, <1>3, <1>4, <1>5

\* A step that changes neither what can be claimed nor the history.
LEMMA SameClaims ==
    ASSUME AccountInv, UNCHANGED <<messages, outstanding>>, claims' = claims
    PROVE  AccountInv'
  BY DEF AccountInv, RewardsAccounted, Rounding, RoundedUp

\* What can be claimed depends on the owners' rewards and on what each user has settled.
LEMMA ClaimsFrom ==
    ASSUME \A pid \in Pid : StakePools'[pid].owner_reward = StakePools[pid].owner_reward,
           \A pid \in Pid, u \in User : settled_reward(pid, u)' = settled_reward(pid, u)
    PROVE  claims' = claims
<1>1. ASSUME NEW pid \in Pid PROVE pool_claims(pid)' = pool_claims(pid)
  <2>1. [u \in User |-> settled_reward(pid, u)'] = [u \in User |-> settled_reward(pid, u)]
    OBVIOUS
  <2>2. pool_claims(pid)' = StakePools'[pid].owner_reward
                              + SumFunctionOnSet([u \in User |-> settled_reward(pid, u)'], User)
    BY DEF pool_claims
  <2> QED BY <2>1, <2>2 DEF pool_claims
<1>2. [pid \in Pid |-> pool_claims(pid)'] = [pid \in Pid |-> pool_claims(pid)]
  BY <1>1
<1>3. claims' = SumFunctionOnSet([pid \in Pid |-> pool_claims(pid)'], Pid)
  BY DEF claims
<1> QED BY <1>2, <1>3 DEF claims

\* Settling moves a reward from what is pending to what is available (settle_user_pending_reward).
LEMMA ChangeSharesAccounted ==
    ASSUME RewardsInv, AccountInv,
           NEW pid \in Pid, NEW us \in SUBSET User, NEW shares \in [us -> Shares],
           ChangeShares(pid, shares)
    PROVE  AccountInv'
<1> DEFINE changed(u) == settle_user_pending_reward(pid, u, shares[u])
           row == [u \in User |-> IF u \in us THEN changed(u) ELSE PoolStakers[pid][u]]
<1>1. PoolStakers' = [PoolStakers EXCEPT ![pid] = row]
  BY DEF ChangeShares
<1>2. PoolStakers \in [Pid -> [User -> Staker]] /\ StakePools \in [Pid -> Pool]
  BY DEF RewardsInv
<1>3. UNCHANGED <<StakePools, messages, outstanding>>
  BY DEF ChangeShares, history
<1>4. \A u \in us : shares[u] \in Nat
  BY PoolRewardsAssumption
<1>5. ASSUME NEW u \in us
      PROVE  /\ changed(u).available_rewards = settled_reward(pid, u)
             /\ changed(u).reward_debt = bmul(changed(u).shares, StakePools[pid].reward_acc)
             /\ changed(u).shares \in Nat
  BY <1>4 DEF settle_user_pending_reward, settled_reward
<1> HIDE DEF changed
<1>6. ASSUME NEW q \in Pid, NEW u \in User PROVE settled_reward(q, u)' = settled_reward(q, u)
  <2>1. CASE q = pid /\ u \in us
    <3>1. PoolStakers'[q][u] = changed(u)
      BY <1>1, <1>2, <2>1
    <3>2. settled_reward(q, u)'
            = changed(u).available_rewards
                + (bmul(changed(u).shares, StakePools[pid].reward_acc) - changed(u).reward_debt)
      BY <1>3, <2>1, <3>1 DEF settled_reward, pending_reward
    <3>3. bmul(changed(u).shares, StakePools[pid].reward_acc) \in Nat
      <4>1. StakePools[pid].reward_acc \in Nat /\ changed(u).shares \in Nat
        BY <1>2, <1>5, <2>1 DEF Pool
      <4> QED BY <4>1, Earned
    <3>4. settled_reward(pid, u) \in Int
      <4>1. PoolStakers[pid][u] \in Staker /\ StakePools[pid].reward_acc \in Nat
        BY <1>2 DEF Pool
      <4>2. bmul(PoolStakers[pid][u].shares, StakePools[pid].reward_acc) \in Nat
        BY <4>1, Earned DEF Staker
      <4> QED BY <4>1, <4>2 DEF settled_reward, pending_reward, Staker
    <3>5. /\ changed(u).available_rewards = settled_reward(pid, u)
          /\ changed(u).reward_debt = bmul(changed(u).shares, StakePools[pid].reward_acc)
      BY <1>5, <2>1
    <3> QED BY <2>1, <3>2, <3>3, <3>4, <3>5
  <2>2. CASE ~(q = pid /\ u \in us)
    <3>1. PoolStakers'[q][u] = PoolStakers[q][u]
      BY <1>1, <1>2, <2>2
    <3> QED BY <1>3, <3>1 DEF settled_reward, pending_reward
  <2> QED BY <2>1, <2>2
<1> HIDE DEF row
<1>7. claims' = claims
  BY <1>3, <1>6, ClaimsFrom
<1> QED BY <1>3, <1>7, SameClaims

\* Settings and assignments change no claims.
LEMMA AdminAccounted ==
    ASSUME RewardsInv, AccountInv,
           \/ \E w \in Worker, pid \in Pid \cup {None} : assign(w, pid)
           \/ \E pid \in Pid, commission \in Commission : set_payout_pref(pid, commission)
    PROVE  AccountInv'
<1>1. UNCHANGED <<PoolStakers, messages, outstanding>>
  BY DEF assign, set_payout_pref, history
<1>2. \A q \in Pid : /\ StakePools'[q].reward_acc = StakePools[q].reward_acc
                     /\ StakePools'[q].owner_reward = StakePools[q].owner_reward
  <2>1. CASE UNCHANGED StakePools
    BY <2>1
  <2>2. ASSUME NEW pid \in Pid, NEW commission \in Commission, set_payout_pref(pid, commission)
        PROVE  \A q \in Pid : /\ StakePools'[q].reward_acc = StakePools[q].reward_acc
                              /\ StakePools'[q].owner_reward = StakePools[q].owner_reward
    <3> DEFINE y == [StakePools[pid] EXCEPT !.payout_commission = commission]
    <3>1. StakePools' = [StakePools EXCEPT ![pid] = y]
      BY <2>2 DEF set_payout_pref
    <3>2. /\ y.reward_acc = StakePools[pid].reward_acc
          /\ y.owner_reward = StakePools[pid].owner_reward
      BY DEF RewardsInv, Pool
    <3> HIDE DEF y
    <3> QED BY <3>1, <3>2 DEF RewardsInv
  <2> QED BY <2>1, <2>2 DEF assign
<1>3. \A pid \in Pid, u \in User : settled_reward(pid, u)' = settled_reward(pid, u)
  BY <1>1, <1>2 DEF settled_reward, pending_reward
<1>4. claims' = claims
  BY <1>2, <1>3, ClaimsFrom
<1> QED BY <1>1, <1>4, SameClaims

\* A message names at most as many workers as there are.
LEMMA SettlementSize == \A settle \in Settlements : Len(settle) <= Cardinality(Worker)
<1> SUFFICES ASSUME NEW settle \in Settlements PROVE Len(settle) <= Cardinality(Worker)
  OBVIOUS
<1>1. PICK ws \in SeqOf(Worker, Cardinality(Worker)), p \in Payout, t \in Treasury :
          settle = [i \in DOMAIN ws |-> [worker |-> ws[i], payout |-> p, treasury |-> t]]
  BY DEF Settlements
<1>2. Cardinality(Worker) \in Nat
  BY PoolRewardsAssumption, FS_CardinalityType
<1>3. PICK k \in 0..Cardinality(Worker) : ws \in [1..k -> Worker]
  BY DEF SeqOf
<1>4. DOMAIN settle = 1..k
  BY <1>1, <1>3
<1>5. settle \in Seq(Settled)
  BY SettlementTypes
<1> HIDE <1>1
<1>6. DOMAIN settle = 1..Len(settle) /\ Len(settle) \in Nat
  BY <1>5
<1>7. Len(settle) = k
  BY <1>2, <1>4, <1>6
<1> QED BY <1>2, <1>7

\* A message with settlements (on_reward).
LEMMA RewardAccounted ==
    ASSUME RewardsInv, AccountInv, NEW settle \in Settlements, on_reward(settle)
    PROVE  AccountInv'
<1> DEFINE n == Cardinality(Rewarded(settle))
           f == [i \in DOMAIN settle |-> reward(settle[i])]
           c == served(settle)[n]
           w == Cardinality(Worker)
<1>1. settle \in Seq(Settled) /\ Len(settle) \in Nat
  BY SettlementTypes
<1>2. n \in 0..Len(settle) /\ n \in 0..Cardinality(Rewarded(settle)) /\ n \in Nat
  <2>1. n \in 0..Len(settle)
    BY <1>1, RewardedSize
  <2> HIDE DEF n
  <2> QED BY <1>1, <2>1 DEF n
<1>3. /\ StakePools' = c.pools /\ PoolStakers' = PoolStakers
      /\ messages' = messages + 1
      /\ outstanding' = c.outstanding + SumFunctionOnSet(f, DOMAIN settle \ {n + 1})
  BY DEF on_reward
<1>4. /\ PoolStakers \in [Pid -> [User -> Staker]] /\ StakePools \in [Pid -> Pool]
      /\ WorkerAssignments \in [Worker -> Pid \cup {None}]
      /\ messages \in Nat /\ outstanding \in Int /\ RewardsAccounted
  BY DEF RewardsInv, AccountInv
<1>5. Backed(settle, n)
  <2> HIDE DEF n
  <2> QED BY <1>1, <1>2, <1>4, ServedBacked DEF n
<1>6. c.pools \in [Pid -> Pool]
  <2>1. Grown(c.pools)
    <3> HIDE DEF n
    <3> QED BY <1>1, <1>2, <1>4, ServedGrows
  <2> QED BY <2>1 DEF Grown
<1>7. \A i \in DOMAIN settle : f[i] \in Nat
  <2> SUFFICES ASSUME NEW i \in DOMAIN settle PROVE reward(settle[i]) \in Nat
    OBVIOUS
  <2>1. settle[i] \in Settled
    BY <1>1
  <2> QED BY <2>1, FixedNat DEF Settled, reward
<1>8. DOMAIN settle = 1..Len(settle) /\ IsFiniteSet(DOMAIN settle)
  BY <1>1, IntervalSize
<1> DEFINE S == DOMAIN settle \ {n + 1}
<1>9. IsFiniteSet(S) /\ S \subseteq DOMAIN settle /\ 1..n \subseteq S
  <2>1. IsFiniteSet(S)
    BY <1>8, FS_Subset
  <2>2. 1..n \subseteq S
    <3> HIDE DEF n
    <3> QED BY <1>1, <1>2, <1>8
  <2> QED BY <2>1, <2>2
<1>10. Paid(settle, n) = SumFunctionOnSet(f, 1..n)
  BY DEF Paid
<1> HIDE DEF f, S
<1>11. /\ Paid(settle, n) <= SumFunctionOnSet(f, S) /\ SumFunctionOnSet(f, S) \in Nat
       /\ Paid(settle, n) \in Nat
  <2>1. \A i \in S : f[i] \in Nat
    BY <1>7, <1>9
  <2>2. SumFunctionOnSet(f, S) \in Nat
    BY <1>9, <2>1, SumNat
  <2> DEFINE T == 1..n
  <2>3. T \subseteq S
    BY <1>9
  <2> HIDE DEF T
  <2>4. SumFunctionOnSet(f, T) <= SumFunctionOnSet(f, S)
    BY <1>9, <2>1, <2>3, SumMore
  <2>5. IsFiniteSet(T) /\ \A i \in T : f[i] \in Nat
    BY <1>9, <2>1, <2>3, FS_Subset
  <2>6. SumFunctionOnSet(f, T) \in Nat
    BY <2>5, SumNat
  <2> QED BY <1>10, <2>2, <2>4, <2>6 DEF T
<1>12. claims' = Claims(c.pools)
  <2>1. claims' = Claims(StakePools')
    BY <1>3 DEF claims, pool_claims, settled_reward, pending_reward, Claims, PoolClaims, Worth
  <2> QED BY <1>3, <2>1
<1>13. n * RoundedUp <= w * RoundedUp /\ n * RoundedUp \in Nat /\ w * RoundedUp \in Nat
  <2>1. n <= w /\ w \in Nat /\ RoundedUp \in Nat
    <3>1. Len(settle) <= w /\ w \in Nat
      BY SettlementSize, RoundingNat
    <3> HIDE DEF n, w
    <3> QED BY <1>1, <1>2, <3>1, RoundedUpNat
  <2> HIDE DEF n, w
  <2>2. RoundedUp * n <= RoundedUp * w
    BY <1>2, <2>1, TimesMonotone
  <2>3. RoundedUp * n = n * RoundedUp /\ RoundedUp * w = w * RoundedUp
    BY <1>2, <2>1
  <2>4. n * RoundedUp \in Nat /\ w * RoundedUp \in Nat
    BY <1>2, <2>1, Arithmetic
  <2> QED BY <2>2, <2>3, <2>4
<1>14. /\ Rounding * RoundedUp \in Nat
       /\ Rounding' * RoundedUp = Rounding * RoundedUp + w * RoundedUp
  BY <1>3, <1>4, RoundingNat
<1>15. /\ c.outstanding \in Int
       /\ Claims(c.pools) - c.outstanding
            <= (Claims(StakePools) - outstanding) + Paid(settle, n) + n * RoundedUp
  BY <1>5 DEF Backed
<1>16. Claims(StakePools) <= outstanding + Rounding * RoundedUp
  BY <1>4, ClaimsNow DEF RewardsAccounted
<1>17. Claims(StakePools) \in Int /\ Claims(c.pools) \in Int
  <2> HIDE DEF c
  <2>1. Claims(StakePools) \in Int
    BY <1>4, ClaimsInt
  <2>2. Claims(c.pools) \in Int
    BY <1>4, <1>6, ClaimsInt
  <2> QED BY <2>1, <2>2
<1> HIDE DEF n, c, w
<1>18. outstanding' = c.outstanding + SumFunctionOnSet(f, S)
  BY <1>3 DEF S
<1>19. claims' <= outstanding' + Rounding' * RoundedUp
  <2> DEFINE x == Claims(c.pools)
             z == Claims(StakePools)
             p == Paid(settle, n)
             s == SumFunctionOnSet(f, S)
             q == n * RoundedUp
             r == w * RoundedUp
             slack == Rounding * RoundedUp
  <2>1. x \in Int /\ z \in Int /\ outstanding \in Int /\ c.outstanding \in Int
    BY <1>4, <1>15, <1>17
  <2>2. p \in Nat /\ s \in Nat /\ q \in Nat /\ r \in Nat /\ slack \in Nat
    BY <1>11, <1>13, <1>14, Zenon
  <2>3. p <= s /\ q <= r /\ z <= outstanding + slack
        /\ x - c.outstanding <= (z - outstanding) + p + q
    BY <1>11, <1>13, <1>15, <1>16, Zenon
  <2>4. claims' = x /\ outstanding' = c.outstanding + s /\ Rounding' * RoundedUp = slack + r
    BY <1>12, <1>14, <1>18, Zenon
  <2> HIDE DEF x, z, p, s, q, r, slack
  <2>5. x <= (c.outstanding + s) + (slack + r)
    BY <2>1, <2>2, <2>3
  <2> QED BY <2>4, <2>5, Zenon
<1>20. messages' \in Nat /\ outstanding' \in Int
  <2>1. messages' \in Nat
    BY <1>3, <1>4
  <2>2. outstanding' \in Int
    BY <1>11, <1>15, <1>18
  <2> QED BY <2>1, <2>2
<1>21. RewardsAccounted' <=> claims' <= outstanding' + Rounding' * RoundedUp
  BY DEF RewardsAccounted, RoundedUp
<1> QED BY <1>19, <1>20, <1>21 DEF AccountInv

\* A claim takes from what can be claimed what it takes from what is outstanding (claim_rewards).
LEMMA ClaimAccounted ==
    ASSUME RewardsInv, AccountInv, NEW pid \in Pid, NEW u \in User, claim_rewards(pid, u)
    PROVE  AccountInv'
<1> DEFINE x == settle_user_pending_reward(pid, u, PoolStakers[pid][u].shares)
           y == [x EXCEPT !.available_rewards = 0]
           owner == StakePools[pid].owner_reward - owned_reward(pid, u)
           pool == [StakePools[pid] EXCEPT !.owner_reward = owner]
           f == [v \in User |-> settled_reward(pid, v)]
           g == [v \in User |-> settled_reward(pid, v)']
           F == [q \in Pid |-> pool_claims(q)]
           G == [q \in Pid |-> pool_claims(q)']
<1>1. PoolStakers \in [Pid -> [User -> Staker]] /\ StakePools \in [Pid -> Pool]
  BY DEF RewardsInv
<1>2. /\ PoolStakers' = [PoolStakers EXCEPT ![pid] = [PoolStakers[pid] EXCEPT ![u] = y]]
      /\ StakePools' = [StakePools EXCEPT ![pid] = pool]
      /\ outstanding' = outstanding - (settled_reward(pid, u) + owned_reward(pid, u))
      /\ UNCHANGED messages
  BY DEF claim_rewards
<1>3. ASSUME NEW q \in Pid, NEW v \in User
      PROVE  /\ settled_reward(q, v) \in Int
             /\ bmul(PoolStakers[q][v].shares, StakePools[q].reward_acc) \in Nat
  <2>1. PoolStakers[q][v] \in Staker /\ StakePools[q].reward_acc \in Nat
    BY <1>1 DEF Pool
  <2>2. bmul(PoolStakers[q][v].shares, StakePools[q].reward_acc) \in Nat
    BY <2>1, Earned DEF Staker
  <2> QED BY <2>1, <2>2 DEF settled_reward, pending_reward, Staker
<1>4. /\ y.available_rewards = 0 /\ y.shares = PoolStakers[pid][u].shares
      /\ y.reward_debt = bmul(PoolStakers[pid][u].shares, StakePools[pid].reward_acc)
  BY DEF settle_user_pending_reward
<1> HIDE DEF y
<1>5. owned_reward(pid, u) \in Int /\ owner \in Int /\ StakePools[pid].owner_reward \in Int
  <2>1. StakePools[pid].owner_reward \in Nat
    BY <1>1 DEF Pool
  <2> QED BY <2>1 DEF owned_reward
<1>6. pool.owner_reward = owner /\ pool.reward_acc = StakePools[pid].reward_acc
  BY <1>1 DEF Pool
<1> HIDE DEF pool
<1>7. \A q \in Pid : StakePools'[q].reward_acc = StakePools[q].reward_acc
  BY <1>1, <1>2, <1>6
<1>8. ASSUME NEW q \in Pid, NEW v \in User, ~(q = pid /\ v = u)
      PROVE  settled_reward(q, v)' = settled_reward(q, v)
  <2>1. PoolStakers'[q][v] = PoolStakers[q][v]
    BY <1>1, <1>2, <1>8
  <2> QED BY <1>7, <2>1 DEF settled_reward, pending_reward
<1>9. settled_reward(pid, u)' = 0
  <2>1. PoolStakers'[pid][u] = y
    BY <1>1, <1>2
  <2>2. settled_reward(pid, u)'
          = y.available_rewards + (bmul(y.shares, StakePools[pid].reward_acc) - y.reward_debt)
    BY <1>7, <2>1 DEF settled_reward, pending_reward
  <2> QED BY <1>3, <1>4, <2>2
<1>10. /\ \A v \in User : f[v] \in Int /\ g[v] \in Int
       /\ \A v \in User \ {u} : g[v] = f[v]
       /\ f[u] = settled_reward(pid, u) /\ g[u] = 0
  <2>1. \A v \in User : f[v] \in Int
    BY <1>3
  <2>2. \A v \in User \ {u} : g[v] = f[v]
    BY <1>8
  <2>3. f[u] = settled_reward(pid, u) /\ g[u] = 0
    BY <1>9
  <2> HIDE DEF f, g
  <2> QED BY <2>1, <2>2, <2>3
<1>11. /\ pool_claims(pid) = StakePools[pid].owner_reward + SumFunctionOnSet(f, User)
       /\ pool_claims(pid)' = owner + SumFunctionOnSet(g, User)
  <2>1. pool_claims(pid)' = StakePools'[pid].owner_reward + SumFunctionOnSet(g, User)
    BY DEF pool_claims
  <2>2. StakePools'[pid].owner_reward = owner
    BY <1>1, <1>2, <1>6
  <2> QED BY <2>1, <2>2 DEF pool_claims
<1>12. \A q \in Pid \ {pid} : G[q] = F[q]
  <2> SUFFICES ASSUME NEW q \in Pid \ {pid} PROVE pool_claims(q)' = pool_claims(q)
    OBVIOUS
  <2>1. [v \in User |-> settled_reward(q, v)'] = [v \in User |-> settled_reward(q, v)]
    BY <1>8
  <2>2. StakePools'[q].owner_reward = StakePools[q].owner_reward
    BY <1>1, <1>2
  <2>3. pool_claims(q)' = StakePools'[q].owner_reward
                            + SumFunctionOnSet([v \in User |-> settled_reward(q, v)'], User)
    BY DEF pool_claims
  <2> QED BY <2>1, <2>2, <2>3 DEF pool_claims
<1> HIDE DEF f, g, owner
<1>13. IsFiniteSet(User) /\ IsFiniteSet(Pid)
  BY PoolRewardsAssumption
<1>14. SumFunctionOnSet(g, User) = SumFunctionOnSet(f, User) + g[u] - f[u]
  BY <1>10, <1>13, SumChange
<1>15. SumFunctionOnSet(f, User) \in Int
  BY <1>10, <1>13, SumInt
<1>16. pool_claims(pid)' = pool_claims(pid) - (settled_reward(pid, u) + owned_reward(pid, u))
       /\ pool_claims(pid) \in Int /\ pool_claims(pid)' \in Int
  <2>1. settled_reward(pid, u) \in Int
    BY <1>3
  <2>2. owner = StakePools[pid].owner_reward - owned_reward(pid, u)
    BY DEF owner
  <2> QED BY <1>5, <1>10, <1>11, <1>14, <1>15, <2>1, <2>2
<1>17. \A q \in Pid : F[q] \in Int /\ G[q] \in Int
  <2>1. \A q \in Pid : F[q] \in Int
    <3> SUFFICES ASSUME NEW q \in Pid PROVE pool_claims(q) \in Int
      OBVIOUS
    <3>1. pool_claims(q) = PoolClaims(StakePools, q)
      BY DEF pool_claims, PoolClaims, settled_reward, pending_reward, Worth
    <3>2. PoolClaims(StakePools, q) \in Int
      BY <1>1, ClaimsInt
    <3> QED BY <3>1, <3>2
  <2>2. G[pid] \in Int
    BY <1>16
  <2> HIDE DEF F, G
  <2> QED BY <1>12, <2>1, <2>2
<1>18. /\ F[pid] = pool_claims(pid) /\ G[pid] = pool_claims(pid)'
       /\ claims = SumFunctionOnSet(F, Pid) /\ claims' = SumFunctionOnSet(G, Pid)
  BY DEF claims
<1> HIDE DEF F, G
<1>19. SumFunctionOnSet(G, Pid) = SumFunctionOnSet(F, Pid) + G[pid] - F[pid]
  BY <1>12, <1>13, <1>17, SumChange
<1>20. SumFunctionOnSet(F, Pid) \in Int
  BY <1>13, <1>17, SumInt
<1>21. claims' = claims - (settled_reward(pid, u) + owned_reward(pid, u)) /\ claims \in Int
  <2>1. settled_reward(pid, u) + owned_reward(pid, u) \in Int
    BY <1>3, <1>5
  <2> QED BY <1>16, <1>18, <1>19, <1>20, <2>1
<1>22. messages' \in Nat /\ outstanding' \in Int
  BY <1>2, <1>3, <1>5 DEF AccountInv
<1>23. Rounding * RoundedUp \in Nat
  BY RoundingNat DEF AccountInv
<1>24. claims' <= outstanding' + Rounding * RoundedUp
  <2> DEFINE slack == Rounding * RoundedUp
             paid == settled_reward(pid, u) + owned_reward(pid, u)
  <2>1. claims <= outstanding + slack
    BY DEF AccountInv, RewardsAccounted
  <2>2. paid \in Int /\ slack \in Nat /\ outstanding \in Int
    BY <1>3, <1>5, <1>23 DEF AccountInv
  <2>3. claims' = claims - paid /\ outstanding' = outstanding - paid
    BY <1>2, <1>21, Zenon
  <2> HIDE DEF slack, paid
  <2>4. claims' <= outstanding' + slack
    BY <1>21, <2>1, <2>2, <2>3
  <2> QED BY <2>4 DEF slack
<1>25. RewardsAccounted' <=> claims' <= outstanding' + Rounding * RoundedUp
  BY <1>2 DEF RewardsAccounted, Rounding, RoundedUp
<1> QED BY <1>22, <1>24, <1>25 DEF AccountInv

\* At the start there is nothing to claim.
LEMMA InitAccounted == Init => AccountInv
<1> SUFFICES ASSUME Init PROVE AccountInv
  OBVIOUS
<1>1. RewardsInv /\ PoolStakers \in [Pid -> [User -> Staker]] /\ StakePools \in [Pid -> Pool]
  BY InitRewards DEF RewardsInv
<1>2. bmul(0, 0) = 0
  <2>1. ONE \in Nat \ {0} /\ UNIT \in Nat \ {0}
    BY BalanceMathAssumption
  <2>2. \A k \in Nat \ {0} : 0 \div k = 0
    OBVIOUS
  <2>3. 0 * ONE = 0 /\ 0 * UNIT = 0
    BY <2>1
  <2>4. to_fixed(0) = 0 /\ from_fixed(0) = 0
    BY <2>1, <2>2, <2>3 DEF to_fixed, from_fixed
  <2>5. bmul(0, 0) = from_fixed((0 * 0) \div ONE)
    BY <2>4 DEF bmul
  <2> QED BY <2>1, <2>2, <2>4, <2>5
<1>3. \A pid \in Pid, u \in User : settled_reward(pid, u) = 0
  BY <1>2 DEF Init, settled_reward, pending_reward
<1>4. ASSUME NEW pid \in Pid PROVE pool_claims(pid) = 0
  <2> DEFINE f == [u \in User |-> settled_reward(pid, u)]
  <2>1. \A u \in User : f[u] = 0
    BY <1>3
  <2>2. StakePools[pid].owner_reward = 0 /\ pool_claims(pid) = StakePools[pid].owner_reward + SumFunctionOnSet(f, User)
    BY DEF Init, pool_claims
  <2> HIDE DEF f
  <2>3. SumFunctionOnSet(f, User) = 0
    BY <2>1, SumZero, PoolRewardsAssumption
  <2> QED BY <2>2, <2>3
<1>5. claims = 0
  <2> DEFINE f == [pid \in Pid |-> pool_claims(pid)]
  <2>1. \A pid \in Pid : f[pid] = 0
    BY <1>4
  <2>2. claims = SumFunctionOnSet(f, Pid)
    BY DEF claims
  <2> HIDE DEF f
  <2> QED BY <2>1, <2>2, SumZero, PoolRewardsAssumption
<1>6. messages = 0 /\ outstanding = 0
  BY DEF Init
<1>7. Rounding * RoundedUp \in Nat
  BY <1>6, RoundingNat
<1> QED BY <1>5, <1>6, <1>7 DEF AccountInv, RewardsAccounted

\* The pools promise no more than was paid out to them (handle_pool_new_reward, claim_rewards).
THEOREM AccountInvHolds == Spec => []AccountInv
<1>1. ASSUME RewardsInv, AccountInv, [Next]_vars PROVE AccountInv'
  <2>1. CASE \E pid \in Pid : \E us \in SUBSET User : \E shares \in [us -> Shares] :
                ChangeShares(pid, shares)
    BY <1>1, <2>1, ChangeSharesAccounted
  <2>2. CASE \/ \E w \in Worker, pid \in Pid \cup {None} : assign(w, pid)
             \/ \E pid \in Pid, commission \in Commission : set_payout_pref(pid, commission)
    BY <1>1, <2>2, AdminAccounted
  <2>3. CASE \E settle \in Settlements : on_reward(settle)
    BY <1>1, <2>3, RewardAccounted
  <2>4. CASE \E pid \in Pid, u \in User : claim_rewards(pid, u)
    BY <1>1, <2>4, ClaimAccounted
  <2>5. CASE UNCHANGED vars
    <3>1. UNCHANGED <<StakePools, PoolStakers, messages, outstanding>>
      BY <2>5 DEF vars, history
    <3>2. claims' = claims
      BY <3>1 DEF claims, pool_claims, settled_reward, pending_reward
    <3> QED BY <1>1, <3>1, <3>2, SameClaims
  <2> QED BY <1>1, <2>1, <2>2, <2>3, <2>4, <2>5 DEF Next
<1> QED BY <1>1, InitAccounted, RewardsInvHolds, PTL DEF Spec

\* The claims on the subsidy pool are never above what the gatekeepers paid out and was neither
\* claimed nor reported as dismissed, up to rounding (handle_pool_new_reward, claim_rewards).
THEOREM RewardsAccountedHolds == Spec => []RewardsAccounted
<1>1. AccountInv => RewardsAccounted
  BY DEF AccountInv
<1> QED BY <1>1, AccountInvHolds, PTL
=============================================================================
