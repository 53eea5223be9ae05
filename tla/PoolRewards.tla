---------------------------- MODULE PoolRewards ----------------------------
(***************************************************************************)
(* The rewards of the stake pools: payouts of the gatekeepers go to the    *)
(* pools of the settled workers, the owner takes a commission, the rest is *)
(* shared by an accumulator (utils/accumulator.rs) that is settled lazily, *)
(* whenever a user's shares change or the user claims.                     *)
(*                                                                         *)
(* This is another money than the stake of module StakePool, which shows   *)
(* that a pool's total_shares is the sum of its users' shares, and that a  *)
(* worker is assigned to a pool exactly while it is bound.  How many       *)
(* shares a call adds or removes is left open here.                        *)
(***************************************************************************)
EXTENDS BalanceMath, FiniteSetsExt, SequencesExt

CONSTANTS Pid, User, Worker,
          PoolOwner,   \* owner of each pool
          Shares,      \* numbers of shares a user may have in a pool
          Payout,      \* payouts of a settled worker, in fixed point
          Treasury,    \* the treasury's part of a settlement, in fixed point
          MILLION,     \* parts of a Permill
          Commission,  \* commissions an owner may set, in parts of MILLION
          Funds,       \* what the subsidy pool may start with
          ED,          \* the existential deposit
          MaxMessages, \* bound: messages with settlements
          None

ASSUME PoolRewardsAssumption ==
    /\ PoolOwner \in [Pid -> User]
    /\ Shares \subseteq Nat
    /\ 0 \in Shares
    /\ Payout \cup Treasury \cup Funds \subseteq Nat
    /\ MILLION \in Nat \ {0}
    /\ Commission \subseteq 0..MILLION
    /\ ED \in Nat
    /\ MaxMessages \in Nat
    /\ None \notin Pid
    /\ IsFiniteSet(Pid) /\ IsFiniteSet(User) /\ IsFiniteSet(Worker)

VARIABLES StakePools,        \* the fields of a pool that rewards are about
          PoolStakers,       \* the fields of a user in a pool that rewards are about
          WorkerAssignments,
          subsidy,           \* balance of the mining pallet's account
          \* History: what the pool should still pay each user, what the gatekeepers paid out and
          \* was neither claimed nor reported as dismissed, the part of it for which on_reward
          \* returned too early; messages so far.
          due, outstanding, lost, messages

history == <<due, outstanding, lost, messages>>
vars    == <<StakePools, PoolStakers, WorkerAssignments, subsidy, history>>

total_shares(pid) == SumFunctionOnSet([u \in User |-> PoolStakers[pid][u].shares], User)

-----------------------------------------------------------------------------
(* Accumulator.  It is settled for a user before the user's shares change. *)

pending_reward(pid, u) ==
    bmul(PoolStakers[pid][u].shares, StakePools[pid].reward_acc) - PoolStakers[pid][u].reward_debt

\* Mutant of settle_user_pending_reward: the debt is reset, the reward is not kept.
settle_user_pending_reward_Forgets(pid, u, shares) ==
    [shares |-> shares,
     available_rewards |-> PoolStakers[pid][u].available_rewards,
     reward_debt |-> bmul(shares, StakePools[pid].reward_acc)]

\* Mutant of settle_user_pending_reward: the debt is reset before the shares change.
settle_user_pending_reward_Early(pid, u, shares) ==
    [shares |-> shares,
     available_rewards |-> PoolStakers[pid][u].available_rewards + pending_reward(pid, u),
     reward_debt |-> bmul(PoolStakers[pid][u].shares, StakePools[pid].reward_acc)]

\* A user's record with its pending reward settled and its shares changed, after which the
\* debt is reset.
settle_user_pending_reward(pid, u, shares) ==
    [shares |-> shares,
     available_rewards |-> PoolStakers[pid][u].available_rewards + pending_reward(pid, u),
     reward_debt |-> bmul(shares, StakePools[pid].reward_acc)]

\* Permill times a balance, rounded to the nearest.
PermillOf(part, n) ==
    (part * n) \div MILLION + (IF (part * n) % MILLION > MILLION \div 2 THEN 1 ELSE 0)

-----------------------------------------------------------------------------
Init ==
    /\ StakePools = [pid \in Pid |-> [reward_acc |-> 0, owner_reward |-> 0, payout_commission |-> 0]]
    /\ PoolStakers = [pid \in Pid |-> [u \in User |->
                        [shares |-> 0, available_rewards |-> 0, reward_debt |-> 0]]]
    /\ WorkerAssignments = [w \in Worker |-> None]
    /\ subsidy \in Funds
    /\ due = [pid \in Pid |-> [u \in User |-> 0]]
    /\ outstanding = 0
    /\ lost = 0
    /\ messages = 0

\* A call that changes shares: contribute and withdraw change those of the caller, and they
\* and a reclaim those of the users whose requests can now be served.
ChangeShares(pid, shares) ==
    /\ PoolStakers' = [PoolStakers EXCEPT ![pid] = [u \in User |->
          IF u \in DOMAIN shares THEN settle_user_pending_reward(pid, u, shares[u]) ELSE @[u]]]
    /\ UNCHANGED <<StakePools, WorkerAssignments, subsidy, history>>

\* add_worker, and remove_worker or unbind.
assign(w, pid) ==
    /\ WorkerAssignments[w] = None <=> pid # None
    /\ WorkerAssignments' = [WorkerAssignments EXCEPT ![w] = pid]
    /\ UNCHANGED <<StakePools, PoolStakers, subsidy, history>>

set_payout_pref(pid, commission) ==
    /\ StakePools' = [StakePools EXCEPT ![pid].payout_commission = commission]
    /\ UNCHANGED <<PoolStakers, WorkerAssignments, subsidy, history>>

\* Mutant of handle_pool_new_reward: the commission is also distributed.
handle_pool_new_reward_Gross(c, pid, rewards) ==
    LET total == total_shares(pid)
        commission == PermillOf(c.pools[pid].payout_commission, rewards)
    IN  IF rewards = 0 THEN c
        ELSE IF balance_close_to_zero(total) THEN [c EXCEPT !.outstanding = @ - rewards]
        ELSE [c EXCEPT
                !.pools[pid].owner_reward = @ + commission,
                !.pools[pid].reward_acc = @ + FixedRatio(rewards, total)]

\* A pool's new reward.  The context c holds the pools and the history a message works on.
handle_pool_new_reward(c, pid, rewards) ==
    LET total == total_shares(pid)
        commission == PermillOf(c.pools[pid].payout_commission, rewards)
        rest == rewards - commission
        distributed == IF is_nondust_balance(rest) THEN rest ELSE 0
    IN  IF rewards = 0 THEN c
        ELSE IF balance_close_to_zero(total)
        THEN [pools |-> c.pools, due |-> c.due, outstanding |-> c.outstanding - rewards]
        ELSE [pools |-> [c.pools EXCEPT ![pid] =
                 [c.pools[pid] EXCEPT !.owner_reward = @ + commission,
                                      !.reward_acc = @ + FixedRatio(distributed, total)]],
              due |-> [c.due EXCEPT ![pid] = [u \in User |->
                 @[u] + (distributed * PoolStakers[pid][u].shares) \div total]],
              outstanding |-> c.outstanding - (rest - distributed)]

\* Mutant of Rewarded: on_reward returns before the first reward.
Rewarded_AllOrNothing(settle) ==
    IF \E i \in DOMAIN settle : WorkerAssignments[settle[i].worker] = None
    THEN {} ELSE DOMAIN settle

\* The settlements that on_reward comes to: it returns at the first worker without a pool.
Rewarded(settle) ==
    {i \in 1..Len(settle) : \A j \in 1..i : WorkerAssignments[settle[j].worker] # None}

reward(info) == from_fixed(info.payout)

\* The treasury's part of a settled, bound worker; without funds it fails with an event.  An
\* account below the existential deposit is reaped.
try_handle_settle(balance, info) ==
    LET rest == balance - from_fixed(info.treasury)
    IN  IF WorkerAssignments[info.worker] = None \/ rest < 0 THEN balance
        ELSE IF rest < ED THEN 0 ELSE rest

\* The pools and the history after the first n settlements.
served(settle) ==
    LET c[n \in 0..Len(settle)] ==
            IF n = 0 THEN [pools |-> StakePools, due |-> due, outstanding |-> outstanding]
            ELSE handle_pool_new_reward(c[n - 1], WorkerAssignments[settle[n].worker], reward(settle[n]))
    IN  c

\* History: the settlements behind one of a worker without a pool.
Behind(settle) ==
    {i \in DOMAIN settle : \E j \in 1..(i - 1) : WorkerAssignments[settle[j].worker] = None}

\* A gatekeeper's message with settlements of different workers: the treasury is served first,
\* then on_reward, which reports the reward of the worker it returns at.
on_reward(settle) ==
    LET n == Cardinality(Rewarded(settle))
        c == served(settle)[n]
        amounts == [i \in DOMAIN settle |-> reward(settle[i])]
    IN  /\ messages < MaxMessages
        /\ messages' = messages + 1
        /\ subsidy' = FoldLeft(try_handle_settle, subsidy, settle)
        /\ StakePools' = c.pools
        /\ due' = c.due
        /\ outstanding' = c.outstanding + SumFunctionOnSet(amounts, DOMAIN settle \ {n + 1})
        /\ lost' = lost + SumFunctionOnSet(amounts, Behind(settle))
        /\ UNCHANGED <<PoolStakers, WorkerAssignments>>

\* What the call settles for u and what it pays out as the owner's part.
owned_reward(pid, u) == IF u = PoolOwner[pid] THEN StakePools[pid].owner_reward ELSE 0
settled_reward(pid, u) == PoolStakers[pid][u].available_rewards + pending_reward(pid, u)

\* Both parts are paid together; the subsidy pool must stay alive, otherwise nothing changes.
claim_rewards(pid, u) ==
    LET rewards == settled_reward(pid, u) + owned_reward(pid, u)
    IN  /\ rewards > 0
        /\ subsidy - rewards >= ED
        /\ subsidy' = subsidy - rewards
        /\ due' = [due EXCEPT ![pid][u] = @ - settled_reward(pid, u)]
        /\ outstanding' = outstanding - rewards
        /\ StakePools' = [StakePools EXCEPT ![pid].owner_reward = @ - owned_reward(pid, u)]
        /\ PoolStakers' = [PoolStakers EXCEPT ![pid][u] =
              [settle_user_pending_reward(pid, u, PoolStakers[pid][u].shares)
                  EXCEPT !.available_rewards = 0]]
        /\ UNCHANGED <<WorkerAssignments, lost, messages>>

Settlements ==
    {[i \in DOMAIN ws |-> [worker |-> ws[i], payout |-> p, treasury |-> t]] :
        ws \in {s \in SeqOf(Worker, Cardinality(Worker)) : s # <<>> /\ IsInjective(s)},
        p \in Payout, t \in Treasury}

Next ==
    \/ \E pid \in Pid : \E us \in SUBSET User : \E shares \in [us -> Shares] :
          ChangeShares(pid, shares)
    \/ \E w \in Worker, pid \in Pid \cup {None} : assign(w, pid)
    \/ \E pid \in Pid, commission \in Commission : set_payout_pref(pid, commission)
    \/ \E settle \in Settlements : on_reward(settle)
    \/ \E pid \in Pid, u \in User : claim_rewards(pid, u)

Spec == Init /\ [][Next]_vars

-----------------------------------------------------------------------------
(* Properties.  A reward, a settlement of it and the reference computation *)
(* each round by less than a unit.                                         *)

Rounding == messages * Cardinality(Worker)

\* What the users of a pool could claim now, and all that the subsidy pool could be asked for.
pool_claims(pid) ==
    StakePools[pid].owner_reward + SumFunctionOnSet([u \in User |-> settled_reward(pid, u)], User)
claims == SumFunctionOnSet([pid \in Pid |-> pool_claims(pid)], Pid)

\* What the users of a pool may gain when one reward is shared out: each of them less than a unit
\* in the conversion to a balance, and less than a part of ONE coins in the product before it.
RoundedUp == Cardinality(User) + (Cardinality(User) * UNIT) \div ONE

\* The subtraction in the accumulator's pending never wraps around: no user's debt is above what
\* its shares have earned (utils/accumulator.rs pending, called in every settlement).
DebtsEarned == \A pid \in Pid, u \in User : pending_reward(pid, u) >= 0

\* Whenever shares change hands and rewards are claimed, a user can claim, or has claimed, the
\* part of each reward that its shares were of the pool's when the reward came in, up to rounding:
\* the lazy settlement computes what sharing out every reward at once would.  And of what the
\* gatekeepers paid out exactly the rewards behind a worker without a pool are lost, up to rounding:
\* on_reward returns at that worker, with an event for its reward alone; the rewards before it in
\* the same message, and those of all other messages, can be claimed.
RewardsShared ==
    /\ \A pid \in Pid, u \in User : settled_reward(pid, u) - due[pid][u] \in -Rounding..Rounding
    /\ claims - (outstanding - lost)
          \in -(Rounding * Cardinality(User))..(Rounding * RoundedUp)

\* The pools promise no more than was paid out to them: the claims on the subsidy pool are never
\* above what the gatekeepers paid out and was neither claimed before nor reported as dismissed,
\* up to rounding (handle_pool_new_reward, claim_rewards).
RewardsAccounted == claims <= outstanding + Rounding * RoundedUp
=============================================================================
