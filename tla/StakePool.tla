----------------------------- MODULE StakePool -----------------------------
(***************************************************************************)
(* The stake pool pallet on top of the mining pallet: pools, their shares  *)
(* and stake, the users' locked ledger, the withdraw queue with its grace  *)
(* period, the pools' workers, and the calls that drive the miners.        *)
(*                                                                         *)
(* A miner account is the sub-account <<pid, worker>> (pool_sub_account    *)
(* hashes the pair).  A call that returns an error leaves its action       *)
(* disabled: each call checks before it writes.  A call that runs into an  *)
(* "expect" cannot be included in a block: it changes nothing and is       *)
(* recorded in "panicked".  The rewards of the pools are left out.         *)
(*                                                                         *)
(* Time is relative: the age of a withdraw request or of an entry of       *)
(* WithdrawalTimestamps is now minus its start_time.  One block is one     *)
(* tick, and a request's age is saturated just after the grace period.     *)
(***************************************************************************)
EXTENDS BalanceMath, FiniteSetsExt, SequencesExt

CONSTANTS Pid,             \* pool ids, 0 .. the number of pools minus one
          Worker,          \* registered and benchmarked workers
          User,            \* accounts
          Operator,        \* the operator of each worker in the registry
          PoolOwner,       \* accounts that create pools
          None,            \* an absent storage entry
          Funds,           \* initial free balance of a user
          Contribution,    \* amounts users contribute
          Demand,          \* shares users ask back, besides all they have
          MinContribution,
          Cap,             \* pool caps an owner may set
          GracePeriod,
          MaxPoolWorkers,
          Switch,          \* values the council gives to MiningEnabled
          VE, V, StakeAmount, CoolDowns, GkInSync   \* see Mining

VARIABLES StakePools,            \* PoolInfo, None when the pool does not exist
          PoolWorkers,           \* PoolInfo.workers
          PoolStakers,           \* UserStakeInfo of each pool and user
          StakeLedger,           \* what a user has locked in all pools
          FreeBalance,           \* the currency's free balance, locked part included
          WorkerAssignments,     \* the pool of a worker
          WithdrawalTimestamps,  \* ages of the blocks in which requests were queued
          WithdrawalQueuedPools, \* the pools queued in the block of that age
          MiningEnabled,
          SubAccountPreimages,   \* miners whose preimage is kept
          panicked,              \* the last call ran into an expect
          Miners, MinerBindings, WorkerBindings, Stakes, OnlineMiners, CoolDownPeriod

Miner == Pid \X Worker

M == INSTANCE Mining

ASSUME StakePoolAssumption ==
    /\ Pid = 0..(Cardinality(Pid) - 1)
    /\ None \notin Pid
    /\ None \notin Worker
    /\ None \notin Miner
    /\ None \notin StakeAmount
    /\ Operator \in [Worker -> User]
    /\ PoolOwner \subseteq User
    /\ Contribution \subseteq Nat
    /\ Demand \subseteq Nat
    /\ MinContribution \in Nat
    /\ MinContribution > Dust   \* every contribution is more than dust
    /\ Cap \subseteq Nat
    /\ GracePeriod \in Nat
    /\ Switch \subseteq BOOLEAN
    /\ Funds \in Nat
    /\ IsFiniteSet(Pid) /\ IsFiniteSet(Worker) /\ IsFiniteSet(User)

\* What the mining pallet expects of its parameters.
ASSUME MinersAssumption ==
    /\ VE \in Nat \ {0}
    /\ V \subseteq Nat
    /\ {0, VE} \subseteq V
    /\ StakeAmount \subseteq Nat
    /\ CoolDowns \subseteq Nat
    /\ CoolDowns # {}
    /\ \E p \in CoolDowns : \A q \in CoolDowns : q <= p
    /\ GkInSync \in BOOLEAN

poolVars  == <<StakePools, PoolStakers, StakeLedger, FreeBalance>>
queueVars == <<WithdrawalTimestamps, WithdrawalQueuedPools>>
bindVars  == <<PoolWorkers, WorkerAssignments>>
miscVars  == <<MiningEnabled, SubAccountPreimages>>
minerVars == <<Miners, MinerBindings, WorkerBindings, Stakes, OnlineMiners, CoolDownPeriod>>
vars == <<poolVars, queueVars, bindVars, miscVars, panicked, minerVars>>

Age == 0..(GracePeriod + 1)

Exists(pid) == StakePools[pid] # None

-----------------------------------------------------------------------------
(* Shares and stake.  A context c holds what one call works on: the pool   *)
(* record c.p, the pool's stakers c.s, the ledger, the balances, and ok,   *)
(* which an expect that fails makes FALSE.                                 *)

Context(pid) == [p |-> StakePools[pid], s |-> PoolStakers[pid], ledger |-> StakeLedger,
                 bal |-> FreeBalance, ok |-> TRUE]

Failed(c) == [p |-> c.p, s |-> c.s, ledger |-> c.ledger, bal |-> c.bal, ok |-> FALSE]

\* A pool record with other shares and stake, another queue, another releasing stake.
WithStake(p, total_shares, total_stake, free_stake) ==
    [owner |-> p.owner, cap |-> p.cap, total_shares |-> total_shares,
     total_stake |-> total_stake, free_stake |-> free_stake,
     releasing_stake |-> p.releasing_stake, withdraw_queue |-> p.withdraw_queue]

WithQueue(p, queue) ==
    [owner |-> p.owner, cap |-> p.cap, total_shares |-> p.total_shares,
     total_stake |-> p.total_stake, free_stake |-> p.free_stake,
     releasing_stake |-> p.releasing_stake, withdraw_queue |-> queue]

WithReleasing(p, amount) ==
    [owner |-> p.owner, cap |-> p.cap, total_shares |-> p.total_shares,
     total_stake |-> p.total_stake, free_stake |-> p.free_stake,
     releasing_stake |-> amount, withdraw_queue |-> p.withdraw_queue]

HasPrice(p) == p.total_shares # 0

share_price(p) == FixedRatio(p.total_stake, p.total_shares)

\* A price that is there and not zero.
IsPriced(p) == HasPrice(p) /\ share_price(p) # 0

ledger_reduce(c, u, amount, dust) ==
    [p |-> c.p, s |-> c.s, ok |-> c.ok,
     ledger |-> [c.ledger EXCEPT ![u] = SaturatingSub(@, amount + dust)],
     bal |-> [c.bal EXCEPT ![u] = SaturatingSub(@, dust)]]

\* What the user's locked stake loses when it follows the share price down.
SlashOf(c, u) ==
    LET user == c.s[u]
        worth == Lesser(bmul(user.shares, share_price(c.p)), user.locked)
    IN  IF HasPrice(c.p) THEN user.locked - NonDust(worth) ELSE 0

\* Mutant of maybe_settle_slash: the ledger is not told of the slash.
maybe_settle_slash_KeepsLedger(c, u) ==
    LET lost == SlashOf(c, u)
    IN  [p |-> c.p, ok |-> c.ok, ledger |-> c.ledger,
         s |-> [c.s EXCEPT ![u] = [locked |-> @.locked - lost, shares |-> @.shares]],
         bal |-> [c.bal EXCEPT ![u] = @ - Lesser(lost, @)]]

\* The slash is taken from the user's lock, and from the balance and the ledger unless it is
\* dust.
maybe_settle_slash(c, u) ==
    LET lost == SlashOf(c, u)
        actual == IF is_nondust_balance(lost) THEN Lesser(lost, c.bal[u]) ELSE 0
    IN  [p |-> c.p, ok |-> c.ok,
         s |-> [c.s EXCEPT ![u] = [locked |-> @.locked - lost, shares |-> @.shares]],
         ledger |-> [c.ledger EXCEPT ![u] = SaturatingSub(@, actual)],
         bal |-> [c.bal EXCEPT ![u] = @ - actual]]

\* The shares that an amount buys.
SharesFor(p, amount) == IF IsPriced(p) THEN bdiv(amount, share_price(p)) ELSE amount

\* Mutant of add_stake: the pool counts a share for each unit whatever the price.
add_stake_AtPar(c, u, amount) ==
    LET shares == SharesFor(c.p, amount)
    IN  [p |-> WithStake(c.p, c.p.total_shares + amount, c.p.total_stake + amount,
                         c.p.free_stake + amount),
         s |-> [c.s EXCEPT ![u] = [locked |-> @.locked + amount, shares |-> @.shares + shares]],
         ledger |-> [c.ledger EXCEPT ![u] = @ + amount],
         bal |-> c.bal, ok |-> c.ok]

add_stake(c, u, amount) ==
    LET shares == SharesFor(c.p, amount)
    IN  [p |-> WithStake(c.p, c.p.total_shares + shares, c.p.total_stake + amount,
                         c.p.free_stake + amount),
         s |-> [c.s EXCEPT ![u] = [locked |-> @.locked + amount, shares |-> @.shares + shares]],
         ledger |-> [c.ledger EXCEPT ![u] = @ + amount],
         bal |-> c.bal, ok |-> c.ok]

\* Mutant of Payout: the price is cut to eighths.
Payout_Coarse(c, u, shares) ==
    LET eighth == ONE \div 8
        price == (share_price(c.p) \div eighth) * eighth
    IN  Lesser(Lesser(bmul(shares, price), c.p.free_stake), c.s[u].locked)

\* What the pool pays out for the shares: never more than its free stake or the user's lock.
Payout(c, u, shares) ==
    Lesser(Lesser(bmul(shares, share_price(c.p)), c.p.free_stake), c.s[u].locked)

\* Mutant of remove_stake: the pool keeps counting the shares the user drops as dust.
remove_stake_KeepsDust(c, u, shares) ==
    LET user == c.s[u]
        amount == Payout(c, u, shares)
        removed == [p |-> WithStake(c.p, c.p.total_shares - shares,
                                    NonDust(c.p.total_stake - amount), c.p.free_stake - amount),
                    s |-> [c.s EXCEPT ![u] = [locked |-> NonDust(user.locked - amount),
                                              shares |-> NonDust(user.shares - shares)]],
                    ledger |-> c.ledger, bal |-> c.bal, ok |-> c.ok]
    IN  IF HasPrice(c.p) /\ shares <= user.shares
        THEN ledger_reduce(removed, u, amount, DustOf(user.locked - amount))
        ELSE Failed(c)

\* remove_stake, the "expect" on its result and the ledger_reduce that follows it.
remove_stake(c, u, shares) ==
    LET user == c.s[u]
        amount == Payout(c, u, shares)
        dropped == DustOf(user.shares - shares)
        empties == balance_close_to_zero(c.p.total_stake - amount)
        removed == [p |-> WithStake(c.p, c.p.total_shares - (shares + dropped),
                                    IF empties THEN 0 ELSE c.p.total_stake - amount,
                                    IF empties THEN 0 ELSE c.p.free_stake - amount),
                    s |-> [c.s EXCEPT ![u] = [locked |-> NonDust(user.locked - amount),
                                              shares |-> NonDust(user.shares - shares)]],
                    ledger |-> c.ledger, bal |-> c.bal, ok |-> c.ok]
    IN  IF HasPrice(c.p) /\ shares <= user.shares /\ shares + dropped <= c.p.total_shares
        THEN ledger_reduce(removed, u, amount, DustOf(user.locked - amount))
        ELSE Failed(c)

\* The context with another withdraw queue.
Requeue(c, queue) ==
    [p |-> WithQueue(c.p, queue), s |-> c.s, ledger |-> c.ledger, bal |-> c.bal, ok |-> c.ok]

\* Mutant of ProcessFront: the newest request is taken instead of the oldest.
ProcessFront_Newest(c, price) ==
    LET request == c.p.withdraw_queue[Len(c.p.withdraw_queue)]
        others == SubSeq(c.p.withdraw_queue, 1, Len(c.p.withdraw_queue) - 1)
        free_shares == IF price = 0 THEN request.shares ELSE bdiv(c.p.free_stake, price)
        withdrawing == Lesser(free_shares, request.shares)
        rest == NonDust(request.shares - withdrawing)
        served == remove_stake(maybe_settle_slash(c, request.user), request.user, withdrawing)
        left == [user |-> request.user, shares |-> rest, age |-> request.age]
    IN  IF served.ok THEN Requeue(served, IF rest = 0 THEN others ELSE Append(others, left))
        ELSE served

\* One iteration of the loop over the withdraw queue.
ProcessFront(c, price) ==
    LET request == Head(c.p.withdraw_queue)
        others == Tail(c.p.withdraw_queue)
        free_shares == IF price = 0 THEN request.shares ELSE bdiv(c.p.free_stake, price)
        withdrawing == Lesser(free_shares, request.shares)
        rest == NonDust(request.shares - withdrawing)
        served == remove_stake(maybe_settle_slash(c, request.user), request.user, withdrawing)
        left == [user |-> request.user, shares |-> rest, age |-> request.age]
    IN  IF served.ok THEN Requeue(served, IF rest = 0 THEN others ELSE <<left>> \o others)
        ELSE served

\* The loop's condition: there is stake to give and somebody to give it to.
MayServe(c) == c.ok /\ is_nondust_balance(c.p.free_stake) /\ c.p.withdraw_queue # <<>>

\* The queue is served in order while there is stake to give.  Every iteration serves a
\* request completely or uses up the free stake; twice the queue's length bounds them.
try_process_withdraw_queue(c) ==
    LET price == share_price(c.p)
        bound == 2 * Len(c.p.withdraw_queue)
        after[n \in 0..bound] ==
            IF n = 0 THEN c
            ELSE IF MayServe(after[n - 1]) THEN ProcessFront(after[n - 1], price)
            ELSE after[n - 1]
    IN  IF HasPrice(c.p) THEN after[bound] ELSE c

\* How a request of try_withdraw is split: what is withdrawn now and what is queued.
WithdrawnNow(p, shares) ==
    NonDust(IF IsPriced(p) THEN Lesser(shares, bdiv(p.free_stake, share_price(p))) ELSE shares)
QueuedShares(p, shares) == NonDust(shares - WithdrawnNow(p, shares))

WithdrawNow(c, u, now) == IF now > 0 THEN remove_stake(maybe_settle_slash(c, u), u, now) ELSE c

\* The queue without the requests of the user.
Without(queue, u) ==
    LET retained[n \in 0..Len(queue)] ==
            IF n = 0 THEN <<>>
            ELSE IF queue[n].user = u THEN retained[n - 1]
            ELSE Append(retained[n - 1], queue[n])
    IN  retained[Len(queue)]

\* Mutant of try_withdraw: the user's older request stays.
try_withdraw_KeepsOlder(c, u, shares) ==
    LET queued == QueuedShares(c.p, shares)
        done == WithdrawNow(c, u, WithdrawnNow(c.p, shares))
        request == [user |-> u, shares |-> queued, age |-> 0]
    IN  IF queued = 0 THEN done ELSE Requeue(done, Append(done.p.withdraw_queue, request))

\* The user's older request is dropped only when a new one is queued.
try_withdraw(c, u, shares) ==
    LET queued == QueuedShares(c.p, shares)
        done == WithdrawNow(c, u, WithdrawnNow(c.p, shares))
        request == [user |-> u, shares |-> queued, age |-> 0]
    IN  IF queued = 0 THEN done
        ELSE Requeue(done, Append(Without(done.p.withdraw_queue, u), request))

\* A context whose pool got stake back from a miner.
Reclaimed(c, total_stake, returned, releasing) ==
    [p |-> WithReleasing(WithStake(c.p, c.p.total_shares, total_stake,
                                   c.p.free_stake + returned), releasing),
     s |-> c.s, ledger |-> c.ledger, bal |-> c.bal, ok |-> c.ok]

\* Mutants of handle_reclaim: the slash is not taken off the pool's stake; the queue is not
\* served; the returned stake stays among what is expected back.
handle_reclaim_Unslashed(c, orig_stake, slashed) ==
    LET returned == orig_stake - slashed
    IN  try_process_withdraw_queue(
          Reclaimed(c, c.p.total_stake, returned, SaturatingSub(c.p.releasing_stake, returned)))

handle_reclaim_Unserved(c, orig_stake, slashed) ==
    LET returned == orig_stake - slashed
    IN  Reclaimed(c, NonDust(SaturatingSub(c.p.total_stake, slashed)), returned,
                  SaturatingSub(c.p.releasing_stake, returned))

handle_reclaim_StillReleasing(c, orig_stake, slashed) ==
    try_process_withdraw_queue(
        Reclaimed(c, NonDust(SaturatingSub(c.p.total_stake, slashed)), orig_stake - slashed,
                  c.p.releasing_stake))

\* PoolInfo.slash and the rest of handle_reclaim.
handle_reclaim(c, orig_stake, slashed) ==
    LET returned == orig_stake - slashed
        left == IF slashed = 0 THEN c.p.total_stake
                ELSE NonDust(SaturatingSub(c.p.total_stake, slashed))
    IN  try_process_withdraw_queue(
          Reclaimed(c, left, returned, SaturatingSub(c.p.releasing_stake, returned)))

\* Is the first request that the free and the releasing stake cannot cover out of grace?
has_expired_withdrawal(p) ==
    LET queue == p.withdraw_queue
        amount == [i \in DOMAIN queue |-> bmul(queue[i].shares, share_price(p))]
        exceeds(i) == SumFunctionOnSet(amount, 1..i) > p.free_stake + p.releasing_stake
        over == {i \in DOMAIN queue : exceeds(i)}
    IN  IsPriced(p) /\ over # {} /\ queue[Min(over)].age > GracePeriod

\* Writes the context of a call back.
Commit(pid, c) ==
    /\ StakePools' = [StakePools EXCEPT ![pid] = c.p]
    /\ PoolStakers' = [PoolStakers EXCEPT ![pid] = c.s]
    /\ StakeLedger' = c.ledger
    /\ FreeBalance' = c.bal
    /\ panicked' = FALSE

Panic == panicked' = TRUE /\ UNCHANGED <<poolVars, queueVars, bindVars, miscVars, minerVars>>

-----------------------------------------------------------------------------
EmptyPool(owner) ==
    [owner |-> owner, cap |-> None, total_shares |-> 0, total_stake |-> 0, free_stake |-> 0,
     releasing_stake |-> 0, withdraw_queue |-> <<>>]

\* A user without a UserStakeInfo entry is one without shares.
Init ==
    /\ StakePools = [pid \in Pid |-> None]
    /\ PoolWorkers = [pid \in Pid |-> {}]
    /\ PoolStakers = [pid \in Pid |-> [u \in User |-> [locked |-> 0, shares |-> 0]]]
    /\ StakeLedger = [u \in User |-> 0]
    /\ FreeBalance = [u \in User |-> Funds]
    /\ WorkerAssignments = [w \in Worker |-> None]
    /\ WithdrawalTimestamps = <<>>
    /\ WithdrawalQueuedPools = [a \in Age |-> {}]
    /\ MiningEnabled = TRUE
    /\ SubAccountPreimages = {}
    /\ panicked = FALSE
    /\ M!Init

\* The pools are numbered by PoolCount.
create(owner, pid) ==
    /\ ~Exists(pid)
    /\ \A q \in 0..(pid - 1) : Exists(q)
    /\ StakePools' = [StakePools EXCEPT ![pid] = EmptyPool(owner)]
    /\ panicked' = FALSE
    /\ UNCHANGED <<PoolStakers, StakeLedger, FreeBalance, queueVars, bindVars, miscVars, minerVars>>

add_worker(pid, w) ==
    /\ Exists(pid)
    /\ Operator[w] = StakePools[pid].owner
    /\ w \notin PoolWorkers[pid]
    /\ Cardinality(PoolWorkers[pid]) + 1 <= MaxPoolWorkers
    /\ M!bind(<<pid, w>>, w)
    /\ PoolWorkers' = [PoolWorkers EXCEPT ![pid] = @ \cup {w}]
    /\ WorkerAssignments' = [WorkerAssignments EXCEPT ![w] = pid]
    /\ panicked' = FALSE
    /\ UNCHANGED <<poolVars, queueVars, miscVars>>

\* What the miners will return.
Repayment(miners) == SumFunction([m \in miners |-> M!Returned(m)])

\* A pool record once its miners among "stopped" were stopped.
Expecting(p, pid, stopped) ==
    LET miners == {m \in stopped : m[1] = pid}
    IN  IF miners = {} THEN p ELSE WithReleasing(p, p.releasing_stake + Repayment(miners))

\* on_stopped: the pools expect back what their stopped miners return.
on_stopped(stopped) ==
    StakePools' = [pid \in Pid |-> Expecting(StakePools[pid], pid, stopped)]

\* Mutant of DetachWorker: the assignment stays.
DetachWorker_KeepsAssignment(pid, w) ==
    /\ M!unbind_miner(<<pid, w>>)
    /\ on_stopped({<<pid, w>>} \cap M!MiningMiners)
    /\ PoolWorkers' = [PoolWorkers EXCEPT ![WorkerAssignments[w]] = @ \ {w}]
    /\ panicked' = FALSE
    /\ UNCHANGED <<PoolStakers, StakeLedger, FreeBalance, WorkerAssignments, queueVars, miscVars>>

\* unbind_miner with its notifications, and remove_worker_from_pool.
DetachWorker(pid, w) ==
    /\ M!unbind_miner(<<pid, w>>)
    /\ on_stopped({<<pid, w>>} \cap M!MiningMiners)
    /\ PoolWorkers' = [PoolWorkers EXCEPT ![WorkerAssignments[w]] = @ \ {w}]
    /\ WorkerAssignments' = [WorkerAssignments EXCEPT ![w] = None]
    /\ panicked' = FALSE
    /\ UNCHANGED <<PoolStakers, StakeLedger, FreeBalance, queueVars, miscVars>>

\* remove_worker is the pool owner's; the pool is the one the worker is assigned to.
remove_worker(pid, w) ==
    /\ Exists(pid)
    /\ WorkerAssignments[w] = pid
    /\ DetachWorker(pid, w)

\* Mining's unbind is the worker operator's, and names any miner account.
unbind(who, pid, w) ==
    /\ Operator[w] = who
    /\ DetachWorker(pid, w)

WithCap(p, cap) ==
    [owner |-> p.owner, cap |-> cap, total_shares |-> p.total_shares,
     total_stake |-> p.total_stake, free_stake |-> p.free_stake,
     releasing_stake |-> p.releasing_stake, withdraw_queue |-> p.withdraw_queue]

\* Mutant of set_cap: the cap may be below the stake that is there.
set_cap_Unchecked(pid, cap) ==
    /\ Exists(pid)
    /\ StakePools' = [StakePools EXCEPT ![pid] = WithCap(@, cap)]
    /\ panicked' = FALSE
    /\ UNCHANGED <<PoolStakers, StakeLedger, FreeBalance, queueVars, bindVars, miscVars, minerVars>>

set_cap(pid, cap) ==
    /\ Exists(pid)
    /\ StakePools[pid].total_stake <= cap
    /\ StakePools' = [StakePools EXCEPT ![pid] = WithCap(@, cap)]
    /\ panicked' = FALSE
    /\ UNCHANGED <<PoolStakers, StakeLedger, FreeBalance, queueVars, bindVars, miscVars, minerVars>>

\* A pool whose whole stake was slashed under its shares takes no contribution.
contribute(u, pid, amount) ==
    LET c == Context(pid)
        p == c.p
        done == try_process_withdraw_queue(add_stake(maybe_settle_slash(c, u), u, amount))
    IN  /\ amount >= MinContribution
        /\ FreeBalance[u] - StakeLedger[u] >= amount
        /\ Exists(pid)
        /\ p.cap # None => SaturatingSub(p.cap, p.total_stake) >= amount
        /\ p.total_shares = 0 \/ p.total_stake > 0
        /\ IF done.ok
           THEN Commit(pid, done) /\ UNCHANGED <<queueVars, bindVars, miscVars, minerVars>>
           ELSE Panic

\* Mutant of IndexRequest: only the first pool of a block is listed.
IndexRequest_FirstPool(pid) ==
    IF WithdrawalTimestamps # <<>> /\ Last(WithdrawalTimestamps) = 0
    THEN UNCHANGED queueVars
    ELSE /\ WithdrawalTimestamps' = Append(WithdrawalTimestamps, 0)
         /\ WithdrawalQueuedPools' = [WithdrawalQueuedPools EXCEPT ![0] = @ \cup {pid}]

\* maybe_add_withdraw_queue: the block's entry in the index of the queued requests.
IndexRequest(pid) ==
    /\ WithdrawalTimestamps' =
          IF WithdrawalTimestamps # <<>> /\ Last(WithdrawalTimestamps) = 0
          THEN WithdrawalTimestamps ELSE Append(WithdrawalTimestamps, 0)
    /\ WithdrawalQueuedPools' = [WithdrawalQueuedPools EXCEPT ![0] = @ \cup {pid}]

withdraw(u, pid, shares) ==
    LET done == try_withdraw(Context(pid), u, shares)
    IN  /\ Exists(pid)
        /\ is_nondust_balance(shares)
        /\ shares <= PoolStakers[pid][u].shares
        /\ \/ ~done.ok /\ Panic
           \/ /\ done.ok
              /\ Commit(pid, done)
              /\ IF QueuedShares(StakePools[pid], shares) > 0
                 THEN IndexRequest(pid) ELSE UNCHANGED queueVars
              /\ UNCHANGED <<bindVars, miscVars, minerVars>>

\* Mutant of start_mining: the pool's free stake is not looked at.
start_mining_Unfunded(pid, w, stake) ==
    /\ MiningEnabled
    /\ Exists(pid)
    /\ w \in PoolWorkers[pid]
    /\ M!start_mining(<<pid, w>>, stake)
    /\ StakePools' = [StakePools EXCEPT ![pid] =
                        WithStake(@, @.total_shares, @.total_stake, @.free_stake - stake)]
    /\ SubAccountPreimages' = SubAccountPreimages \cup {<<pid, w>>}
    /\ panicked' = FALSE
    /\ UNCHANGED <<PoolStakers, StakeLedger, FreeBalance, queueVars, bindVars, MiningEnabled>>

start_mining(pid, w, stake) ==
    /\ MiningEnabled
    /\ Exists(pid)
    /\ StakePools[pid].free_stake >= stake
    /\ w \in PoolWorkers[pid]
    /\ M!start_mining(<<pid, w>>, stake)
    /\ StakePools' = [StakePools EXCEPT ![pid] =
                        WithStake(@, @.total_shares, @.total_stake, @.free_stake - stake)]
    /\ SubAccountPreimages' = SubAccountPreimages \cup {<<pid, w>>}
    /\ panicked' = FALSE
    /\ UNCHANGED <<PoolStakers, StakeLedger, FreeBalance, queueVars, bindVars, MiningEnabled>>

stop_mining(pid, w) ==
    /\ MiningEnabled
    /\ Exists(pid)
    /\ w \in PoolWorkers[pid]
    /\ M!stop_mining(<<pid, w>>)
    /\ on_stopped({<<pid, w>>})
    /\ panicked' = FALSE
    /\ UNCHANGED <<PoolStakers, StakeLedger, FreeBalance, queueVars, bindVars, miscVars>>

\* Mutant of reclaim_pool_worker: the preimage stays.
reclaim_pool_worker_KeepsPreimage(pid, w) ==
    LET m == <<pid, w>>
        done == handle_reclaim(Context(pid), Stakes[m], M!Slashed(m))
    IN  /\ Exists(pid)
        /\ M!can_reclaim(m)
        /\ done.ok
        /\ M!reclaim(m)
        /\ Commit(pid, done)
        /\ UNCHANGED <<queueVars, bindVars, miscVars>>

\* Anybody may reclaim, also a worker that has left the pool.
reclaim_pool_worker(pid, w) ==
    LET m == <<pid, w>>
        done == handle_reclaim(Context(pid), Stakes[m], M!Slashed(m))
    IN  /\ Exists(pid)
        /\ M!can_reclaim(m)
        /\ \/ ~done.ok /\ Panic
           \/ /\ done.ok
              /\ M!reclaim(m)
              /\ Commit(pid, done)
              /\ SubAccountPreimages' = SubAccountPreimages \ {m}
              /\ UNCHANGED <<queueVars, bindVars, MiningEnabled>>

set_mining_enable(enable) ==
    /\ MiningEnabled' = enable
    /\ panicked' = FALSE
    /\ UNCHANGED <<poolVars, queueVars, bindVars, SubAccountPreimages, minerVars>>

\* Repairs the first request of the user that exceeds the shares there are.
reconcile_withdraw_queue(pid, u) ==
    LET available == NonDust(PoolStakers[pid][u].shares)
        queue == StakePools[pid].withdraw_queue
        wrong == {i \in DOMAIN queue : queue[i].user = u /\ queue[i].shares > available}
        i == Min(wrong)
    IN  /\ Exists(pid)
        /\ wrong # {}
        /\ StakePools' = [StakePools EXCEPT ![pid] = WithQueue(@,
                            IF available = 0 THEN RemoveAt(queue, i)
                            ELSE [queue EXCEPT ![i] = [user |-> @.user, shares |-> available,
                                                       age |-> @.age]])]
        /\ panicked' = FALSE
        /\ UNCHANGED <<PoolStakers, StakeLedger, FreeBalance, queueVars, bindVars, miscVars, minerVars>>

\* A gatekeeper's message, as far as the miners go.
on_gk_message_received(offline, recovered, settle) ==
    /\ M!on_gk_message_received(offline, recovered, settle)
    /\ panicked' = FALSE
    /\ UNCHANGED <<poolVars, queueVars, bindVars, miscVars>>

set_cool_down_expiration(period) ==
    /\ M!set_cool_down_expiration(period)
    /\ panicked' = FALSE
    /\ UNCHANGED <<poolVars, queueVars, bindVars, miscVars>>

-----------------------------------------------------------------------------
(* The end of a block: maybe_force_withdraw, then the next timestamp. *)

\* The timestamps that the loop takes off the front, which are out of grace, and the pools to
\* shut down.
Expired == {i \in DOMAIN WithdrawalTimestamps :
                \A j \in 1..i : WithdrawalTimestamps[j] > GracePeriod}
ForcedPools ==
    {pid \in UNION {WithdrawalQueuedPools[WithdrawalTimestamps[i]] : i \in Expired} :
        has_expired_withdrawal(StakePools[pid])}

Older(age) == Lesser(age + 1, GracePeriod + 1)

\* The requests of a pool record a block later.
AgedPool(p) ==
    LET queue == p.withdraw_queue
    IN  IF p = None THEN p
        ELSE WithQueue(p, [i \in DOMAIN queue |->
                [user |-> queue[i].user, shares |-> queue[i].shares, age |-> Older(queue[i].age)]])

\* The pools once their miners in "stopped" were stopped (on_stopped), a block later.
PoolsAfterBlock(stopped) ==
    [pid \in Pid |-> Expecting(AgedPool(StakePools[pid]), pid, stopped)]

EndBlock ==
    LET stopping == {m \in Miner : m[1] \in ForcedPools /\ m[2] \in PoolWorkers[m[1]]}
        live == SubSeq(WithdrawalTimestamps, Cardinality(Expired) + 1, Len(WithdrawalTimestamps))
    IN  /\ M!EndBlock(stopping)
        /\ StakePools' = PoolsAfterBlock(stopping \cap M!MiningMiners)
        /\ WithdrawalTimestamps' = [i \in DOMAIN live |-> live[i] + 1]
        /\ WithdrawalQueuedPools' =
              [a \in Age |-> IF a = 0 THEN {} ELSE WithdrawalQueuedPools[a - 1]]
        /\ panicked' = FALSE
        /\ UNCHANGED <<PoolStakers, StakeLedger, FreeBalance, bindVars, miscVars>>

-----------------------------------------------------------------------------
UserCall ==
    \E u \in User, pid \in Pid :
        \/ u \in PoolOwner /\ create(u, pid)
        \/ \E amount \in Contribution : contribute(u, pid, amount)
        \/ \E shares \in Demand \cup {PoolStakers[pid][u].shares} : withdraw(u, pid, shares)
        \/ reconcile_withdraw_queue(pid, u)
        \/ \E w \in Worker : unbind(u, pid, w)

PoolCall ==
    \E pid \in Pid :
        \/ \E cap \in Cap : set_cap(pid, cap)
        \/ \E w \in Worker :
              \/ add_worker(pid, w)
              \/ remove_worker(pid, w)
              \/ \E stake \in StakeAmount : start_mining(pid, w, stake)
              \/ stop_mining(pid, w)
              \/ reclaim_pool_worker(pid, w)

ChainEvent ==
    \/ \E offline, recovered, settled \in SUBSET Worker : \E settle \in [settled -> V] :
          on_gk_message_received(offline, recovered, settle)
    \/ \E period \in CoolDowns : set_cool_down_expiration(period)
    \/ \E enable \in Switch : set_mining_enable(enable)
    \/ EndBlock

Next == UserCall \/ PoolCall \/ ChainEvent

Spec == Init /\ [][Next]_vars

\* The scheduler's part: blocks keep being produced, and somebody reclaims every worker whose
\* cool-down is over (any account may).  A reclaim ends the cool-down, so that its weak
\* fairness is that no worker stays reclaimable for ever.
FairSpec ==
    /\ Spec
    /\ WF_vars(EndBlock)
    /\ \A m \in Miner : []<>~M!can_reclaim(m)

-----------------------------------------------------------------------------
(* Safety *)

Pools == {pid \in Pid : Exists(pid)}
Queue(pid) == StakePools[pid].withdraw_queue

WithdrawInfo == [user : User, shares : Nat, age : Age]
UserStakeInfo == [locked : Nat, shares : Nat]
PoolInfo == [owner : PoolOwner, cap : Cap \cup {None}, total_shares : Nat, total_stake : Nat,
             free_stake : Nat, releasing_stake : Nat, withdraw_queue : Seq(WithdrawInfo)]

\* An absent pool is told from every record.
ASSUME NoneIsNoPool == None \notin PoolInfo

\* Every storage item has its declared shape; in particular no unsigned amount ever
\* underflows.
TypeOK ==
    /\ M!TypeOK
    /\ StakePools \in [Pid -> PoolInfo \cup {None}]
    /\ PoolWorkers \in [Pid -> SUBSET Worker]
    /\ PoolStakers \in [Pid -> [User -> UserStakeInfo]]
    /\ StakeLedger \in [User -> Nat]
    /\ FreeBalance \in [User -> Nat]
    /\ WorkerAssignments \in [Worker -> Pid \cup {None}]
    /\ WithdrawalTimestamps \in Seq(Age)
    /\ WithdrawalQueuedPools \in [Age -> SUBSET Pid]
    /\ MiningEnabled \in BOOLEAN
    /\ SubAccountPreimages \subseteq Miner
    /\ panicked \in BOOLEAN

\* "pool.total_shares == sum(pool_user.shares)" (remove_stake), whatever dust was dropped by
\* immediate withdrawals, queued ones and slashes.
SharesConserved ==
    \A pid \in Pools :
        StakePools[pid].total_shares =
            SumFunction([u \in User |-> PoolStakers[pid][u].shares])

\* A user's lock covers what the user has locked in all pools, and the user's balance covers
\* the lock, slashes and dust included; contribute subtracts one from the other unchecked.
LedgerCovers ==
    \A u \in User :
        /\ SumFunction([pid \in Pid |-> PoolStakers[pid][u].locked]) <= StakeLedger[u]
        /\ StakeLedger[u] <= FreeBalance[u]

InSession(pid) == {m \in Miner : m[1] = pid /\ Stakes[m] # None}
Cooling(pid) == {m \in InSession(pid) : Miners[m].state = "MiningCoolingDown"}

\* The stake that backs the shares is either free or with one of the pool's miners, mining
\* or cooling, also those whose worker has left the pool.
StakeBacked ==
    \A pid \in Pools :
        StakePools[pid].total_stake <=
            StakePools[pid].free_stake + SumFunctionOnSet(Stakes, InSession(pid))

\* What the pool expects back (on_stopped) is what its cooling miners will return (reclaim):
\* on_stopped "guarantees the number will be the same as the return value of reclaim()".
ReleasingExact ==
    \A pid \in Pools :
        StakePools[pid].releasing_stake = Repayment(Cooling(pid))

\* A user has at most one request in a pool's queue, and no request is dust.
OneRequestPerUser ==
    \A pid \in Pools : \A i, j \in DOMAIN Queue(pid) :
        /\ is_nondust_balance(Queue(pid)[i].shares)
        /\ Queue(pid)[i].user = Queue(pid)[j].user => i = j

\* "We really don't want to have free stake and withdraw requests at the same time": every
\* call that frees stake serves the queue, and every call that queues uses up the free stake,
\* up to dust or to what buys no more than dust of the shares.
IsIdle(p) ==
    /\ is_nondust_balance(p.free_stake)
    /\ IsPriced(p) => is_nondust_balance(bdiv(p.free_stake, share_price(p)))
NoIdleStake == \A pid \in Pools : Queue(pid) # <<>> => ~IsIdle(StakePools[pid])

\* The two indexes of the queued requests agree, so that taking a timestamp's pool list
\* ("Pool list must exist; qed.") always finds it; and a request in its grace period is
\* listed, so that the end of its grace period will be noticed.
RequestsIndexed ==
    /\ \A i, j \in DOMAIN WithdrawalTimestamps :
          i < j => WithdrawalTimestamps[i] > WithdrawalTimestamps[j]
    /\ Range(WithdrawalTimestamps) = {a \in Age : WithdrawalQueuedPools[a] # {}}
    /\ \A pid \in Pools : \A i \in DOMAIN Queue(pid) :
          Queue(pid)[i].age <= GracePeriod => pid \in WithdrawalQueuedPools[Queue(pid)[i].age]

\* A worker is assigned to the pool that lists it, and bound to that pool's sub-account, in
\* all four maps of the two pallets; a mining worker's stop can tell its pool (on_stopped
\* expects the assignment).
WorkersAgree ==
    \A pid \in Pid, w \in Worker :
        /\ w \in PoolWorkers[pid] <=> WorkerAssignments[w] = pid
        /\ w \in PoolWorkers[pid] <=> MinerBindings[<<pid, w>>] = w
        /\ w \in PoolWorkers[pid] <=> WorkerBindings[w] = <<pid, w>>

\* The preimages kept are those of the miners that hold a stake ("Only start_mining is paired
\* with reclaim").
PreimagesMatchStakes == SubAccountPreimages = {m \in Miner : Stakes[m] # None}

\* A pool never holds more than its cap, whichever of set_cap and contribute comes first.
CapRespected ==
    \A pid \in Pools : StakePools[pid].cap # None =>
        StakePools[pid].total_stake <= StakePools[pid].cap

\* No call runs into an expect: "Remove only what we have; qed." in the queue, "There are
\* enough withdrawing_shares; qed." in withdraw.
NoPanic == ~panicked

-----------------------------------------------------------------------------
(* Action properties and liveness *)

Unlocked(u) == FreeBalance[u] - StakeLedger[u]
WaitsIn(u, pid) == Exists(pid) /\ \E i \in DOMAIN Queue(pid) : Queue(pid)[i].user = u
QueuedBefore(pid, u, v) ==
    \E i, j \in DOMAIN Queue(pid) : i < j /\ Queue(pid)[i].user = u /\ Queue(pid)[j].user = v

\* First come, first served: while a request waits ahead of a user's own, that user gets no
\* stake out of the pool but dust, neither from the queue nor by asking again.
FirstComeFirstServed ==
    [][\A pid \in Pools, u, v \in User :
          QueuedBefore(pid, u, v) /\ PoolStakers'[pid][v].shares < PoolStakers[pid][v].shares
            /\ Unlocked(v)' > Unlocked(v) + Dust
          => ~WaitsIn(u, pid)']_vars

\* A queued request is served, or worthless because the whole stake was lost, in the end: once
\* its grace period is over the pool's workers are stopped and their stake is reclaimed.  Only
\* its own user can put that off, by asking again: the new request is in its first block.
RequestsServed ==
    \A pid \in Pid, u \in User :
        WaitsIn(u, pid) ~>
            \/ ~WaitsIn(u, pid)
            \/ ~IsPriced(StakePools[pid])
            \/ \E i \in DOMAIN Queue(pid) : Queue(pid)[i].user = u /\ Queue(pid)[i].age = 0
=============================================================================
