# A TLA+ model of the Khala parachain's pallets

The repository is the Khala parachain: a Substrate chain on which workers
(secure enclaves) mine for stake that users pool, with a message queue between the
chain and the workers, and bridges to other chains. This directory models the parts
that hold money or carry messages and that many actors drive in an order nobody
controls: the **mining pallet** and the **registry**, the **stake pools** and their
**rewards**, the **message queue** on the chain and in the workers, the **ChainBridge
pallet**, the **asset registry** and the **transfers** over bridge and XCM. The modules
are checked with TLC on small instances; the main invariants of mining, sessions,
bridge and asset registry, the books of the stake pools and the transfers, and the
message queue's refinement of a channel are proved with TLAPS for all values of the
constants.

Line numbers refer to `src/`; `stakepool.rs`, `mining.rs` and the other pallets
without a path are in `pallets/phala/src/`, `bridge/mod.rs` and its neighbours in
`pallets/xtransfer/src/`. `PROJECT.json` maps each definition to its lines.

## 1. Inventory

| Component | State | Operations | Talks to |
|---|---|---|---|
| Mining pallet (`mining.rs`) | `Miners`, `MinerBindings`, `WorkerBindings`, `Stakes`, `OnlineMiners`, `CoolDownPeriod`; also tokenomic parameters, halving, benchmarks | `bind`, `unbind`, `start_mining`, `stop_mining`, `reclaim`, messages of the gatekeeper and of the workers | called by the stake pools; tells them of stops, unbinds and rewards (`OnStopped`, `OnUnbound`, `OnReward`); messages through the queue |
| Stake pool pallet (`stakepool.rs`) | `StakePools` with their withdraw queues, `PoolStakers`, `StakeLedger`, `WorkerAssignments`, `WithdrawalTimestamps`, `WithdrawalQueuedPools`, `MiningEnabled`, `SubAccountPreimages` | users contribute, withdraw and claim; owners manage workers, cap and payout; anybody reclaims a worker; the end of a block enforces expired withdrawals | mining pallet, registry, the currency's balances and locks |
| Balance arithmetic, accumulator (`utils/`) | none | `to_fixed`, `from_fixed`, `mul`, `div`, dust; `pending`, `distribute` | stake pools, mining |
| Registry (`registry.rs`) | `Workers`, `Gatekeeper`, `GatekeeperMasterPubkey`, allow lists | register a worker, benchmark report, launch of the gatekeepers | stake pools, mining, message queue |
| Message queue pallet (`mq.rs`, `mq/check_seq.rs`) | `OffchainIngress`, `OutboundMessages`, `QueuedOutboundMessage` | accept a signed message once and in sequence, push to the handlers and the workers, queue for the next block | all Phala pallets; the transaction pool |
| Workers' message queue (`crates/phala-mq`) | send queue per sender, dispatcher, receivers | number, resend, purge; dispatch by topic, `select!` in order | message queue pallet |
| ChainBridge pallet (`bridge/mod.rs`) | `ChainNonces`, `RelayerThreshold`, `Relayers`, `RelayerCount`, `Votes`, `BridgeEvents` | the committee's administration; relayers vote; anybody has a vote evaluated; transfers out | executes proposals (bridge transfer); off-chain relayers read the events |
| Bridge transfer (`bridge_transfer/mod.rs`) | `BridgeFee`; balances of users, treasury, bridge and reserve accounts | `transfer_native`, `transfer_assets`, the executed `transfer` | bridge, assets, XCM |
| Asset registry (`assets_wrapper.rs`) | four maps between assets, ids and resource ids | register, unregister, enable and disable a bridge | bridge transfer, XCM adapter |
| XCM adapter, XTransfer (`xcm/`) | none of its own | withdraw and deposit assets, forward to a bridge or a parachain | XCM executor, bridge |
| Contract registry (`fat.rs`) | contracts, clusters | upload, instantiate | message queue |
| One-shot transfer (`ott.rs`) | black list | `distribute` | balances |

### What is hard about it

* **Everybody may call anything between two blocks.** Users, pool owners, worker
  operators, root, gatekeepers and anonymous reclaimers act on the same pools and
  miners. One rule, four maps: which worker belongs to which pool is written in
  both pallets, twice each.
* **Messages are late, lost, repeated.** A gatekeeper settles miners from the blocks it
  has seen; its message may reach a miner that has stopped, or a worker that has been
  bound to another miner since. Answers pass a transaction pool, are relayed by several
  relayers, and are computed again by workers that went back to a checkpoint.
* **Slashes and rewards are lazy.** A pool's stake shrinks at once, its price with it, but
  the users' locks follow only when each user is next touched; rewards are settled then too.
* **Rounding.** Balances go through a 64.64 fixed-point number of coins and lose up
  to a unit at each conversion; everything up to 1000 units is "dust" and dropped in
  several places.
* **Calls are not transactional** in this version of Substrate, unless marked so.
  A bridged call that fails leaves its vote, its status, and what it wrote.
* **Code that "cannot fail".** Some dozen `expect`s and assertions each claim an
  invariant over several storage items. Those claims are what most of the
  invariants here state.
* **Time.** Cool-downs, grace periods and the lifetime of proposals run while
  the things they belong to are replaced.

`PROJECT.json` lists each such hazard with its line, and the properties that cover
it or the reason none does.

### What makes each component correct

* Mining: bindings are a bijection; a mining miner is bound; a stake is there
  exactly from start to reclaim, and the cool-down lies between; the number
  of online miners is exact; each worker was told what its miner does; no heartbeat makes
  the benchmark's `expect` fail.
* Registry: one master key, the first gatekeeper's; nobody joins before it.
* Stake pools: shares add up; locks cover stakes and balances cover locks; a pool's
  stake is free or with its miners; what it expects back is what will come; queued
  withdrawals are served in order, at once when stake is free, and in the end always.
* Rewards: each user gets its part of each reward; claims are what was paid out.
* Message queue: each answer due is handled on chain once and in order, and in the end always;
  what the chain still expects is not thrown away.
* Bridge: votes are by different accounts, a decision is taken as soon as it is
  possible, is final, executes once; nonces have no gaps.
* Asset registry and transfers: the four maps agree; no asset becomes more than its home
  issued; what is away is covered by what is locked; an unregistered asset does not move.

## 2. Modules

```
BalanceMath          fixed point, truncation, dust
  Mining             the mining pallet, any caller       MiningProofs
    Sessions         with Registry, events, heartbeats   MCSessions, SessionsProofs
    StakePool        stake pools; M == INSTANCE Mining   MCStakePool (7 configurations), StakePoolProofs
  PoolRewards        rewards of the pools, accumulator   MCPoolRewards, PoolRewardsProofs
Registry             workers, gatekeepers, master key    (instantiated by Sessions)
Channel              abstract: in order, exactly once
  MessageQueue       chain, pool, workers; refines it    MCMessageQueue, MessageQueueProofs
Bridge               the ChainBridge pallet              MCBridge, BridgeProofs
AssetRegistry        four maps                           (proved about in TransfersProofs)
  Transfers          with Bridge, fees, XCM, balances    MCTransfers, TransfersProofs
SumTheorems          laws of sums over finite sets       (used by StakePoolProofs, TransfersProofs, PoolRewardsProofs, MessageQueueProofs)
```

**BalanceMath** has `UNIT` (units per coin, 10^12 in the code), `ONE` (parts of a
fixed-point 1, 2^64) and `Dust` (1000) as constants, and the conversions with the
code's truncation at every step. The ratio of `ONE` to `UNIT`, which decides whether
an amount is exact, is chosen by the configuration.

**Mining** is the pallet as its public functions drive it, each function an action,
with any caller. Storage maps are functions with `None` for an absent entry. The
state of a miner keeps the fields that later decisions read: state, V, and the time
since the cool-down started, which is longer than any period when it never did (the code's
start is 0 then). `V` is measured in parts of the session's initial V.
`on_gk_message_received` handles its lists in the code's order: offline, recovered,
settlements (`StateAfter`, `VAfter`). `EndBlock` is the stake pool's hook, as far as it
stops miners, and the next block's timestamp. `stake \in StakeAmount` stands for the check
against `minimal_stake` and the maximal V.

**Registry** has the calls of governance, of anybody who hands in an attestation, and the
two reports of workers. An attestation is taken to be genuine; what it says of program
and relay chain is compared with the allow lists. The chain starts without genesis workers and
gatekeepers, which are for tests (`genesis_build`). `announced` records what the messages
of the launch told the workers. The score divides by the seconds since the start of the benchmark.

**Sessions** composes Mining and Registry: a worker must be registered and scored to be
bound and to mine, and the gatekeepers' message needs the master key. `told` is what the
events pushed to each worker (`MiningStart`, `MiningStop`, enter and exit unresponsive) add up to.
Heartbeats store the challenge's time in seconds: `phase` is the part of a second that
the current block is past a full one, `since` the seconds since the stored time. The
benchmark's other fields decide nothing. `quiet` is history, the blocks that have ended since a
miner last mined; unlike the pallet's own cool-down time it knows nothing of calls, and the
cool-down is compared with it.

**StakePool** has its own variables beside Mining's and calls Mining's actions through
`M`. A miner account is the pair `<<pid, worker>>`, as `pool_sub_account` hashes it.
The functions on a pool and a user (`add_stake`, `remove_stake`, `maybe_settle_slash`,
`try_withdraw`, `try_process_withdraw_queue`, `handle_reclaim`) are operators on a
context record that holds what one call works on, so that each call is one action
with all it changes. An `expect` that fails makes the context not ok; the
action then changes nothing and sets `panicked`, as a call that panics is not
included in a block. `PoolWorkers` is the field `workers` of the pool record, kept apart because
the mining side changes it. `DetachWorker` is what `remove_worker` and the operator's
`unbind` share: `unbind_miner`, its stop and unbind notifications, and
`remove_worker_from_pool`. `EndBlock` is `maybe_force_withdraw`. Ages replace timestamps:
one block is one tick, and the age of a request is kept up to just past the grace
period, after which it makes no difference. The operator of a worker is fixed.

**PoolRewards** is the other money of the pools. StakePool shows that `total_shares` is the sum of
the users' shares and that a worker is assigned exactly while it is bound; here the
shares that a call gives to each user are left open (`ChangeShares`: contributions, withdrawals, and the
users served from the queue), and what is modelled is what each of these does to the
accumulator. `on_reward` is a whole message: the treasury's part of each settlement
out of the subsidy pool, then the pools' rewards up to the first worker without a pool. `due`,
`outstanding`, `lost` are history: what sharing each reward at once would have given,
what was paid out and not yet claimed or reported as dismissed, and the part of it that stood in a
message behind a worker without a pool. `RewardsAccounted` compares what the pools promise with what came in, from above:
the subsidy pool is never asked for more. `RewardsShared` is the other side: each user gets its part, and
exactly what `on_reward` returns before is lost.

**MessageQueue** has the pallet (push, queue, block change, `sync_offchain_message`), the
transaction pool (`validate` on entry, `pre_dispatch` in the block), relayers, and workers that read
the finished blocks. A block's messages get local indexes, go to the receivers of their
topics, and are taken by `select!` (`dispatch`, `Selected`, `select`, iterated by `handled_by`); a
receiver is the set of the indexes it holds, since it gives them back in their order. Each is answered through the send
queue of the gatekeepers, whose sender all of them share, or of the worker it is about.
The answers of workers are messages for the gatekeepers in turn (`Report`), those of gatekeepers go to the
pallets (`Update`). A worker may take a checkpoint and go back to it, be in dummy mode
as a gatekeeper, and purges by a number it read on chain at some time. `handled` is what
was given to the handlers: `sync_offchain_message` advances the number first, and what a handler returns is dropped. Only
messages of workers are relayed: those that the call refuses for their sender, destination or signature change
nothing. **Channel** is the promise.

**Bridge** keys proposals by source chain and by a member of `Proposal`, which stands for
the pair of nonce and call. `vote` is `acknowledge_proposal` and `reject_proposal` with
everything below them; whether an executed call works is the parameter `works`. A
record holds the blocks left to its expiry. `dispatched` and `succeeded` are history
variables. The three transfer functions differ in their payload only and are one
action.

**AssetRegistry** has the five calls of the committee over the four maps. A resource id, a hash
whose first byte is the chain, is the pair of chain and location. Unregistering does not
destroy the asset in the pallet "assets" (`created`), so that its id cannot be used again.

**Transfers** is Bridge (its `Account` being the relayers) and AssetRegistry, with balances: those
of this chain (`balance`), and what accounts of other chains hold (`held`).
Locations are parents and junctions, so that `reserve_location`, `origin` and
`is_native_asset_id` are the code's case distinctions. A user sends over the bridge
(`transfer_native`, `transfer_assets`) or over XCM (`xcm_transfer`); a sibling sends to an account here
(`xcm_deposit`) or through this chain to a bridged one (`xcm_forward`); a deposit on a bridged chain becomes a proposal, on
which relayers vote and whose execution is `transfer`. An executed transfer that fails keeps what it did
before the error. Abstracted: the least balance of an asset is 1, `BalanceConverter` has ratio 1,
an asset is registered under one id (a second one would begin with an empty table of balances), PHA is
named by one of its two locations; the XCM executor and the other chains are external. A ledger is a record of
the two tables and a result, on which `deposit`, `withdraw`, `move`, `credit` (elsewhere), `debit` (elsewhere) work, so
that a call that moves several amounts is one action.

### Abstract specifications and refinements

* `Mining` is shared: `StakePool` and `Sessions` are built from its actions, so that each of their steps is a step
  of Mining, or leaves it alone, by construction. That is no property of the code; it carries the invariant
  that is proved of Mining for any caller over to the two (lemmas `StepsAreMiningSteps` and, in
  `StakePoolProofs`, those on each kind of call).
* `Channel!Spec` is what the message queue promises the pallets. `MessageQueue` implements it with
  the answers due to the finished blocks as what was sent (`ExactlyOnceInOrder`, run `messaging`; proved in `MessageQueueProofs`).

## 3. Runs

| Run | Instance | Distinct states | Shows |
|---|---|---|---|
| `sessions` | 2 miners, 2 workers, 2 keys, V in {0, 2}, blocks 1 or 1.5 s apart, challenges 1 or 2 s old, cool-downs of 1 and 2 blocks, late settlements | 232 720 | mining, registry, what the workers are told and how long stakes are held, under any caller |
| `pool_late_settlements` | 1 pool, 2 users, 1 worker, V in {0, 1, 2}, late settlements | 171 035 | the books balance through partial and total slashes; the queue is fair |
| `pool_rounding` | the same, amounts of 200 with 7 units a coin, V in {0, 2} | 220 845 | with truncation and dust at every step, shares add up and no stake but dust is idle while a request waits |
| `two_pools` | 2 pools of one owner, 1 worker, grace period 1 | 147 486 | maps and indexes agree while the worker moves |
| `workers_and_cap` | 1 pool, 2 workers, a cap, the mining switch | 28 368 | cap, preimages, and `releasing_stake` exact when settlements are in time |
| `requests_served` | 1 pool, 2 users, fairness | 7 365 | liveness of withdrawals |
| `rewards` | 1 pool, 2 users, 2 workers, 2 messages, 7 units a coin, 2 commissions | 233 346 | rewards are shared and accounted, with rounding, dust and an almost empty subsidy pool |
| `messaging` | 2 workers, 4 topics, 2 messages, 2 blocks, 1 fault, fairness | 112 616 | refinement of Channel, purge, liveness |
| `bridge` | 4 accounts, thresholds 1..3, lifetime 2, 3 nonces | 48 045 | votes, decisions, executions, nonces |
| `transfers` | 3 assets, 2 bridged chains, 1 sibling, 1 user, 2 relayers | 201 916 | no inflation, covered claims, agreeing maps, frozen assets |
| `stale_request_panics` | 1 pool, 2 users | violated | finding 1 |
| `stuck_after_late_settlement` | 1 pool, late settlements, fairness | violated | finding 2 |

What the properties say is in the comment above each of them.

**Bounds.** *Pools.* Two users are enough for an order in the queue, two miners for a worker
that is rebound, two pools for one that moves; a third of each adds no new kind of
conflict between two storage items. Most amounts are 20 units with 10 units a coin and
`ONE` = 1024, so that whole coins are represented exactly and a slash is visible as a
slash; `Dust` is 2. `pool_rounding` takes 200 units of 7 a coin with `ONE` = 4096, which no
conversion represents exactly: each reclaim loses a unit although V is untouched.
`VE` = 2 gives the settlements "nothing lost", "half lost" and "all lost".
`Funds` lets a user contribute once and, in `pool_late_settlements`, a fifth of it
remains, so that a user who lost half can still be slashed; in `workers_and_cap`
it is enough for both workers' stakes.
`GracePeriod` is 0 or 1 block: the age of a request then passes through "in its block",
"in grace" and "expired". `PriceFloor` (run `pool_late_settlements`, as a state constraint)
ends the behaviours in which slash after slash halves the price; three levels of price
are reached. `Drift` (run `pool_rounding`) follows a pool until rounding has
cost 5 units, and leaves the slashes to the other runs.
*Sessions.* A second is two ticks, so that blocks fall on full and on half seconds. `MaxSince` = 1
saturates a time that is only ever compared with 0. The period may be raised and lowered between
1 and 2 blocks during a cool-down. One iteration in one or two seconds gives a score at `MinInitP` and one below.
*Rewards.* Two messages let a user's shares change before, between and after; the payouts of 41000/4096
coins and the shares of 70 and 105 are inexact in every division; one commission is
large enough that the rest is dust; `Funds` suffice for some claims and not for all.
*Messaging.* Two pushed messages on different topics and their answers fill two blocks; one fault is a restart
or a lost transaction; repeated relaying is unbounded.
*Transfers.* Each initial state has one of the three assets in amounts that allow two moves and a fee, since
the assets share nothing but the fee in PHA; one chain is whitelisted and one is not; two relayers
with a threshold of two, which may fall to one, let a proposal be decided by a vote or by an evaluation,
or expire. `MaxNonce` and `MaxDeposit` are 1: one transfer out and one in for each chain.
*Bridge.* `MaxNonce` stops the nonces at 3. `Thresholds` reach from one vote to more votes than there may be relayers.

**GkInSync.** TRUE keeps settlements from reaching a miner that is not mining; it is
what the comments in the code assume ("assume there's no more slash after calling
`stop_mining`", mining.rs:802). FALSE is the code: nothing checks it outside debug
builds. Each property is checked under the weakest of the two under which it holds:
balances, queue order and everything in Mining and Sessions under FALSE, `ReleasingExact` and
`RequestsServed` under TRUE. Finding 2 is the difference.

**Symmetry** of workers, miners, keys and relayers is used in `sessions`, `rewards` and `transfers`, which check
no liveness; no definition chooses among them by more than what permutations preserve.

**Fairness.** *Pools:* `FairSpec` assumes that blocks keep ending (`WF_vars(EndBlock)`: the chain
produces blocks) and that no worker stays reclaimable for ever: `reclaim_pool_worker` may be
called by any account for any worker, costs nothing that a waiting user would not pay,
and is the user's own way to the stake. It is written `[]<>~can_reclaim`, which is
what weak fairness of the reclaim comes to, since only a reclaim or a longer
period set by root ends `can_reclaim`. Nothing else is fair: nobody has to contribute, to stop
a worker or to send a message. The liveness property is stated for whole amounts; with
inexact ones a request of just more than dust may wait for a unit that rounding took.
*Messaging:* some worker that is behind reads on, some relayer sends what `get_mq_seq` asks for (the relayer's
loop), block authors include a transaction that is ready (so that transactions with the same tag from others, with a
wrong signature, do not keep it out for ever), and the first gatekeeper's key reaches the chain. Each is weak, for the
whole system and not for one worker or message; faults are bounded, so that they stop.

**Deadlock** is checked in every run.

### Findings

1. **A stale queued request runs into an `expect`** (stakepool.rs:877, run
   `stale_request_panics`). Withdrawing all shares of a pool that lost all its stake queues
   nothing and leaves the user's older request in the queue; processing the queue later
   asks for shares the user no longer has.
2. **A late settlement leaves a residue in `releasing_stake`** (mining.rs:597, run
   `stuck_after_late_settlement`), against the guarantee of `OnStopped`; an expired request may
   then never force a stop.

Two observations without a run of their own: the debug assertion in `has_expired_withdrawal` (stakepool.rs:1384) does not hold
for a pool that is still listed although its requests were served; and
PHA that the XCM adapter locks in a chain's reserve account does not back what the executed
transfer pays from the bridge account (`ClaimsCovered` takes the two together).

## 4. Proofs

The proof modules prove invariance by the usual three facts: the
initial states satisfy an inductive invariant, every step keeps it, it implies the
property. There is one lemma for each action, and lemmas on the cardinality of sets of
miners and relayers.

* **Mining.** `MiningInv` is `TypeOK`, `BindingInv`, `StakeIffInSession` and `OnlineMinersExact`. None of the parts is
  inductive alone: that `OnlineMiners` does not fall below zero (`TypeOK`) needs
  that it is exact, `StakeIffInSession` at a rebind needs that a bound miner has a record.
  Theorems: `TypeCorrect`, `BindingsCorrect`, `StakesCorrect`, `OnlineMinersCorrect`. Assumptions: `MiningAssumption` (the set of miners is
  finite; the values of V contain 0 and the initial one; cool-downs have a maximum) and
  `BalanceMathAssumption`.
* **Sessions.** Each step is a step of Mining or leaves it alone (lemma `StepsAreMiningSteps`), so that `MiningInv` carries over.
  `StakeHeld` and `CoolDownIsMeasured` compare `reclaim` with `quiet`, the time since the miner last mined. The invariant
  is `CoolDownInv`: as long as a stake is held the miner's own cool-down time, however often it was stopped, unbound
  and rebound, is that time, up to the longest period, after which both stay; with `StakeIffInSession` a stake's miner
  is mining or cooling down, so that `can_reclaim` decides by this time alone.
  `HeartbeatsAreTimely` is from the clock's arithmetic alone: an age of at least a second puts the second
  of the challenge before now's. `WorkersAreTold` and `MasterKeyIsOne` are from `SessionsInv`: `MiningInv` (that a worker's two bindings agree decides
  who hears of a stop), the types of the registry, and the two properties. Assumption: `SessionsAssumption` (blocks and
  what is reported are at least a second apart).
* **StakePool.** Each action is one action of Mining or leaves its variables alone, by cases over the calls
  (`UserCallSteps`, `PoolCallSteps`, `ChainEventSteps`), so that `MiningInv` is carried over from `MiningProofs`.
  `StakePoolInv` is the invariant of everything else, `PoolInv`, a conjunction of
  - `MiningInv`, and `BindInv`: `WorkersAgree` and `PreimagesMatchStakes`, the types of the six maps, and
    `OwnWorker` (a sub-account is only bound to the worker it is derived from). Without `OwnWorker`, the
    operator's `unbind`, which names the miner, could release another worker than the
    one it takes off the pool's list;
  - `StakeInv`: the types; for each pool that its shares add up, its stake is covered, its queue has
    no two requests of a user, no dust, and it is below its cap (`PoolsGood`, `SharesOK`); that the
    ledger of each user covers its locks in all pools (`LedgerCovers`); that each request in
    grace is in the index (`QueueIndexed`);
  - `WorkedPools`: a pool with workers exists, so that who stops or reclaims one of them finds it; and two flags are Boolean.

  A call works on a context record of one pool and user. It is `Sound` to begin with; each operation
  (adding and removing stake, settling a slash, a queued request, the loop that serves the queue) keeps
  it `Sound`, by a lemma (the first part of the module); and committing a sound context keeps `StakeInv`, since what it
  changes in the ledger is what it changes in that pool's locks. The parts are needed together: that the
  loop takes out shares that are there needs `SharesConserved`, that what it pays is free needs
  `StakeBacked`, and that the shares of a request are the user's is what the pallet does *not* guarantee,
  so that the lemmas follow the code into the `expect`, after which nothing changes. The properties
  `TypeOK`, `SharesConserved`, `StakeBacked`, `OneRequestPerUser`, `LedgerCovers`, `RequestsIndexed`, `CapRespected` are proved of
  it. `StakePoolReleasing` (`ReleasingExact`) has an invariant of its own, which says whose sessions are in cool-down
  and how much each pool expects, and holds, as the run `workers_and_cap` has it, when settlements never reach a cooling miner
  (`GkInSync`; the finding `stuck_after_late_settlement` is what happens otherwise). `StakePoolInOrder` is an implication:
  `Spec` and `[]NoIdleStake` give `FirstComeFirstServed`. An iteration of the loop serves the front alone and leaves the others in their
  order (`FrontServed`), so that a request behind another is not touched before that one is gone (`LoopInTurn`; a user has
  one request, by `PoolInv`). What remains is a withdrawal that is paid at once, past the queue: in a pool
  without idle stake it buys dust (`WithdrawPays`). `NoIdleStake` is a premise because it is only model-checked.
  Assumptions: `StakePoolAssumption` (pools are numbered from 0, users, pools and workers finitely many, a contribution is more
  than dust), `NoneIsNoPool` (an absent entry is no pool), `MinersAssumption` (what Mining assumes of its constants) and
  `BalanceMathAssumption`.
* **Bridge.** `BridgeInv` is `TypeOK`, the relayers being finite and counted,
  `VotesDistinct` and `ExecutedOnce`. Theorems: `BridgeTypeCorrect`, `RelayersAreCounted`,
  `VotersAreDistinct`, `ProposalsExecuteOnce`, and the action properties `DecisionsAreFinal` and
  `NoDecisionIsMissed`. The last needs the invariant only for its types: that every vote is
  resolved at once, and that no other step changes the votes of an open proposal. `NoncesAreConsecutive` (no gap and no repetition
  in the events of a block) is inductive with `TypeOK`. Assumption: `BridgeAssumption`.
* **AssetRegistry** (in `TransfersProofs`). The invariant is `RegistryInv`: `RegistryTypeOK` and `RegistryConsistent`, which is inductive with it: unregistering
  removes exactly the resource ids of the enabled bridges because these are all there are.
  Theorems: `RegistryInvariant`, `RegistryStaysConsistent`. Assumption: `RegistryAssumption` (an absent entry is no asset, id or record).
* **Transfers.** `LedgerInvariant` is the invariant `LedgerInv`; `LedgerTypes`, `NothingInflated`, `ReservesCover`,
  `TransfersKeepRegistry` and the action property `FrozenOnceUnregistered` follow from it. Its parts:
  - the registry's invariant (a registered asset has the decimals that its fee is computed from), and `TypeOK`, which says that no
    account is in debt;
  - `ExecutedOnceDeposited`: a proposal that is open or unknown was not executed, one that was executed was deposited, and the
    nonces of a chain's deposits are below the next one, so that a deposit is new;
  - `NothingMinted`: the *worth* of an asset plus what is on its way from home is at most the supply. The worth counts
    what is here and what is held wherever the asset is burnt here to arrive: at its reserve
    location, as the bridge sees it, and at the sibling if that is its origin, as the XCM adapter sees it. The two differ for an
    asset of a bridged chain that is named through the sibling, and then `NoInflation`, which
    counts the reserve location only, is not inductive;
  - `ClaimsLocked`: what is locked in the account of a place beyond what is held there (`Locked`) covers what is on its way
    back. For PHA this holds of all bridged chains together only, since what goes out through `transfer_native`
    is locked in the bridge account and what goes out through the XCM adapter in the chain's reserve account.

  Each operation on a ledger has a lemma that says how it changes worth and locks (`Paid`, `Credited`). Sequences of
  operations are composed by `Gains` (worth rises by at most n, nothing that is locked is released) and `Pays` (an executed
  proposal takes at most its amount, out of what is locked or off what is on its way), also where an
  execution stops half way. Assumptions: `AmountsAssumption` (amounts, fees and prices are natural numbers; the native price
  is not 0), `PlacesAssumption` (the pallets' accounts are different from users and from each other where money is locked; this chain is not its own sibling; PHA has
  one location among the assets), `ProposalsAssumption` and `RegistryAssumption` (an absent entry is no record).

* **PoolRewards.** `DebtsEarnedHolds`: the unsigned subtraction in `Accumulator::pending` never wraps around, for any resolution of
  the fixed point, any amounts and any commission. `RewardsInv` is `DebtsEarned` with the types of the pools, the stakers and the
  assignments, and is inductive because every step falls under one lemma (`StillEarned`): no step makes an accumulator smaller,
  and one that changes a staker's shares or debt leaves the debt exactly at what the new shares have earned. The order in
  `settle_user_pending_reward`, shares first and then the debt, is what the lemma needs. That a message of any length makes
  no accumulator smaller is an induction over the settlements served (`ServedGrows`); that products and quotients of
  the fixed point are monotone is `Earned`.
  `RewardsAccountedHolds`: all claims together are never above what the gatekeepers paid out and was neither claimed nor
  reported as dismissed, up to `RoundedUp` for each settlement: one unit for each user, and what as many units are in parts of
  `ONE`, which is nothing while there are fewer than `ONE / UNIT` users (18 million in the code). It does not depend on
  the amounts. The heart is `SharedOut`: when the accumulator grows by `FixedRatio(d, total)`, what all users earn grows by
  at most d and that rounding. Each user's gain is bounded by two quotients (`Earns`, `EarnedStep`), such bounds add up
  (`SumScaled`), the shares in fixed point add up to no more than the total in fixed point, and the
  accumulator's step times the total gives back no more than d. Over a message it is an induction over the settlements that
  are served (`ServedBacked`); a settlement moves a reward from pending to available (`ChangeSharesAccounted`); and a claim takes
  the same from both sides (`ClaimAccounted`). That the shares' total is the sum over the users is
  `SharesConserved` of `StakePool`. Assumptions: `PoolRewardsAssumption` (commissions are at most
  the whole, finitely many pools, users and workers) and `BalanceMathAssumption`.

* **MessageQueue.** `ImplementsTheChannel`: `Init` implies `Channel!Init`; a block's end is a `Send`, which adds the answers to
  the finished block to what is due; an accepted transaction is a `Handle` of its sender; everything
  else (relays, losses, other blocks, purges, dummy mode, checkpoints, restarts) leaves both alone. That an accepted
  transaction carries the *next* answer is from `QueueInv`, and so is `KeepsWhatIsExpected`. Its parts:
  - a worker that has handled n blocks has given the answers to these blocks the numbers from 0 on, in the order of the
    messages (`EntryGood`), in its own channel and in the one its checkpoint would bring back (`WorkerGood`), and still has
    those from the chain's next expected number on, unless it was a dummy. All gatekeepers number the same answers alike,
    and so do a worker and itself before a restart: this is why whoever relays makes no difference;
  - a message in the pool is the answer that its number says (`Genuine`), also after more blocks (`DueLater`: what was due is the
    beginning of what is due);
  - the chain has handled a beginning of what is due, as long as `OffchainIngress` says.

  `BlockHandled` is the lemma about the workers' loop: whichever receivers the messages of a block went to, `select!`
  takes them in their order, since each iteration takes the least index that is left (`SelectKeeps`), and messages
  without a receiver are answered by nobody (`SkipKeeps`). The loop, the answers to a block and those to the blocks are iterations of
  a function (`IterationExists`, `BoundedInduction`). Assumption: `MessageQueueAssumption` (the gatekeepers' sender
  is no worker; what is shared is subscribed to, and no subscription is to an on-chain topic; the answers' topics
  are what they are in the code).

Sums over users, pools, accounts and chains are handled by **SumTheorems**: `SumFunctionOnSet` is unfolded to its recursive
equation, the existence and uniqueness of whose solution are proved, and the laws (`SumAdd`, `SumChange`, `SumUnion`, `SumPlus`, ...) follow by
induction. The library's induction theorems take an operator, which the provers
cannot instantiate; `LeastNatural`, `SetInduction` and `SubsetInduction` say the same of a *set* of values, from
the well-foundedness of the natural numbers (`NatLessThanWellFounded`, `WFMin`), and so need none. The recursive functions
of the queue loop, the powers of ten of the decimals and the settlements served by a message are treated the same way.

Only model-checked: of `StakePool`, that free stake and requests never wait for each other
(`NoIdleStake`), and `NoPanic`, which is violated; that rewards are shared exactly and completely (`RewardsShared`: from below, what
rounding loses grows with a pool's total and with the reward per share, so the bound of one unit per settlement that it states holds
only while the amounts are small against the resolution of the fixed point, and is no
theorem for all constants); and liveness (`RequestsServed` and the message queue's progress), which is out of the prover's
reach together with `ENABLED`.

## 5. Not modelled

* **Tokenomic updates, halving, `p_instant`, the draw of challenges** in mining: numbers that are published
  or computed by the gatekeepers; no state of the chain's other parts depends on them. The
  `force_*` calls of root skip the checks, are offered for tests, and the properties are not meant to survive them.
* **The operator of a worker** as state: it decides who may call `unbind` and `add_worker`. Sessions lets anybody
  unbind; StakePool keeps it fixed.
* **`fat.rs` and `ott.rs`:** single calls that add entries; nothing interleaves with them.
  (`instantiate_contract` moves `ClusterCounter` before an error; see the hazards.)
* **Migrations:** they repair data of programs that are not in the repository.
* **Attestation and encodings:** pure functions over bytes.
* **The worker program, relayers, the XCM executor, contracts of other chains, Currency, pallet assets, Permill:**
  external, modelled from how the code uses them.
* **Runtimes, node, collator, RPC code, trie storage:** configuration and start-up of Substrate; their
  parameters are the constants here. **`polkadot/`, `substrate/`, `vendor/`, `polkadot-launch/`:** third-party code.
  These are most of the repository's lines.

## 6. Plan

What is left: `NoIdleStake` of `StakePool`, which would make `StakePoolInOrder` unconditional. It needs that an iteration which
does not serve its request completely pays out the free stake up to dust. The payout is the least of the shares' worth at the
current price, the free stake and the user's lock, while the loop divides by the price it started with; so it needs a
bound on how far rounding lets locks and prices drift from what the shares were bought for, in terms of the resolution, the
dust and the amounts in the pool (the run `pool_rounding` bounds it for one instance). `RewardsShared` needs
the same of the accumulator; that the rounding never gives too much is proved (`RewardsAccounted`).
