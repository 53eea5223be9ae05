------------------------------- MODULE Mining -------------------------------
(***************************************************************************)
(* The mining pallet: the life cycle of a miner account and its binding to *)
(* a worker, as the pallet's public functions drive it.  Whoever calls     *)
(* them is left open here; module StakePool is the caller of the runtime,  *)
(* and each of its steps is a step of this specification.                  *)
(*                                                                         *)
(* Storage maps are total functions whose absent entries are None (or the  *)
(* miner state "None").  Time is kept relative: "cooled" is now minus      *)
(* cool_down_start, saturated at the longest cool-down that may be set, so *)
(* that behaviours may run forever (a start of 0, the epoch, is that long  *)
(* ago).  V is measured in parts of the initial V of the session: v = VE   *)
(* is a miner that never lost anything, v = 0 one that lost its whole      *)
(* stake.                                                                  *)
(***************************************************************************)
EXTENDS BalanceMath, FiniteSets

CONSTANTS Miner,       \* miner accounts
          Worker,      \* registered and benchmarked workers
          None,        \* an absent storage entry
          VE,          \* the initial V of a session
          V,           \* the values of V a gatekeeper may settle
          StakeAmount, \* stakes between minimal_stake(p) and what v_max allows
          CoolDowns,   \* the cool-down periods root may set
          GkInSync     \* TRUE: no settlement of a stopped miner is in flight

ASSUME MiningAssumption ==
    /\ VE \in Nat \ {0}
    /\ V \subseteq Nat
    /\ {0, VE} \subseteq V
    /\ StakeAmount \subseteq Nat
    /\ CoolDowns \subseteq Nat
    /\ CoolDowns # {}
    /\ \E p \in CoolDowns : \A q \in CoolDowns : q <= p
    /\ None \notin Worker
    /\ None \notin Miner
    /\ None \notin StakeAmount
    /\ GkInSync \in BOOLEAN
    /\ IsFiniteSet(Miner)

VARIABLES Miners,         \* MinerInfo of each miner account
          MinerBindings,  \* the worker a miner is bound to
          WorkerBindings, \* the miner a worker is bound to
          Stakes,         \* stake of the mining and cooling miners
          OnlineMiners,   \* number of mining miners
          CoolDownPeriod

vars == <<Miners, MinerBindings, WorkerBindings, Stakes, OnlineMiners, CoolDownPeriod>>

MinerState == {"None", "Ready", "MiningIdle", "MiningUnresponsive", "MiningCoolingDown"}

MaxCoolDown == CHOOSE p \in CoolDowns : \A q \in CoolDowns : q <= p

MinerInfo == [state : MinerState, v : V, cooled : 0..MaxCoolDown]

is_mining(m) == Miners[m].state \in {"MiningIdle", "MiningUnresponsive"}

can_settle(m) == is_mining(m)

can_reclaim(m) ==
    /\ Miners[m].state = "MiningCoolingDown"
    /\ Miners[m].cooled >= CoolDownPeriod

\* calc_final_stake: the part of the stake that comes back, and the part that is slashed.
Returned(m) == bmul(Stakes[m], Lesser((Miners[m].v * ONE) \div VE, ONE))
Slashed(m)  == Stakes[m] - Returned(m)

\* Mutant of Stopped: cool_down_start is not set, and is still the epoch.
Stopped_NoStart(info) == [state |-> "MiningCoolingDown", v |-> info.v, cooled |-> info.cooled]

\* A miner's record after stop_mining.
Stopped(info) == [state |-> "MiningCoolingDown", v |-> info.v, cooled |-> 0]

-----------------------------------------------------------------------------
Init ==
    /\ Miners = [m \in Miner |-> [state |-> "None", v |-> 0, cooled |-> MaxCoolDown]]
    /\ MinerBindings = [m \in Miner |-> None]
    /\ WorkerBindings = [w \in Worker |-> None]
    /\ Stakes = [m \in Miner |-> None]
    /\ OnlineMiners = 0
    /\ CoolDownPeriod = MaxCoolDown

\* Mutant of bind: the worker may be bound to another miner.
bind_BoundWorker(m, w) ==
    /\ MinerBindings[m] = None
    /\ Miners[m].state \in {"None", "Ready"}
    /\ MinerBindings' = [MinerBindings EXCEPT ![m] = w]
    /\ WorkerBindings' = [WorkerBindings EXCEPT ![w] = m]
    /\ Miners' = [Miners EXCEPT ![m] = [state |-> "Ready", v |-> 0, cooled |-> MaxCoolDown]]
    /\ UNCHANGED <<Stakes, OnlineMiners, CoolDownPeriod>>

\* A miner is bound to a worker and its record is reset.
bind(m, w) ==
    /\ MinerBindings[m] = None
    /\ WorkerBindings[w] = None
    /\ Miners[m].state \in {"None", "Ready"}
    /\ MinerBindings' = [MinerBindings EXCEPT ![m] = w]
    /\ WorkerBindings' = [WorkerBindings EXCEPT ![w] = m]
    /\ Miners' = [Miners EXCEPT ![m] = [state |-> "Ready", v |-> 0, cooled |-> MaxCoolDown]]
    /\ UNCHANGED <<Stakes, OnlineMiners, CoolDownPeriod>>

\* Mutant of unbind_miner: a cooling miner is stopped once more, and cools from now on.
unbind_miner_Again(m) ==
    /\ MinerBindings[m] # None
    /\ \/ /\ Miners[m].state # "Ready"
          /\ Miners' = [Miners EXCEPT ![m] = Stopped(@)]
       \/ /\ Miners[m].state = "Ready"
          /\ UNCHANGED Miners
    /\ OnlineMiners' = OnlineMiners - (IF is_mining(m) THEN 1 ELSE 0)
    /\ MinerBindings' = [MinerBindings EXCEPT ![m] = None]
    /\ WorkerBindings' = [WorkerBindings EXCEPT ![MinerBindings[m]] = None]
    /\ UNCHANGED <<Stakes, CoolDownPeriod>>

\* A mining miner is force-stopped before it is unbound.
unbind_miner(m) ==
    /\ MinerBindings[m] # None
    /\ \/ /\ is_mining(m)
          /\ Miners' = [Miners EXCEPT ![m] = Stopped(@)]
          /\ OnlineMiners' = OnlineMiners - 1
       \/ /\ ~is_mining(m)
          /\ UNCHANGED <<Miners, OnlineMiners>>
    /\ MinerBindings' = [MinerBindings EXCEPT ![m] = None]
    /\ WorkerBindings' = [WorkerBindings EXCEPT ![MinerBindings[m]] = None]
    /\ UNCHANGED <<Stakes, CoolDownPeriod>>

start_mining(m, stake) ==
    /\ MinerBindings[m] # None
    /\ Miners[m].state = "Ready"
    /\ Stakes[m] = None
    /\ stake \in StakeAmount
    /\ Stakes' = [Stakes EXCEPT ![m] = stake]
    /\ Miners' = [Miners EXCEPT ![m] = [state |-> "MiningIdle", v |-> VE, cooled |-> @.cooled]]
    /\ OnlineMiners' = OnlineMiners + 1
    /\ UNCHANGED <<MinerBindings, WorkerBindings, CoolDownPeriod>>

\* Mutant of stop_mining: a cooling miner may be stopped again.
stop_mining_Twice(m) ==
    /\ MinerBindings[m] # None
    /\ Miners[m].state # "Ready"
    /\ Miners' = [Miners EXCEPT ![m] = Stopped(@)]
    /\ OnlineMiners' = OnlineMiners - 1
    /\ UNCHANGED <<MinerBindings, WorkerBindings, Stakes, CoolDownPeriod>>

\* stop_mining of one miner.
stop_mining(m) ==
    /\ MinerBindings[m] # None
    /\ is_mining(m)
    /\ Miners' = [Miners EXCEPT ![m] = Stopped(@)]
    /\ OnlineMiners' = OnlineMiners - 1
    /\ UNCHANGED <<MinerBindings, WorkerBindings, Stakes, CoolDownPeriod>>

\* Mutant of reclaim: the stake's entry stays.
reclaim_KeepsStake(m) ==
    /\ can_reclaim(m)
    /\ Miners' = [Miners EXCEPT ![m] = [state |-> "Ready", v |-> @.v, cooled |-> MaxCoolDown]]
    /\ UNCHANGED <<Stakes, MinerBindings, WorkerBindings, OnlineMiners, CoolDownPeriod>>

\* The stake is given back (the caller learns Stakes[m] and Slashed(m)).
reclaim(m) ==
    /\ can_reclaim(m)
    /\ Miners' = [Miners EXCEPT ![m] = [state |-> "Ready", v |-> @.v, cooled |-> MaxCoolDown]]
    /\ Stakes' = [Stakes EXCEPT ![m] = None]
    /\ UNCHANGED <<MinerBindings, WorkerBindings, OnlineMiners, CoolDownPeriod>>

\* Some worker of ws is bound to miner m.
Hits(ws, m) == \E w \in ws : WorkerBindings[w] = m

\* The state of miner m once the offline list, then the recovered list, were handled: both
\* skip a miner that is not mining.
StateAfter(m, offline, recovered) ==
    IF ~is_mining(m) THEN Miners[m].state
    ELSE IF Hits(recovered, m) THEN "MiningIdle"
    ELSE IF Hits(offline, m) THEN "MiningUnresponsive"
    ELSE Miners[m].state

\* V of miner m once the settlements were handled.
VAfter(m, settle) ==
    IF Hits(DOMAIN settle, m)
    THEN settle[CHOOSE w \in DOMAIN settle : WorkerBindings[w] = m]
    ELSE Miners[m].v

\* A gatekeeper's message: the workers gone offline, those that recovered, and the new V of
\* the settled workers.  A settlement changes V whatever the state of the bound miner is;
\* only a build with debug assertions looks at can_settle.
on_gk_message_received(offline, recovered, settle) ==
    /\ GkInSync => \A m \in Miner : Hits(DOMAIN settle, m) => can_settle(m)
    /\ Miners' = [m \in Miner |-> [state |-> StateAfter(m, offline, recovered),
                                   v |-> VAfter(m, settle),
                                   cooled |-> Miners[m].cooled]]
    /\ UNCHANGED <<MinerBindings, WorkerBindings, Stakes, OnlineMiners, CoolDownPeriod>>

set_cool_down_expiration(period) ==
    /\ CoolDownPeriod' = period
    /\ UNCHANGED <<Miners, MinerBindings, WorkerBindings, Stakes, OnlineMiners>>

\* The clock moves away from cool_down_start.
Aged(info) ==
    IF info.cooled < MaxCoolDown
    THEN [state |-> info.state, v |-> info.v, cooled |-> info.cooled + 1] ELSE info

\* A block ends: the miners in "stopping" are stopped by the stake pool's hook, those that
\* are not mining being passed over, and the next block's timestamp is later.
EndBlock(stopping) ==
    LET stopped == {m \in stopping : MinerBindings[m] # None /\ is_mining(m)}
    IN  /\ Miners' = [m \in Miner |->
                        Aged(IF m \in stopped THEN Stopped(Miners[m]) ELSE Miners[m])]
        /\ OnlineMiners' = OnlineMiners - Cardinality(stopped)
        /\ UNCHANGED <<MinerBindings, WorkerBindings, Stakes, CoolDownPeriod>>

Next ==
    \/ \E m \in Miner :
          \/ \E w \in Worker : bind(m, w)
          \/ unbind_miner(m)
          \/ \E stake \in StakeAmount : start_mining(m, stake)
          \/ stop_mining(m)
          \/ reclaim(m)
    \/ \E offline, recovered, settled \in SUBSET Worker : \E settle \in [settled -> V] :
          on_gk_message_received(offline, recovered, settle)
    \/ \E period \in CoolDowns : set_cool_down_expiration(period)
    \/ \E stopping \in SUBSET Miner : EndBlock(stopping)

Spec == Init /\ [][Next]_vars

-----------------------------------------------------------------------------
(* Properties *)

\* Every storage item has the shape the pallet declares for it.
TypeOK ==
    /\ Miners \in [Miner -> MinerInfo]
    /\ MinerBindings \in [Miner -> Worker \cup {None}]
    /\ WorkerBindings \in [Worker -> Miner \cup {None}]
    /\ Stakes \in [Miner -> StakeAmount \cup {None}]
    /\ OnlineMiners \in Nat
    /\ CoolDownPeriod \in CoolDowns

\* The two binding maps are inverse to each other.
BindingsInverse ==
    /\ \A m \in Miner : MinerBindings[m] # None => WorkerBindings[MinerBindings[m]] = m
    /\ \A w \in Worker : WorkerBindings[w] # None => MinerBindings[WorkerBindings[w]] = w

\* A miner that mines is bound, and a bound miner has a record.
MiningMinerIsBound ==
    \A m \in Miner : /\ is_mining(m) => MinerBindings[m] # None
                     /\ MinerBindings[m] # None => Miners[m].state # "None"

\* The gatekeeper's messages and the heartbeats find a miner through one map, stop_mining and
\* unbind_miner through the other, and unwrap its record: bind and unbind_miner keep the maps
\* inverse, and no miner goes on mining unbound, where nothing could stop it.
BindingInv == BindingsInverse /\ MiningMinerIsBound

\* The comment on Stakes: "Only presents for mining and cooling down miners."  Whatever the
\* order of starts, stops, unbinds, rebinds and reclaims, no stake outlives its session and
\* none is lost, so that start_mining never finds a leftover stake of a Ready miner.
StakeIffInSession ==
    \A m \in Miner :
        Stakes[m] # None <=> is_mining(m) \/ Miners[m].state = "MiningCoolingDown"

MiningMiners == {m \in Miner : is_mining(m)}

\* OnlineMiners, the divisor of the heartbeat's PoW target, counts the mining miners; so the
\* decrement in stop_mining ("v cannot be 0") never wraps.
OnlineMinersExact == OnlineMiners = Cardinality(MiningMiners)
=============================================================================
