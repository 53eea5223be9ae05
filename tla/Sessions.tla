------------------------------ MODULE Sessions ------------------------------
(***************************************************************************)
(* Mining sessions as the workers see them: the mining pallet composed     *)
(* with the registry, whose scores it asks for and whose master key signs  *)
(* the gatekeepers' messages, with the events that the pallet pushes to    *)
(* the workers, and with their heartbeats.                                 *)
(*                                                                         *)
(* Every step of the mining pallet is a step of Mining, so that what is    *)
(* proved there holds here.  Time is relative: "phase" is the part of a    *)
(* second that the current block is past a full one, and since[m] the      *)
(* seconds from challenge_time_last to now, saturated at MaxSince; a       *)
(* challenge is known by its age in ticks.  "told" and "quiet" are         *)
(* histories: no action reads them.                                        *)
(***************************************************************************)
EXTENDS Mining

CONSTANTS Key, PRuntime, Genesis, Iterations, Second, MAX_SCORE,
          MinInitP,  \* the least score to mine with
          BlockGap,  \* ticks from one block to the next
          Age,       \* ages of the challenge or benchmark a worker answers, in ticks
          MaxSince   \* bound: longer ago makes no difference

VARIABLES Workers, Gatekeeper, GatekeeperMasterPubkey, PRuntimeAllowList, GenesisAllowList,
          announced,
          told,  \* the session state that the events pushed to each worker add up to
          quiet, \* blocks since each miner was last mining, saturated at MaxCoolDown
          since, phase

Registry == INSTANCE Registry

registryVars == <<Workers, Gatekeeper, GatekeeperMasterPubkey, PRuntimeAllowList,
                  GenesisAllowList, announced>>

allVars == <<vars, registryVars, told, quiet, since, phase>>

\* The blocks are more than a second apart (MinimumPeriod), and a worker answers what it saw
\* in an earlier block.
ASSUME SessionsAssumption ==
    /\ Second \in Nat \ {0}
    /\ Iterations \subseteq Nat
    /\ MAX_SCORE \in Nat
    /\ MinInitP \in Nat
    /\ None \notin 0..MAX_SCORE
    /\ None \notin Registry!WorkerInfo
    /\ None \notin Key
    /\ BlockGap \subseteq Nat
    /\ Age \subseteq Nat
    /\ \A t \in BlockGap \cup Age : t >= Second
    /\ MaxSince \in Nat \ {0}

Saturated(seconds) == Lesser(seconds, MaxSince)

\* now_sec() minus the second that lies "age" ticks back.
SecondsSince(age) == -((phase - age) \div Second)

SessionsInit ==
    /\ Init
    /\ Registry!Init
    /\ told = [w \in Worker |-> "idle"]
    /\ quiet = [m \in Miner |-> MaxCoolDown]
    /\ since = [m \in Miner |-> MaxSince]
    /\ phase = 0

-----------------------------------------------------------------------------
\* How long the miners are not mining after a step that takes so many blocks: told from their
\* states alone, whatever the pallet's own cool_down_start says.
QuietFor(blocks) ==
    quiet' = [m \in Miner |-> IF is_mining(m)' THEN 0 ELSE Lesser(quiet[m] + blocks, MaxCoolDown)]

\* challenge_time_last starts at the epoch.
Bind(m, w) ==
    /\ Workers[w] # None
    /\ Workers[w].initial_score # None
    /\ bind(m, w)
    /\ QuietFor(0)
    /\ since' = [since EXCEPT ![m] = MaxSince]
    /\ UNCHANGED <<registryVars, told, phase>>

\* The workers that hear of the stop of the miners ms.
ToldStop(ms) ==
    told' = [w \in Worker |-> IF WorkerBindings[w] \in ms THEN "idle" ELSE told[w]]

Unbind(m) ==
    /\ unbind_miner(m)
    /\ QuietFor(0)
    /\ ToldStop({n \in {m} : is_mining(n)})
    /\ UNCHANGED <<registryVars, since, phase>>

\* start_mining's checks of the worker, and its MiningStart.
Start(m, stake) ==
    /\ start_mining(m, stake)
    /\ QuietFor(0)
    /\ Workers[MinerBindings[m]].initial_score # None
    /\ Workers[MinerBindings[m]].initial_score >= MinInitP
    /\ told' = [told EXCEPT ![MinerBindings[m]] = "MiningIdle"]
    /\ UNCHANGED <<registryVars, since, phase>>

Stop(m) ==
    /\ stop_mining(m)
    /\ QuietFor(0)
    /\ ToldStop({m})
    /\ UNCHANGED <<registryVars, since, phase>>

Reclaim(m) ==
    /\ reclaim(m)
    /\ QuietFor(0)
    /\ UNCHANGED <<registryVars, told, since, phase>>

\* Mutant of MiningWorker: a bound worker is told, whatever its miner does.
MiningWorker_Bound(w) == WorkerBindings[w] # None

\* The worker's miner is mining; the others are skipped.
MiningWorker(w) == WorkerBindings[w] # None /\ is_mining(WorkerBindings[w])

\* The workers that went offline hear of it first, then those that came back.
ToldAfter(w, offline, recovered) ==
    IF ~MiningWorker(w) THEN told[w]
    ELSE IF w \in recovered THEN "MiningIdle"
    ELSE IF w \in offline THEN "MiningUnresponsive"
    ELSE told[w]

\* The gatekeepers' message is signed with the master key.
GkMessage(offline, recovered, settle) ==
    /\ GatekeeperMasterPubkey # None
    /\ on_gk_message_received(offline, recovered, settle)
    /\ QuietFor(0)
    /\ told' = [w \in Worker |-> ToldAfter(w, offline, recovered)]
    /\ UNCHANGED <<registryVars, since, phase>>

\* Mutant of update: the time of the report is stored, not that of the challenge.
update_Now(age) == 0

\* Benchmark.update stores the time of the challenge, in seconds.
update(age) == Saturated(SecondsSince(age))

\* on_mining_message_received: a heartbeat of a bound worker, whatever its miner does; it
\* may be of an earlier session.
Heartbeat(w, age) ==
    /\ WorkerBindings[w] # None
    /\ since' = [since EXCEPT ![WorkerBindings[w]] = update(age)]
    /\ UNCHANGED <<vars, registryVars, told, quiet, phase>>

\* A block ends and the next has a later timestamp.
NextBlock(stopping, gap) ==
    /\ EndBlock(stopping)
    /\ QuietFor(1)
    /\ ToldStop({m \in stopping : is_mining(m)})
    /\ phase' = (phase + gap) % Second
    /\ since' = [m \in Miner |-> Saturated(since[m] + (phase + gap) \div Second)]
    /\ UNCHANGED registryVars

Parameters(period) ==
    /\ set_cool_down_expiration(period)
    /\ UNCHANGED <<registryVars, told, quiet, since, phase>>

RegistryStep ==
    /\ \/ Registry!Calls
       \/ \E w \in Worker, iterations \in Iterations, elapsed \in Age :
             Registry!BenchReport(w, iterations, elapsed)
    /\ UNCHANGED <<vars, told, quiet, since, phase>>

SessionsNext ==
    \/ \E m \in Miner :
          \/ \E w \in Worker : Bind(m, w)
          \/ Unbind(m)
          \/ \E stake \in StakeAmount : Start(m, stake)
          \/ Stop(m)
          \/ Reclaim(m)
    \/ \E offline, recovered, settled \in SUBSET Worker : \E settle \in [settled -> V] :
          GkMessage(offline, recovered, settle)
    \/ \E w \in Worker, age \in Age : Heartbeat(w, age)
    \/ \E period \in CoolDowns : Parameters(period)
    \/ \E stopping \in SUBSET Miner, gap \in BlockGap : NextBlock(stopping, gap)
    \/ RegistryStep

SessionsSpec == SessionsInit /\ [][SessionsNext]_allVars

-----------------------------------------------------------------------------
(* Properties *)

\* The history variables beside the storage items that Mining and Registry declare.
SessionsTypeOK ==
    /\ TypeOK
    /\ Registry!TypeOK
    /\ told \in [Worker -> {"idle", "MiningIdle", "MiningUnresponsive"}]
    /\ quiet \in [Miner -> 0..MaxCoolDown]
    /\ since \in [Miner -> Int]
    /\ phase \in 0..(Second - 1)

\* The events pushed to a worker (MiningStart, MiningStop, MiningEnterUnresponsive,
\* MiningExitUnresponsive) add up to the state of the miner it is bound to: whoever stops,
\* unbinds or rebinds, no worker mines on without a session, and none is left out of its own.
WorkersTold ==
    \A w \in Worker :
        told[w] = IF MiningWorker(w) THEN Miners[WorkerBindings[w]].state ELSE "idle"

\* A stake that was mined with leaves the pallet only when its miner has not mined for the
\* cool-down period, the one now in force: no stop by the owner, the hook or an unbind, no
\* rebind, late settlement or restart moves a cool-down forward, nor an earlier session's.
StakeHeldThroughCoolDown ==
    [][\A m \in Miner : Stakes[m] # None /\ Stakes'[m] # Stakes[m] =>
            quiet[m] >= CoolDownPeriod]_allVars

\* Nor does anything start a cool-down anew: once the miner of a stake has not mined for the
\* period in force, raised or lowered meanwhile, can_reclaim says so, and not before.
CoolDownMeasured ==
    \A m \in Miner : Stakes[m] # None =>
        (can_reclaim(m) <=> ~is_mining(m) /\ quiet[m] >= CoolDownPeriod)

\* Benchmark.update, inside an expect, finds now later than challenge_time_last, "because it's
\* impossible to report the heartbeat at the same block with the challenge": also for several
\* heartbeats in a block, for late ones, and with times cut to seconds.
HeartbeatsTimely == \A m \in Miner : MinerBindings[m] # None => since[m] > 0

\* One master key, also while its owners mine.
OneMasterKey == Registry!OneMasterKey
=============================================================================
