--------------------------- MODULE SessionsProofs ---------------------------
(***************************************************************************)
(* The workers always know the state of their sessions, the gatekeepers    *)
(* have one master key, heartbeats are in time, and no stake is released   *)
(* before its miner has cooled down, for every set of miners, workers and  *)
(* keys and every order of calls and messages.                             *)
(***************************************************************************)
EXTENDS Sessions, MiningProofs

ToldType == told \in [Worker -> {"idle", "MiningIdle", "MiningUnresponsive"}]

\* challenge_time_last is in the past for every miner, bound or not.
TimeInv ==
    /\ since \in [Miner -> Nat \ {0}]
    /\ phase \in 0..(Second - 1)

AnnouncedType ==
    announced \in [first : Worker \cup {None}, joined : SUBSET Worker,
                   key : Key \cup {None}, author : Worker \cup {None}]

\* A mining miner is not quiet, and cool_down_start of a cooling one is when it was last mining.
CoolDownInv ==
    /\ quiet \in [Miner -> 0..MaxCoolDown]
    /\ \A m \in Miner :
          /\ is_mining(m) => quiet[m] = 0
          /\ Miners[m].state = "MiningCoolingDown" => Miners[m].cooled = quiet[m]

SessionsInv ==
    MiningInv /\ CoolDownInv /\ ToldType /\ WorkersTold /\ TimeInv /\ AnnouncedType /\ OneMasterKey

-----------------------------------------------------------------------------
(* The mining pallet's part of each step *)

\* Whatever the workers, the registry and the clock do, a step changes the miners only as
\* one of the mining pallet's functions does.
LEMMA StepsAreMiningSteps == [SessionsNext]_allVars => [Next]_vars
  <1> SUFFICES ASSUME [SessionsNext]_allVars PROVE [Next]_vars
    OBVIOUS
  <1>1. CASE \E m \in Miner :
                \/ \E w \in Worker : Bind(m, w)
                \/ Unbind(m)
                \/ \E stake \in StakeAmount : Start(m, stake)
                \/ Stop(m)
                \/ Reclaim(m)
    BY <1>1 DEF Bind, Unbind, Start, Stop, Reclaim, Next
  <1>2. CASE \E offline, recovered, settled \in SUBSET Worker : \E settle \in [settled -> V] :
                GkMessage(offline, recovered, settle)
    BY <1>2 DEF GkMessage, Next
  <1>3. CASE \E w \in Worker, age \in Age : Heartbeat(w, age)
    BY <1>3 DEF Heartbeat, vars
  <1>4. CASE \E period \in CoolDowns : Parameters(period)
    BY <1>4 DEF Parameters, Next
  <1>5. CASE \E stopping \in SUBSET Miner, gap \in BlockGap : NextBlock(stopping, gap)
    BY <1>5 DEF NextBlock, Next
  <1>6. CASE RegistryStep
    BY <1>6 DEF RegistryStep, vars
  <1>7. CASE UNCHANGED allVars
    BY <1>7 DEF allVars, vars
  <1> QED
    BY <1>1, <1>2, <1>3, <1>4, <1>5, <1>6, <1>7 DEF SessionsNext

-----------------------------------------------------------------------------
(* The cool-down *)

LEMMA LesserOf ==
    ASSUME NEW a \in Nat, NEW b \in Nat
    PROVE  Lesser(a, b) \in 0..b /\ (a <= b => Lesser(a, b) = a)
  BY DEF Lesser

\* A step that takes no block: whoever cools afterwards cooled before, for as long, or has
\* just been stopped.
LEMMA CoolDownCall ==
    ASSUME CoolDownInv, QuietFor(0),
           \A m \in Miner : Miners'[m].state = "MiningCoolingDown" =>
                \/ is_mining(m) /\ Miners'[m].cooled = 0
                \/ Miners[m].state = "MiningCoolingDown" /\ Miners'[m].cooled = Miners[m].cooled
    PROVE  CoolDownInv'
  <1>1. ASSUME NEW m \in Miner
        PROVE  quiet[m] \in 0..MaxCoolDown /\ Lesser(quiet[m] + 0, MaxCoolDown) = quiet[m]
    BY MaxCoolDownIsLongest, LesserOf DEF CoolDownInv
  <1>2. quiet' = [m \in Miner |-> IF is_mining(m)' THEN 0 ELSE quiet[m]]
    BY <1>1 DEF QuietFor
  <1>3. quiet' \in [Miner -> 0..MaxCoolDown]
    BY <1>1, <1>2, MaxCoolDownIsLongest
  <1> QED
    BY <1>2, <1>3 DEF CoolDownInv, is_mining

LEMMA CoolDownBlock ==
    ASSUME MiningInv, CoolDownInv, NEW stopping \in SUBSET Miner, NEW gap \in BlockGap,
           NextBlock(stopping, gap)
    PROVE  CoolDownInv'
  <1> DEFINE later(n) == Lesser(n + 1, MaxCoolDown)
             stopped == {m \in stopping : MinerBindings[m] # None /\ is_mining(m)}
  <1>1. \A n \in 0..MaxCoolDown : later(n) \in 0..MaxCoolDown
    BY MaxCoolDownIsLongest, LesserOf
  <1>2. \A info \in MinerInfo : /\ Aged(info).state = info.state
                                /\ Aged(info).cooled = later(info.cooled)
                                /\ Stopped(info) \in MinerInfo
                                /\ Stopped(info).state = "MiningCoolingDown"
                                /\ Stopped(info).cooled = 0
    BY MaxCoolDownIsLongest DEF Aged, Stopped, MinerInfo, MinerState, Lesser
  <1>3. quiet' = [m \in Miner |-> IF is_mining(m)' THEN 0 ELSE later(quiet[m])]
    BY DEF NextBlock, QuietFor
  <1>4. Miners' = [m \in Miner |->
                     Aged(IF m \in stopped THEN Stopped(Miners[m]) ELSE Miners[m])]
    BY DEF NextBlock, EndBlock
  <1> HIDE DEF later
  <1>5. \A m \in stopped : /\ Miners'[m].state = "MiningCoolingDown"
                           /\ Miners'[m].cooled = later(0)
                           /\ quiet[m] = 0
    BY <1>2, <1>4 DEF CoolDownInv, MiningInv, TypeOK
  <1>6. \A m \in Miner \ stopped : /\ Miners'[m].state = Miners[m].state
                                   /\ Miners'[m].cooled = later(Miners[m].cooled)
    BY <1>2, <1>4 DEF MiningInv, TypeOK
  <1> HIDE DEF stopped
  <1>7. quiet' \in [Miner -> 0..MaxCoolDown]
    BY <1>1, <1>3, MaxCoolDownIsLongest DEF CoolDownInv
  <1> QED
    BY <1>3, <1>5, <1>6, <1>7 DEF CoolDownInv, is_mining

LEMMA CoolDownInit == SessionsInit => CoolDownInv
  BY MaxCoolDownIsLongest DEF SessionsInit, Init, CoolDownInv, is_mining

LEMMA CoolDownStep == MiningInv /\ CoolDownInv /\ [SessionsNext]_allVars => CoolDownInv'
  <1> SUFFICES ASSUME MiningInv, CoolDownInv, [SessionsNext]_allVars PROVE CoolDownInv'
    OBVIOUS
  <1>1. ASSUME NEW m \in Miner, NEW w \in Worker, Bind(m, w) PROVE CoolDownInv'
    BY <1>1, CoolDownCall DEF Bind, bind, MiningInv, TypeOK
  <1>2. ASSUME NEW m \in Miner, Unbind(m) PROVE CoolDownInv'
    BY <1>2, CoolDownCall DEF Unbind, unbind_miner, Stopped, MiningInv, TypeOK
  <1>3. ASSUME NEW m \in Miner, NEW stake \in StakeAmount, Start(m, stake) PROVE CoolDownInv'
    BY <1>3, CoolDownCall DEF Start, start_mining, MiningInv, TypeOK
  <1>4. ASSUME NEW m \in Miner, Stop(m) PROVE CoolDownInv'
    BY <1>4, CoolDownCall DEF Stop, stop_mining, Stopped, MiningInv, TypeOK
  <1>5. ASSUME NEW m \in Miner, Reclaim(m) PROVE CoolDownInv'
    BY <1>5, CoolDownCall DEF Reclaim, reclaim, MiningInv, TypeOK
  <1>6. ASSUME NEW offline \in SUBSET Worker, NEW recovered \in SUBSET Worker,
               NEW settled \in SUBSET Worker, NEW settle \in [settled -> V],
               GkMessage(offline, recovered, settle)
        PROVE  CoolDownInv'
    <2>1. \A m \in Miner : /\ Miners'[m].state = StateAfter(m, offline, recovered)
                           /\ Miners'[m].cooled = Miners[m].cooled
      BY <1>6 DEF GkMessage, on_gk_message_received
    <2>2. \A m \in Miner : StateAfter(m, offline, recovered) = "MiningCoolingDown" =>
                              Miners[m].state = "MiningCoolingDown"
      BY DEF StateAfter, is_mining
    <2>3. QuietFor(0)
      BY <1>6 DEF GkMessage
    <2> QED
      BY <2>1, <2>2, <2>3, CoolDownCall
  <1>7. ASSUME NEW stopping \in SUBSET Miner, NEW gap \in BlockGap, NextBlock(stopping, gap)
        PROVE  CoolDownInv'
    BY <1>7, CoolDownBlock
  <1>8. CASE UNCHANGED <<Miners, quiet>>
    BY <1>8 DEF CoolDownInv, is_mining
  <1> QED
    BY <1>1, <1>2, <1>3, <1>4, <1>5, <1>6, <1>7, <1>8
    DEF SessionsNext, allVars, vars, Heartbeat, Parameters, set_cool_down_expiration, RegistryStep

\* Only a reclaim changes a stored stake, and it finds the miner cooling.
LEMMA StakeReleased ==
    ASSUME MiningInv, CoolDownInv, [Next]_vars, NEW m \in Miner, Stakes[m] # None,
           Stakes'[m] # Stakes[m]
    PROVE  quiet[m] >= CoolDownPeriod
  <1>1. can_reclaim(m)
    BY DEF Next, vars, MiningInv, TypeOK, bind, unbind_miner, start_mining, stop_mining, reclaim,
           on_gk_message_received, set_cool_down_expiration, EndBlock
  <1> QED
    BY <1>1 DEF can_reclaim, CoolDownInv

-----------------------------------------------------------------------------
(* Time *)

\* What lies at least a second back was in an earlier second.
LEMMA EarlierSecond ==
    ASSUME phase \in 0..(Second - 1), NEW age \in Nat, age >= Second
    PROVE  SecondsSince(age) \in Nat \ {0}
  <1>1. Second \in Nat \ {0}
    BY SessionsAssumption
  <1>2. phase - age \in Int /\ phase - age < 0
    BY <1>1
  <1>3. (phase - age) \div Second \in Int /\ (phase - age) \div Second < 0
    BY <1>1, <1>2
  <1> QED
    BY <1>3 DEF SecondsSince

LEMMA SaturatedPositive ==
    ASSUME NEW n \in Nat \ {0} PROVE Saturated(n) \in Nat \ {0}
  BY SessionsAssumption DEF Saturated, Lesser

LEMMA TimeInit == SessionsInit => TimeInv
  BY SessionsAssumption DEF SessionsInit, TimeInv

LEMMA TimeStep == TimeInv /\ [SessionsNext]_allVars => TimeInv'
  <1> SUFFICES ASSUME TimeInv, [SessionsNext]_allVars PROVE TimeInv'
    OBVIOUS
  <1>0. Second \in Nat \ {0} /\ MaxSince \in Nat \ {0}
    BY SessionsAssumption
  <1>1. ASSUME NEW m \in Miner, NEW w \in Worker, Bind(m, w) PROVE TimeInv'
    BY <1>0, <1>1 DEF Bind, TimeInv
  <1>2. ASSUME NEW w \in Worker, NEW age \in Age, Heartbeat(w, age) PROVE TimeInv'
    <2>1. age \in Nat /\ age >= Second
      BY SessionsAssumption
    <2>2. update(age) \in Nat \ {0}
      BY <2>1, EarlierSecond, SaturatedPositive DEF update, TimeInv
    <2> QED
      BY <1>2, <2>2 DEF Heartbeat, TimeInv
  <1>3. ASSUME NEW stopping \in SUBSET Miner, NEW gap \in BlockGap, NextBlock(stopping, gap)
        PROVE  TimeInv'
    <2>1. gap \in Nat
      BY SessionsAssumption
    <2>2. (phase + gap) % Second \in 0..(Second - 1) /\ (phase + gap) \div Second \in Nat
      BY <1>0, <2>1 DEF TimeInv
    <2>3. \A m \in Miner : since[m] + (phase + gap) \div Second \in Nat \ {0}
      BY <2>2 DEF TimeInv
    <2>4. \A m \in Miner : Saturated(since[m] + (phase + gap) \div Second) \in Nat \ {0}
      BY <2>3, SaturatedPositive
    <2> QED
      BY <1>3, <2>2, <2>4 DEF NextBlock, TimeInv
  <1>4. CASE UNCHANGED <<since, phase>>
    BY <1>4 DEF TimeInv
  <1> QED
    BY <1>1, <1>2, <1>3, <1>4 DEF SessionsNext, allVars, Unbind, Start, Stop, Reclaim, GkMessage,
       Parameters, RegistryStep

\* Benchmark.update finds now after the last challenge, however many heartbeats a block has.
THEOREM HeartbeatsAreTimely == SessionsSpec => []HeartbeatsTimely
  <1>1. TimeInv => HeartbeatsTimely
    BY DEF TimeInv, HeartbeatsTimely
  <1> QED
    BY <1>1, TimeInit, TimeStep, PTL DEF SessionsSpec

-----------------------------------------------------------------------------
(* What the workers are told *)

\* Only the bound worker of a miner can be the one it is bound to.
LEMMA WorkerOf ==
    ASSUME MiningInv, NEW w \in Worker, WorkerBindings[w] # None
    PROVE  WorkerBindings[w] \in Miner /\ MinerBindings[WorkerBindings[w]] = w
  BY DEF MiningInv, TypeOK, BindingInv, BindingsInverse

LEMMA ToldInit == SessionsInit => ToldType /\ WorkersTold
  BY DEF SessionsInit, Init, ToldType, WorkersTold, MiningWorker

LEMMA BindTold ==
    ASSUME MiningInv, ToldType, WorkersTold, NEW m \in Miner, NEW w \in Worker, Bind(m, w)
    PROVE  ToldType' /\ WorkersTold'
  <1>1. ~is_mining(m) /\ WorkerBindings[w] = None
    BY DEF Bind, bind, is_mining
  <1>2. \A x \in Worker \ {w} : WorkerBindings[x] # m
    BY WorkerOf, MiningAssumption DEF Bind, bind
  <1>3. ASSUME NEW x \in Worker PROVE MiningWorker(x)' = MiningWorker(x)
    BY <1>1, <1>2, MiningAssumption, WorkerOf
       DEF Bind, bind, MiningWorker, is_mining, MiningInv, TypeOK
  <1>4. ASSUME NEW x \in Worker, MiningWorker(x)
        PROVE  Miners'[WorkerBindings'[x]].state = Miners[WorkerBindings[x]].state
    BY <1>1, <1>2, <1>4, WorkerOf DEF Bind, bind, MiningWorker, MiningInv, TypeOK
  <1> QED
    BY <1>3, <1>4 DEF Bind, ToldType, WorkersTold

\* The stop of the miners ms: their workers are told.
LEMMA StopsTold ==
    ASSUME MiningInv, ToldType, WorkersTold,
           NEW ms \in SUBSET Miner, ToldStop(ms),
           \A w \in Worker : WorkerBindings[w] \notin ms =>
                /\ MiningWorker(w)' = MiningWorker(w)
                /\ MiningWorker(w) =>
                     Miners'[WorkerBindings'[w]].state = Miners[WorkerBindings[w]].state,
           \A w \in Worker : WorkerBindings[w] \in ms => ~MiningWorker(w)'
    PROVE  ToldType' /\ WorkersTold'
  BY DEF ToldStop, ToldType, WorkersTold

LEMMA UnbindTold ==
    ASSUME MiningInv, ToldType, WorkersTold, NEW m \in Miner, Unbind(m)
    PROVE  ToldType' /\ WorkersTold'
  <1> DEFINE ms == {n \in {m} : is_mining(n)}
  <1>1. ms \in SUBSET Miner /\ ToldStop(ms)
    BY DEF Unbind
  <1>2. MinerBindings[m] \in Worker /\ WorkerBindings[MinerBindings[m]] = m
    BY DEF Unbind, unbind_miner, MiningInv, TypeOK, BindingInv, BindingsInverse
  <1>3. \A w \in Worker : WorkerBindings[w] = m => w = MinerBindings[m]
    BY WorkerOf, MiningAssumption
  <1>4. \A w \in Worker : WorkerBindings'[w] = IF w = MinerBindings[m] THEN None
                                                                      ELSE WorkerBindings[w]
    BY <1>2 DEF Unbind, unbind_miner, MiningInv, TypeOK
  <1>5. \A n \in Miner \ {m} : Miners'[n] = Miners[n]
    BY DEF Unbind, unbind_miner, MiningInv, TypeOK
  <1>6. ASSUME NEW w \in Worker, WorkerBindings[w] \notin ms
        PROVE  /\ MiningWorker(w)' = MiningWorker(w)
               /\ MiningWorker(w) =>
                    Miners'[WorkerBindings'[w]].state = Miners[WorkerBindings[w]].state
    <2>1. CASE w = MinerBindings[m]
      BY <1>2, <1>4, <1>6, <2>1 DEF MiningWorker
    <2>2. CASE w # MinerBindings[m] /\ WorkerBindings[w] = None
      BY <1>4, <2>2 DEF MiningWorker
    <2>3. CASE w # MinerBindings[m] /\ WorkerBindings[w] # None
      <3>1. WorkerBindings[w] \in Miner \ {m}
        BY <1>3, <2>3, WorkerOf
      <3>2. WorkerBindings'[w] = WorkerBindings[w]
        BY <1>4, <2>3
      <3> QED
        BY <1>5, <3>1, <3>2 DEF MiningWorker, is_mining
    <2> QED
      BY <2>1, <2>2, <2>3
  <1>7. ASSUME NEW w \in Worker, WorkerBindings[w] \in ms PROVE ~MiningWorker(w)'
    BY <1>3, <1>4, <1>7 DEF MiningWorker
  <1> HIDE DEF ms
  <1> QED
    BY <1>1, <1>6, <1>7, StopsTold

LEMMA StopTold ==
    ASSUME MiningInv, ToldType, WorkersTold, NEW m \in Miner, Stop(m)
    PROVE  ToldType' /\ WorkersTold'
  <1>1. {m} \in SUBSET Miner /\ ToldStop({m})
    BY DEF Stop
  <1>2. WorkerBindings' = WorkerBindings /\ \A n \in Miner \ {m} : Miners'[n] = Miners[n]
    BY DEF Stop, stop_mining, MiningInv, TypeOK
  <1>3. Miners'[m].state = "MiningCoolingDown"
    BY DEF Stop, stop_mining, Stopped, MiningInv, TypeOK
  <1>4. \A w \in Worker : WorkerBindings[w] \notin {m} =>
            /\ MiningWorker(w)' = MiningWorker(w)
            /\ MiningWorker(w) =>
                 Miners'[WorkerBindings'[w]].state = Miners[WorkerBindings[w]].state
    BY <1>2, WorkerOf DEF MiningWorker, is_mining
  <1>5. \A w \in Worker : WorkerBindings[w] \in {m} => ~MiningWorker(w)'
    BY <1>2, <1>3 DEF MiningWorker, is_mining
  <1> QED
    BY <1>1, <1>4, <1>5, StopsTold

LEMMA NextBlockTold ==
    ASSUME MiningInv, ToldType, WorkersTold, NEW stopping \in SUBSET Miner, NEW gap \in BlockGap,
           NextBlock(stopping, gap)
    PROVE  ToldType' /\ WorkersTold'
  <1> DEFINE ms == {m \in stopping : is_mining(m)}
  <1>1. ms \in SUBSET Miner /\ ToldStop(ms) /\ WorkerBindings' = WorkerBindings
    BY DEF NextBlock, EndBlock
  <1>2. \A m \in ms : Miners'[m].state = "MiningCoolingDown"
    BY DEF NextBlock, EndBlock, Aged, Stopped, MiningInv, BindingInv, MiningMinerIsBound
  <1>3. \A m \in Miner \ ms : Miners'[m].state = Miners[m].state
    BY DEF NextBlock, EndBlock, Aged
  <1>4. \A w \in Worker : WorkerBindings[w] \notin ms =>
            /\ MiningWorker(w)' = MiningWorker(w)
            /\ MiningWorker(w) =>
                 Miners'[WorkerBindings'[w]].state = Miners[WorkerBindings[w]].state
    <2> HIDE DEF ms
    <2> QED
      BY <1>1, <1>3, WorkerOf DEF MiningWorker, is_mining
  <1>5. \A w \in Worker : WorkerBindings[w] \in ms => ~MiningWorker(w)'
    <2> HIDE DEF ms
    <2> QED
      BY <1>1, <1>2 DEF MiningWorker, is_mining
  <1> HIDE DEF ms
  <1> QED
    BY <1>1, <1>4, <1>5, StopsTold

LEMMA StartTold ==
    ASSUME MiningInv, ToldType, WorkersTold, NEW m \in Miner, NEW stake \in StakeAmount,
           Start(m, stake)
    PROVE  ToldType' /\ WorkersTold'
  <1> DEFINE w == MinerBindings[m]
  <1>1. w \in Worker /\ WorkerBindings[w] = m /\ m # None
    BY MiningAssumption
       DEF Start, start_mining, MiningInv, TypeOK, BindingInv, BindingsInverse
  <1>2. \A x \in Worker : WorkerBindings[x] = m => x = w
    BY WorkerOf, MiningAssumption
  <1>3. WorkerBindings' = WorkerBindings /\ \A n \in Miner \ {m} : Miners'[n] = Miners[n]
    BY DEF Start, start_mining, MiningInv, TypeOK
  <1>4. Miners'[m].state = "MiningIdle"
    BY DEF Start, start_mining, MiningInv, TypeOK
  <1>5. told' = [told EXCEPT ![w] = "MiningIdle"]
    BY DEF Start
  <1> HIDE DEF w
  <1>6. ToldType'
    BY <1>1, <1>5 DEF ToldType
  <1>7. ASSUME NEW x \in Worker
        PROVE  told'[x] = IF MiningWorker(x)' THEN Miners'[WorkerBindings'[x]].state ELSE "idle"
    <2>1. CASE x = w
      BY <1>1, <1>3, <1>4, <1>5, <2>1 DEF ToldType, MiningWorker, is_mining
    <2>2. CASE x # w
      <3>1. told'[x] = told[x]
        BY <1>1, <1>5, <2>2 DEF ToldType
      <3>2. WorkerBindings[x] # None => WorkerBindings[x] \in Miner \ {m}
        BY <1>2, <2>2, WorkerOf
      <3> QED
        BY <1>3, <3>1, <3>2 DEF WorkersTold, MiningWorker, is_mining
    <2> QED
      BY <2>1, <2>2
  <1> QED
    BY <1>6, <1>7 DEF WorkersTold

LEMMA GkMessageTold ==
    ASSUME MiningInv, ToldType, WorkersTold,
           NEW offline \in SUBSET Worker, NEW recovered \in SUBSET Worker,
           NEW settled \in SUBSET Worker, NEW settle \in [settled -> V],
           GkMessage(offline, recovered, settle)
    PROVE  ToldType' /\ WorkersTold'
  <1>1. WorkerBindings' = WorkerBindings
    BY DEF GkMessage, on_gk_message_received
  <1>2. \A m \in Miner : Miners'[m].state = StateAfter(m, offline, recovered)
    BY DEF GkMessage, on_gk_message_received
  <1>3. \A w \in Worker : told'[w] = ToldAfter(w, offline, recovered)
    BY DEF GkMessage
  <1>4. ToldType'
    BY <1>3 DEF ToldType, GkMessage, ToldAfter
  <1>5. ASSUME NEW w \in Worker
        PROVE  told'[w] = IF MiningWorker(w)' THEN Miners'[WorkerBindings'[w]].state ELSE "idle"
    <2>1. CASE WorkerBindings[w] = None
      BY <1>1, <1>3, <2>1 DEF ToldAfter, MiningWorker, WorkersTold
    <2>2. CASE WorkerBindings[w] # None
      <3> DEFINE m == WorkerBindings[w]
      <3>1. m \in Miner /\ MinerBindings[m] = w
        BY <2>2, WorkerOf
      <3>2. \A ws \in SUBSET Worker : Hits(ws, m) <=> w \in ws
        BY <2>2, <3>1, WorkerOf DEF Hits
      <3>3. Miners'[m].state = StateAfter(m, offline, recovered)
        BY <1>2, <3>1
      <3>4. WorkerBindings'[w] = m /\ m # None
        BY <1>1, <2>2
      <3>5. MiningWorker(w) <=> is_mining(m)
        BY <2>2 DEF MiningWorker
      <3>6. Hits(offline, m) <=> w \in offline
        BY <3>2
      <3>7. Hits(recovered, m) <=> w \in recovered
        BY <3>2
      <3>8. told[w] = IF is_mining(m) THEN Miners[m].state ELSE "idle"
        BY <3>5 DEF WorkersTold
      <3> HIDE DEF m
      <3>9. MiningWorker(w)' <=> Miners'[m].state \in {"MiningIdle", "MiningUnresponsive"}
        BY <3>4 DEF MiningWorker, is_mining
      <3>10. CASE ~is_mining(m)
        BY <1>3, <3>3, <3>4, <3>5, <3>8, <3>9, <3>10 DEF StateAfter, ToldAfter, is_mining
      <3>11. CASE is_mining(m)
        BY <1>3, <3>3, <3>4, <3>5, <3>6, <3>7, <3>8, <3>9, <3>11
           DEF StateAfter, ToldAfter, is_mining
      <3> QED
        BY <3>10, <3>11
    <2> QED
      BY <2>1, <2>2
  <1> QED
    BY <1>4, <1>5 DEF WorkersTold

LEMMA ReclaimTold ==
    ASSUME MiningInv, ToldType, WorkersTold, NEW m \in Miner, Reclaim(m)
    PROVE  ToldType' /\ WorkersTold'
  <1>1. ~is_mining(m) /\ told' = told /\ WorkerBindings' = WorkerBindings
    BY DEF Reclaim, reclaim, can_reclaim, is_mining
  <1>2. Miners'[m].state = "Ready" /\ \A n \in Miner \ {m} : Miners'[n] = Miners[n]
    BY DEF Reclaim, reclaim, MiningInv, TypeOK
  <1> QED
    BY <1>1, <1>2, WorkerOf DEF ToldType, WorkersTold, MiningWorker, is_mining

LEMMA ToldStep ==
    MiningInv /\ ToldType /\ WorkersTold /\ [SessionsNext]_allVars => ToldType' /\ WorkersTold'
  <1> SUFFICES ASSUME MiningInv, ToldType, WorkersTold, [SessionsNext]_allVars
               PROVE  ToldType' /\ WorkersTold'
    OBVIOUS
  <1>1. CASE UNCHANGED <<Miners, WorkerBindings, told>>
    BY <1>1 DEF ToldType, WorkersTold, MiningWorker, is_mining
  <1> QED
    BY <1>1, BindTold, UnbindTold, StartTold, StopTold, ReclaimTold, GkMessageTold, NextBlockTold
    DEF SessionsNext, allVars, vars, Heartbeat, Parameters, set_cool_down_expiration, RegistryStep

-----------------------------------------------------------------------------
(* The master key *)

LEMMA MasterKeyInit == SessionsInit => AnnouncedType /\ OneMasterKey
  BY DEF SessionsInit, Registry!Init, AnnouncedType, OneMasterKey, Registry!OneMasterKey

LEMMA MasterKeyStep ==
    AnnouncedType /\ OneMasterKey /\ [SessionsNext]_allVars => AnnouncedType' /\ OneMasterKey'
  <1> SUFFICES ASSUME AnnouncedType, OneMasterKey, [SessionsNext]_allVars
               PROVE  AnnouncedType' /\ OneMasterKey'
    OBVIOUS
  <1> USE DEF AnnouncedType, OneMasterKey, Registry!OneMasterKey
  <1>1. CASE UNCHANGED <<Gatekeeper, GatekeeperMasterPubkey, announced>>
    BY <1>1
  <1>2. ASSUME NEW w \in Worker, Registry!register_gatekeeper(w)
        PROVE  AnnouncedType' /\ OneMasterKey'
    <2>1. w # None
      BY MiningAssumption
    <2>2. CASE Gatekeeper = {}
      <3>1. announced.joined = {} /\ announced.key = None
        BY <2>2
      <3>2. /\ Gatekeeper' = {w} /\ GatekeeperMasterPubkey' = GatekeeperMasterPubkey
            /\ announced' = [first |-> w, joined |-> {}, key |-> None, author |-> announced.author]
        BY <1>2, <2>2, <3>1 DEF Registry!register_gatekeeper
      <3> QED
        BY <2>1, <3>1, <3>2
    <2>3. CASE Gatekeeper # {}
      <3>1. GatekeeperMasterPubkey # None /\ w \notin Gatekeeper
        BY <1>2, <2>3 DEF Registry!register_gatekeeper
      <3>2. /\ Gatekeeper' = Gatekeeper \cup {w} /\ GatekeeperMasterPubkey' = GatekeeperMasterPubkey
            /\ announced' = [first |-> announced.first, joined |-> announced.joined \cup {w},
                             key |-> announced.key, author |-> announced.author]
        BY <1>2, <2>3 DEF Registry!register_gatekeeper
      <3>3. announced.first # w
        BY <2>1, <2>3, <3>1, MiningAssumption
      <3> QED
        BY <2>3, <3>1, <3>2, <3>3
    <2> QED
      BY <2>2, <2>3
  <1>3. ASSUME NEW w \in Worker, NEW key \in Key, Registry!MasterPubkey(w, key)
        PROVE  AnnouncedType' /\ OneMasterKey'
    <2>1. announced.key = None /\ announced.joined = {}
      BY <1>3 DEF Registry!MasterPubkey
    <2>2. w = announced.first
      BY <1>3, <2>1 DEF Registry!MasterPubkey
    <2>3. /\ Gatekeeper' = Gatekeeper /\ GatekeeperMasterPubkey' = key
          /\ announced' = [first |-> w, joined |-> {}, key |-> key, author |-> w]
      BY <1>3, <2>1, <2>2 DEF Registry!MasterPubkey
    <2> QED
      BY <2>1, <2>2, <2>3, MiningAssumption, SessionsAssumption
  <1> QED
    BY <1>1, <1>2, <1>3
    DEF SessionsNext, allVars, registryVars, Bind, Unbind, Start, Stop, Reclaim, GkMessage,
        Heartbeat, Parameters, NextBlock, RegistryStep, Registry!Calls,
        Registry!force_register_worker, Registry!register_worker, Registry!add_pruntime,
        Registry!remove_pruntime, Registry!add_relaychain_genesis_block_hash,
        Registry!remove_relaychain_genesis_block_hash, Registry!AllowLists, Registry!BenchReport

-----------------------------------------------------------------------------
(* Theorems *)

\* The composition keeps the mining pallet's invariant, since its steps are steps of Mining, the
\* cool-downs measured against when the miners last mined, what the workers were told, the times
\* and the master key.
THEOREM SessionsInvariant == SessionsSpec => []SessionsInv
  <1>1. SessionsInit => SessionsInv
    BY InitEstablishesInv, CoolDownInit, ToldInit, TimeInit, MasterKeyInit DEF SessionsInit, SessionsInv
  <1>2. SessionsInv /\ [SessionsNext]_allVars => SessionsInv'
    BY StepsAreMiningSteps, NextPreserves, CoolDownStep, ToldStep, TimeStep, MasterKeyStep DEF SessionsInv
  <1> QED
    BY <1>1, <1>2, PTL DEF SessionsSpec

\* A stake is released only when its miner has not mined for the period in force, whatever
\* stops, unbinds, rebinds, settlements and changes of the period lie between.
THEOREM StakeHeld == SessionsSpec => StakeHeldThroughCoolDown
  <1> DEFINE Held == \A m \in Miner : Stakes[m] # None /\ Stakes'[m] # Stakes[m] =>
                        quiet[m] >= CoolDownPeriod
  <1>1. SessionsInv /\ [SessionsNext]_allVars => [Held]_allVars
    BY StepsAreMiningSteps, StakeReleased DEF SessionsInv
  <1> QED
    BY <1>1, SessionsInvariant, PTL DEF SessionsSpec, StakeHeldThroughCoolDown

\* can_reclaim measures the time since the miner last mined: nothing shortens a cool-down, and
\* nothing starts it anew.
THEOREM CoolDownIsMeasured == SessionsSpec => []CoolDownMeasured
  <1>1. SessionsInv => CoolDownMeasured
    BY DEF SessionsInv, MiningInv, StakeIffInSession, CoolDownInv, CoolDownMeasured, can_reclaim,
           is_mining
  <1> QED
    BY <1>1, SessionsInvariant, PTL

\* The events pushed to a worker always add up to the state of its miner.
THEOREM WorkersAreTold == SessionsSpec => []WorkersTold
  <1>1. SessionsInv => WorkersTold
    BY DEF SessionsInv
  <1> QED
    BY <1>1, SessionsInvariant, PTL

\* There is one master key, reported by the first gatekeeper before any other joined.
THEOREM MasterKeyIsOne == SessionsSpec => []OneMasterKey
  <1>1. SessionsInv => OneMasterKey
    BY DEF SessionsInv
  <1> QED
    BY <1>1, SessionsInvariant, PTL
=============================================================================
