---------------------------- MODULE MiningProofs ----------------------------
(***************************************************************************)
(* The invariants of the mining pallet hold for every set of miners and    *)
(* workers, every stake, every value of V and every order of calls.        *)
(***************************************************************************)
EXTENDS Mining, FiniteSetTheorems, TLAPS

\* The inductive invariant: no part of it is inductive alone.
MiningInv == TypeOK /\ BindingInv /\ StakeIffInSession /\ OnlineMinersExact

\* The longest cool-down is one of those that may be set.
LEMMA MaxCoolDownIsLongest ==
    MaxCoolDown \in CoolDowns /\ MaxCoolDown \in Nat /\ \A q \in CoolDowns : q <= MaxCoolDown
  BY MiningAssumption DEF MaxCoolDown

LEMMA MiningMinersFinite == IsFiniteSet(MiningMiners)
  <1>1. MiningMiners \subseteq Miner
    BY DEF MiningMiners
  <1> QED
    BY <1>1, MiningAssumption, FS_Subset

\* One miner more, or less, that mines.
LEMMA MiningMinersGrow ==
    ASSUME NEW m \in Miner, ~is_mining(m), is_mining(m)',
           \A x \in Miner \ {m} : is_mining(x)' <=> is_mining(x)
    PROVE  Cardinality(MiningMiners') = Cardinality(MiningMiners) + 1
  <1>1. MiningMiners' = MiningMiners \cup {m} /\ m \notin MiningMiners
    BY DEF MiningMiners
  <1> QED
    BY <1>1, MiningMinersFinite, FS_AddElement

LEMMA MiningMinersShrink ==
    ASSUME NEW m \in Miner, is_mining(m), ~is_mining(m)',
           \A x \in Miner \ {m} : is_mining(x)' <=> is_mining(x)
    PROVE  /\ Cardinality(MiningMiners') = Cardinality(MiningMiners) - 1
           /\ Cardinality(MiningMiners') \in Nat
  <1>1. MiningMiners' = MiningMiners \ {m} /\ m \in MiningMiners
    BY DEF MiningMiners
  <1>2. IsFiniteSet(MiningMiners')
    BY <1>1, MiningMinersFinite, FS_RemoveElement
  <1> QED
    BY <1>1, <1>2, MiningMinersFinite, FS_RemoveElement, FS_CardinalityType

LEMMA MiningMinersSame ==
    ASSUME \A x \in Miner : is_mining(x)' <=> is_mining(x)
    PROVE  Cardinality(MiningMiners') = Cardinality(MiningMiners)
  <1>1. MiningMiners' = MiningMiners
    BY DEF MiningMiners
  <1> QED
    BY <1>1

LEMMA InitEstablishesInv == Init => MiningInv
  <1> SUFFICES ASSUME Init PROVE MiningInv
    OBVIOUS
  <1> USE DEF Init
  <1>1. TypeOK
    BY MiningAssumption, MaxCoolDownIsLongest DEF TypeOK, MinerInfo, MinerState
  <1>2. BindingInv
    BY DEF BindingInv, BindingsInverse, MiningMinerIsBound, is_mining
  <1>3. StakeIffInSession
    BY DEF StakeIffInSession, is_mining
  <1>4. MiningMiners = {}
    BY DEF MiningMiners, is_mining
  <1>5. OnlineMinersExact
    BY <1>4, FS_EmptySet DEF OnlineMinersExact
  <1> QED
    BY <1>1, <1>2, <1>3, <1>5 DEF MiningInv

-----------------------------------------------------------------------------
(* Every step preserves the invariant: one lemma per operation. *)

LEMMA BindPreserves ==
    ASSUME MiningInv, NEW m \in Miner, NEW w \in Worker, bind(m, w)
    PROVE  MiningInv'
  <1> USE DEF bind
  <1>1. TypeOK'
    BY MiningAssumption, MaxCoolDownIsLongest DEF MiningInv, TypeOK, MinerInfo, MinerState
  <1>2. BindingInv'
    BY MiningAssumption
    DEF MiningInv, BindingInv, BindingsInverse, MiningMinerIsBound, TypeOK, is_mining
  <1>3. StakeIffInSession'
    BY DEF MiningInv, StakeIffInSession, TypeOK, is_mining
  <1>4. OnlineMinersExact'
    <2>1. \A x \in Miner : is_mining(x)' <=> is_mining(x)
      BY DEF MiningInv, TypeOK, is_mining
    <2> QED
      BY <2>1, MiningMinersSame DEF MiningInv, OnlineMinersExact
  <1> QED
    BY <1>1, <1>2, <1>3, <1>4 DEF MiningInv

LEMMA StopPreserves ==
    ASSUME MiningInv, NEW m \in Miner, is_mining(m),
           Miners' = [Miners EXCEPT ![m] = Stopped(@)],
           OnlineMiners' = OnlineMiners - 1,
           Stakes' = Stakes
    PROVE  /\ Miners' \in [Miner -> MinerInfo]
           /\ OnlineMiners' \in Nat
           /\ ~is_mining(m)'
           /\ \A x \in Miner \ {m} : Miners'[x] = Miners[x]
           /\ Miners'[m].state # "None"
           /\ StakeIffInSession'
           /\ OnlineMinersExact'
  <1>1. Miners' \in [Miner -> MinerInfo] /\ Miners'[m].state = "MiningCoolingDown"
    BY MaxCoolDownIsLongest DEF MiningInv, TypeOK, MinerInfo, MinerState, Stopped
  <1>2. ~is_mining(m)' /\ \A x \in Miner \ {m} : Miners'[x] = Miners[x]
    BY <1>1 DEF is_mining, MiningInv, TypeOK
  <1>3. StakeIffInSession'
    BY <1>1, <1>2 DEF MiningInv, StakeIffInSession, TypeOK, is_mining
  <1>4. \A x \in Miner \ {m} : is_mining(x)' <=> is_mining(x)
    BY <1>2 DEF is_mining
  <1>5. OnlineMinersExact' /\ OnlineMiners' \in Nat
    BY <1>2, <1>4, MiningMinersShrink DEF MiningInv, OnlineMinersExact
  <1> QED
    BY <1>1, <1>2, <1>3, <1>5

LEMMA UnbindPreserves ==
    ASSUME MiningInv, NEW m \in Miner, unbind_miner(m)
    PROVE  MiningInv'
  <1> DEFINE w == MinerBindings[m]
  <1>1. w \in Worker /\ WorkerBindings[w] = m
    BY DEF unbind_miner, MiningInv, BindingInv, BindingsInverse, TypeOK
  <1>2. /\ Miners' \in [Miner -> MinerInfo]
        /\ OnlineMiners' \in Nat
        /\ ~is_mining(m)'
        /\ \A x \in Miner \ {m} : Miners'[x] = Miners[x]
        /\ StakeIffInSession'
        /\ OnlineMinersExact'
    <2>1. CASE is_mining(m)
      BY <2>1, StopPreserves DEF unbind_miner
    <2>2. CASE ~is_mining(m)
      <3>1. UNCHANGED <<Miners, OnlineMiners, Stakes>>
        BY <2>2 DEF unbind_miner
      <3> QED
        BY <2>2, <3>1, MiningMinersSame
        DEF MiningInv, TypeOK, StakeIffInSession, OnlineMinersExact, is_mining, MiningMiners
    <2> QED
      BY <2>1, <2>2
  <1>3. TypeOK'
    BY <1>1, <1>2 DEF unbind_miner, MiningInv, TypeOK
  <1>4. BindingsInverse'
    BY <1>1 DEF unbind_miner, MiningInv, BindingInv, BindingsInverse, TypeOK
  <1>5. MiningMinerIsBound'
    BY <1>1, <1>2 DEF unbind_miner, MiningInv, BindingInv, MiningMinerIsBound, TypeOK, is_mining
  <1> QED
    BY <1>2, <1>3, <1>4, <1>5 DEF MiningInv, BindingInv

LEMMA StartPreserves ==
    ASSUME MiningInv, NEW m \in Miner, NEW stake \in StakeAmount, start_mining(m, stake)
    PROVE  MiningInv'
  <1> USE DEF start_mining
  <1>1. TypeOK'
    BY MiningAssumption DEF MiningInv, TypeOK, MinerInfo, MinerState
  <1>2. BindingInv'
    BY DEF MiningInv, BindingInv, BindingsInverse, MiningMinerIsBound, TypeOK, is_mining
  <1>3. StakeIffInSession'
    BY MiningAssumption DEF MiningInv, StakeIffInSession, TypeOK, is_mining
  <1>4. ~is_mining(m) /\ is_mining(m)' /\ \A x \in Miner \ {m} : is_mining(x)' <=> is_mining(x)
    BY DEF MiningInv, TypeOK, MinerInfo, is_mining
  <1>5. OnlineMinersExact'
    BY <1>4, MiningMinersGrow DEF MiningInv, OnlineMinersExact
  <1> QED
    BY <1>1, <1>2, <1>3, <1>5 DEF MiningInv

LEMMA StopMiningPreserves ==
    ASSUME MiningInv, NEW m \in Miner, stop_mining(m)
    PROVE  MiningInv'
  <1>1. /\ Miners' \in [Miner -> MinerInfo]
        /\ OnlineMiners' \in Nat
        /\ ~is_mining(m)'
        /\ \A x \in Miner \ {m} : Miners'[x] = Miners[x]
        /\ Miners'[m].state # "None"
        /\ StakeIffInSession'
        /\ OnlineMinersExact'
    BY StopPreserves DEF stop_mining
  <1>2. TypeOK'
    BY <1>1 DEF stop_mining, MiningInv, TypeOK
  <1>3. BindingInv'
    BY <1>1 DEF stop_mining, MiningInv, BindingInv, BindingsInverse, MiningMinerIsBound, TypeOK,
                is_mining
  <1> QED
    BY <1>1, <1>2, <1>3 DEF MiningInv

LEMMA ReclaimPreserves ==
    ASSUME MiningInv, NEW m \in Miner, reclaim(m)
    PROVE  MiningInv'
  <1> USE DEF reclaim, can_reclaim
  <1>1. TypeOK'
    BY MiningAssumption, MaxCoolDownIsLongest DEF MiningInv, TypeOK, MinerInfo, MinerState
  <1>2. BindingInv'
    BY DEF MiningInv, BindingInv, BindingsInverse, MiningMinerIsBound, TypeOK, MinerInfo, is_mining
  <1>3. StakeIffInSession'
    BY DEF MiningInv, StakeIffInSession, TypeOK, MinerInfo, is_mining
  <1>4. \A x \in Miner : is_mining(x)' <=> is_mining(x)
    BY DEF MiningInv, TypeOK, MinerInfo, is_mining
  <1>5. OnlineMinersExact'
    BY <1>4, MiningMinersSame DEF MiningInv, OnlineMinersExact
  <1> QED
    BY <1>1, <1>2, <1>3, <1>5 DEF MiningInv

LEMMA GkMessagePreserves ==
    ASSUME MiningInv, NEW offline, NEW recovered, NEW settled \in SUBSET Worker,
           NEW settle \in [settled -> V], on_gk_message_received(offline, recovered, settle)
    PROVE  MiningInv'
  <1> USE DEF on_gk_message_received
  <1>1. \A m \in Miner : /\ StateAfter(m, offline, recovered) \in MinerState
                         /\ VAfter(m, settle) \in V
    BY DEF StateAfter, VAfter, Hits, MiningInv, TypeOK, MinerInfo, MinerState
  <1>2. TypeOK'
    BY <1>1 DEF MiningInv, TypeOK, MinerInfo
  <1>3. \A m \in Miner : /\ is_mining(m)' <=> is_mining(m)
                         /\ ~is_mining(m) => Miners'[m].state = Miners[m].state
    BY DEF StateAfter, is_mining, MiningInv, TypeOK, MinerInfo
  <1>4. BindingInv'
    BY <1>3 DEF MiningInv, BindingInv, BindingsInverse, MiningMinerIsBound, is_mining
  <1>5. StakeIffInSession'
    BY <1>3 DEF MiningInv, StakeIffInSession, is_mining
  <1>6. OnlineMinersExact'
    BY <1>3, MiningMinersSame DEF MiningInv, OnlineMinersExact
  <1> QED
    BY <1>2, <1>4, <1>5, <1>6 DEF MiningInv

LEMMA EndBlockPreserves ==
    ASSUME MiningInv, NEW stopping \in SUBSET Miner, EndBlock(stopping)
    PROVE  MiningInv'
  <1> DEFINE stopped == {m \in stopping : MinerBindings[m] # None /\ is_mining(m)}
  <1>1. /\ OnlineMiners' = OnlineMiners - Cardinality(stopped)
        /\ Miners' = [m \in Miner |->
                        Aged(IF m \in stopped THEN Stopped(Miners[m]) ELSE Miners[m])]
        /\ UNCHANGED <<MinerBindings, WorkerBindings, Stakes, CoolDownPeriod>>
    BY DEF EndBlock
  <1>2. \A info \in MinerInfo : /\ Aged(info) \in MinerInfo
                                /\ Aged(info).state = info.state
                                /\ Stopped(info) \in MinerInfo
                                /\ Stopped(info).state = "MiningCoolingDown"
    BY MaxCoolDownIsLongest DEF Aged, Stopped, MinerInfo, MinerState
  <1>3. \A m \in Miner : /\ Miners'[m] \in MinerInfo
                         /\ Miners'[m].state = IF m \in stopped THEN "MiningCoolingDown"
                                                               ELSE Miners[m].state
    BY <1>1, <1>2 DEF MiningInv, TypeOK
  <1>4. OnlineMiners' = Cardinality(MiningMiners') /\ OnlineMiners' \in Nat
    <2>1. stopped \subseteq MiningMiners /\ IsFiniteSet(stopped) /\ IsFiniteSet(MiningMiners)
      BY MiningMinersFinite, FS_Subset DEF MiningMiners
    <2>2. MiningMiners' = MiningMiners \ stopped /\ MiningMiners \cap stopped = stopped
      BY <1>3, <2>1 DEF MiningMiners, is_mining
    <2>3. /\ Cardinality(MiningMiners \ stopped) = Cardinality(MiningMiners) - Cardinality(stopped)
          /\ IsFiniteSet(MiningMiners \ stopped)
      BY <2>1, <2>2, FS_Difference
    <2> QED
      BY <1>1, <2>2, <2>3, FS_CardinalityType DEF MiningInv, OnlineMinersExact
  <1>5. TypeOK'
    BY <1>1, <1>3, <1>4 DEF MiningInv, TypeOK
  <1>6. BindingInv'
    BY <1>1, <1>3 DEF MiningInv, BindingInv, BindingsInverse, MiningMinerIsBound, is_mining
  <1>7. StakeIffInSession'
    BY <1>1, <1>3 DEF MiningInv, StakeIffInSession, is_mining
  <1> QED
    BY <1>4, <1>5, <1>6, <1>7 DEF MiningInv, OnlineMinersExact

LEMMA NextPreserves == MiningInv /\ [Next]_vars => MiningInv'
  <1> SUFFICES ASSUME MiningInv, [Next]_vars PROVE MiningInv'
    OBVIOUS
  <1>1. ASSUME NEW m \in Miner, NEW w \in Worker, bind(m, w) PROVE MiningInv'
    BY <1>1, BindPreserves
  <1>2. ASSUME NEW m \in Miner, unbind_miner(m) PROVE MiningInv'
    BY <1>2, UnbindPreserves
  <1>3. ASSUME NEW m \in Miner, NEW stake \in StakeAmount, start_mining(m, stake) PROVE MiningInv'
    BY <1>3, StartPreserves
  <1>4. ASSUME NEW m \in Miner, stop_mining(m) PROVE MiningInv'
    BY <1>4, StopMiningPreserves
  <1>5. ASSUME NEW m \in Miner, reclaim(m) PROVE MiningInv'
    BY <1>5, ReclaimPreserves
  <1>6. ASSUME NEW offline \in SUBSET Worker, NEW recovered \in SUBSET Worker,
               NEW settled \in SUBSET Worker, NEW settle \in [settled -> V],
               on_gk_message_received(offline, recovered, settle)
        PROVE  MiningInv'
    BY <1>6, GkMessagePreserves
  <1>7. ASSUME NEW period \in CoolDowns, set_cool_down_expiration(period) PROVE MiningInv'
    BY <1>7 DEF set_cool_down_expiration, MiningInv, TypeOK, BindingInv, BindingsInverse,
                MiningMinerIsBound, StakeIffInSession, OnlineMinersExact, MiningMiners, is_mining
  <1>8. ASSUME NEW stopping \in SUBSET Miner, EndBlock(stopping) PROVE MiningInv'
    BY <1>8, EndBlockPreserves
  <1>9. CASE UNCHANGED vars
    BY <1>9 DEF vars, MiningInv, TypeOK, BindingInv, BindingsInverse,
                MiningMinerIsBound, StakeIffInSession, OnlineMinersExact, MiningMiners, is_mining
  <1> QED
    BY <1>1, <1>2, <1>3, <1>4, <1>5, <1>6, <1>7, <1>8, <1>9 DEF Next

-----------------------------------------------------------------------------
(* The theorems *)

\* The inductive invariant holds in every reachable state of the mining pallet.
THEOREM MiningInvariant == Spec => []MiningInv
  BY InitEstablishesInv, NextPreserves, PTL DEF Spec

\* Every storage item always has its declared shape; OnlineMiners in particular never wraps.
THEOREM TypeCorrect == Spec => []TypeOK
  <1>1. MiningInv => TypeOK
    BY DEF MiningInv
  <1> QED
    BY <1>1, MiningInvariant, PTL

\* The binding maps stay inverse, and a mining miner stays bound to its worker, whatever the
\* order of bind, unbind_miner, start_mining and stop_mining.
THEOREM BindingsCorrect == Spec => []BindingInv
  <1>1. MiningInv => BindingInv
    BY DEF MiningInv
  <1> QED
    BY <1>1, MiningInvariant, PTL

\* A stake is stored exactly for the mining and the cooling miners.
THEOREM StakesCorrect == Spec => []StakeIffInSession
  <1>1. MiningInv => StakeIffInSession
    BY DEF MiningInv
  <1> QED
    BY <1>1, MiningInvariant, PTL

\* The divisor of the heartbeat's target counts the mining miners.
THEOREM OnlineMinersCorrect == Spec => []OnlineMinersExact
  <1>1. MiningInv => OnlineMinersExact
    BY DEF MiningInv
  <1> QED
    BY <1>1, MiningInvariant, PTL
=============================================================================
