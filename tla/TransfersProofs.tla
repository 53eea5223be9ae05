-------------------------- MODULE TransfersProofs --------------------------
(***************************************************************************)
(* What is proved of the transfers, for any assets, chains, users, amounts *)
(* and fees: no account is in debt, nothing comes into being that was not  *)
(* taken from its home, what is locked covers what is elsewhere, and       *)
(* nothing moves an asset that is not registered.  The four maps of the    *)
(* asset registry agree, under every order of the committee's calls.       *)
(*                                                                         *)
(* A ledger is measured by the worth of an asset and by what is locked of  *)
(* it.  Each operation on a ledger has a lemma that says what it does to   *)
(* the measures (Paid, Credited), each transfer one that composes them     *)
(* (Gains, Pays), and each action one that the invariant is kept.          *)
(***************************************************************************)
EXTENDS Transfers, SumTheorems

-----------------------------------------------------------------------------
(* The asset registry *)

\* The maps have their shape and agree with each other.
RegistryInv == RegistryTypeOK /\ RegistryConsistent

\* To begin with nothing is registered, and nothing is inconsistent.
LEMMA InitRegistry == ASSUME NEW others \in SUBSET AssetId, RegistryInit(others) PROVE RegistryInv
<1>1. RegistryTypeOK
  BY DEF RegistryInit, RegistryTypeOK, ResourceId
<1>2. RegistryConsistent
  BY RegistryAssumption DEF RegistryInit, RegistryConsistent, ResourceId, into_rid
<1> QED BY <1>1, <1>2 DEF RegistryInv

\* A new registration binds two names that were free, and no resource id.
LEMMA RegisterInv ==
  ASSUME RegistryInv, NEW asset \in Asset, NEW id \in AssetId, NEW decimals \in Decimal,
         force_register_asset(asset, id, decimals)
  PROVE  RegistryInv'
<1> DEFINE info == [location |-> asset, decimals |-> decimals, enabled_bridges |-> {}]
<1>0. info \in AssetRegistryInfo
  BY DEF AssetRegistryInfo
<1>1. RegistryTypeOK'
  BY <1>0 DEF RegistryInv, RegistryTypeOK, force_register_asset
<1>2. RegistryConsistent'
  BY <1>0, RegistryAssumption DEF RegistryInv, RegistryTypeOK, RegistryConsistent,
         force_register_asset, ResourceId, into_rid, AssetRegistryInfo
<1> QED BY <1>1, <1>2 DEF RegistryInv

\* An asset leaves together with its id, its information and all its resource ids.
LEMMA UnregisterInv ==
  ASSUME RegistryInv, NEW id \in AssetId, force_unregister_asset(id)
  PROVE  RegistryInv'
<1>1. RegistryTypeOK'
  BY DEF RegistryInv, RegistryTypeOK, force_unregister_asset
<1> DEFINE asset == AssetByIds[id]
<1>2. asset \in Asset /\ IdByAssets[asset] = id /\ RegistryInfoByIds[id] \in AssetRegistryInfo
  BY DEF RegistryInv, RegistryTypeOK, RegistryConsistent, force_unregister_asset
<1>3. \A chain \in Chain : AssetByResourceIds'[into_rid(asset, chain)] = None
  <2> TAKE chain \in Chain
  <2>1. into_rid(asset, chain) \in ResourceId
    BY <1>2 DEF ResourceId, into_rid
  <2>2. CASE chain \in RegistryInfoByIds[id].enabled_bridges
    BY <2>1, <2>2 DEF force_unregister_asset
  <2>3. CASE chain \notin RegistryInfoByIds[id].enabled_bridges
    <3>1. AssetByResourceIds[into_rid(asset, chain)] = None
      BY <1>2, <2>3 DEF RegistryInv, RegistryConsistent
    <3> QED BY <3>1, <2>1 DEF force_unregister_asset
  <2> QED BY <2>2, <2>3
<1>4. \A chain \in Chain, other \in Asset : other # asset =>
        AssetByResourceIds'[into_rid(other, chain)] = AssetByResourceIds[into_rid(other, chain)]
  <2> TAKE chain \in Chain, other \in Asset
  <2> HAVE other # asset
  <2>1. into_rid(other, chain) \in ResourceId
    BY DEF ResourceId, into_rid
  <2>2. \A c : into_rid(asset, c) # into_rid(other, chain)
    BY DEF into_rid
  <2> QED BY <2>1, <2>2 DEF force_unregister_asset
<1>5. /\ AssetByIds' = [AssetByIds EXCEPT ![id] = None]
      /\ IdByAssets' = [IdByAssets EXCEPT ![asset] = None]
      /\ RegistryInfoByIds' = [RegistryInfoByIds EXCEPT ![id] = None]
      /\ created' = created
  BY DEF force_unregister_asset
<1>6. RegistryConsistent'
  BY <1>2, <1>3, <1>4, <1>5, RegistryAssumption DEF RegistryInv, RegistryTypeOK, RegistryConsistent
<1> QED BY <1>1, <1>6 DEF RegistryInv

\* The information of an asset may change as long as it keeps its bridges.
LEMMA MetadataInv ==
  ASSUME RegistryInv, NEW id \in AssetId, NEW decimals \in Decimal, force_set_metadata(id, decimals)
  PROVE  RegistryInv'
<1>1. RegistryInfoByIds[id] \in AssetRegistryInfo
  BY DEF RegistryInv, RegistryTypeOK, force_set_metadata
<1>2. RegistryTypeOK'
  BY <1>1 DEF RegistryInv, RegistryTypeOK, AssetRegistryInfo, force_set_metadata
<1>3. RegistryConsistent'
  BY <1>1, RegistryAssumption DEF RegistryInv, RegistryTypeOK, RegistryConsistent,
         AssetRegistryInfo, force_set_metadata
<1> QED BY <1>2, <1>3 DEF RegistryInv

\* A bridge is enabled or disabled for an asset: its resource id and its list change together.
LEMMA BridgeInv ==
  ASSUME RegistryInv, NEW id \in AssetId, NEW chain \in Chain,
         force_enable_chainbridge(id, chain) \/ force_disable_chainbridge(id, chain)
  PROVE  RegistryInv'
<1> DEFINE asset == AssetByIds[id]
           rid == into_rid(asset, chain)
           info == RegistryInfoByIds[id]
<1>1. /\ asset \in Asset /\ IdByAssets[asset] = id /\ info \in AssetRegistryInfo
      /\ rid \in ResourceId
  BY DEF RegistryInv, RegistryTypeOK, RegistryConsistent, force_enable_chainbridge,
         force_disable_chainbridge, ResourceId, into_rid
<1>2. PICK value \in {asset, None}, enabled \in SUBSET Chain :
        /\ AssetByResourceIds' = [AssetByResourceIds EXCEPT ![rid] = value]
        /\ RegistryInfoByIds' = [RegistryInfoByIds EXCEPT ![id] =
              [location |-> info.location, decimals |-> info.decimals, enabled_bridges |-> enabled]]
        /\ value = asset <=> chain \in enabled
        /\ \A c \in Chain : c # chain => (c \in enabled <=> c \in info.enabled_bridges)
        /\ UNCHANGED <<IdByAssets, AssetByIds, created>>
  <2>1. CASE force_enable_chainbridge(id, chain)
    <3> DEFINE enabled == info.enabled_bridges \cup {chain}
    <3>1. enabled \in SUBSET Chain
      BY <1>1 DEF AssetRegistryInfo
    <3> QED BY <1>1, <2>1, <3>1 DEF force_enable_chainbridge
  <2>2. CASE force_disable_chainbridge(id, chain)
    <3> DEFINE enabled == info.enabled_bridges \ {chain}
    <3>1. enabled \in SUBSET Chain
      BY <1>1 DEF AssetRegistryInfo
    <3> QED BY <1>1, <2>2, <3>1 DEF force_disable_chainbridge
  <2> QED BY <2>1, <2>2
<1>3. RegistryTypeOK'
  BY <1>1, <1>2 DEF RegistryInv, RegistryTypeOK, AssetRegistryInfo
<1>4. /\ \A c \in Chain, other \in Asset : other # asset \/ c # chain =>
           AssetByResourceIds'[into_rid(other, c)] = AssetByResourceIds[into_rid(other, c)]
      /\ AssetByResourceIds'[rid] = value
  BY <1>1, <1>2 DEF RegistryInv, RegistryTypeOK, ResourceId, into_rid
<1>5. /\ RegistryInfoByIds'[id].enabled_bridges = enabled
      /\ RegistryInfoByIds'[id].location = info.location
      /\ RegistryInfoByIds'[id] # None
      /\ \A other \in AssetId : other # id => RegistryInfoByIds'[other] = RegistryInfoByIds[other]
  BY <1>1, <1>2, <1>3, RegistryAssumption DEF RegistryInv, RegistryTypeOK, AssetRegistryInfo
<1>6. RegistryConsistent'
  <2>1. (\A a \in Asset, i \in AssetId : IdByAssets[a] = i <=> AssetByIds[i] = a)'
    BY <1>2 DEF RegistryInv, RegistryConsistent
  <2>2. (\A i \in AssetId :
          /\ AssetByIds[i] = None <=> RegistryInfoByIds[i] = None
          /\ AssetByIds[i] # None => RegistryInfoByIds[i].location = AssetByIds[i]
          /\ AssetByIds[i] # None => i \in created)'
    BY <1>1, <1>2, <1>5, RegistryAssumption DEF RegistryInv, RegistryConsistent
  <2>3. ASSUME NEW c \in Chain, NEW a \in Asset
        PROVE  (/\ AssetByResourceIds[into_rid(a, c)] \in {a, None}
                /\ AssetByResourceIds[into_rid(a, c)] = a <=>
                      /\ IdByAssets[a] # None
                      /\ c \in RegistryInfoByIds[IdByAssets[a]].enabled_bridges)'
    <3>0. IdByAssets' = IdByAssets /\ into_rid(a, c)' = into_rid(a, c)
      BY <1>2 DEF into_rid
    <3>1. CASE a # asset
      <4>1. IdByAssets[a] # None => IdByAssets[a] \in AssetId /\ IdByAssets[a] # id
        BY <3>1, <1>1 DEF RegistryInv, RegistryTypeOK, RegistryConsistent
      <4> QED BY <3>0, <3>1, <4>1, <1>4, <1>5 DEF RegistryInv, RegistryConsistent
    <3>2. CASE a = asset /\ c # chain
      <4>1. AssetByResourceIds'[into_rid(a, c)] = AssetByResourceIds[into_rid(a, c)]
        BY <3>2, <1>4
      <4>2. c \in enabled <=> c \in info.enabled_bridges
        BY <1>2, <3>2
      <4> QED BY <3>0, <3>2, <4>1, <4>2, <1>1, <1>5 DEF RegistryInv, RegistryConsistent
    <3>3. CASE a = asset /\ c = chain
      BY <3>0, <3>3, <1>1, <1>2, <1>4, <1>5, RegistryAssumption
    <3> QED BY <3>1, <3>2, <3>3
  <2> QED BY <2>1, <2>2, <2>3 DEF RegistryConsistent
<1> QED BY <1>3, <1>6 DEF RegistryInv

\* The registry's maps keep their shape and their consistency under any calls of the committee.
THEOREM RegistryInvariant == RegistrySpec => []RegistryInv
<1>1. (\E others \in SUBSET AssetId : RegistryInit(others)) => RegistryInv
  BY InitRegistry
<1>2. RegistryInv /\ [RegistryNext]_registryVars => RegistryInv'
  <2> SUFFICES ASSUME RegistryInv, [RegistryNext]_registryVars PROVE RegistryInv'
    OBVIOUS
  <2>1. CASE UNCHANGED registryVars
    BY <2>1 DEF RegistryInv, registryVars, RegistryTypeOK, RegistryConsistent
  <2>2. CASE RegistryNext
    BY <2>2, RegisterInv, UnregisterInv, MetadataInv, BridgeInv DEF RegistryNext
  <2> QED BY <2>1, <2>2
<1> QED BY <1>1, <1>2, PTL DEF RegistrySpec

\* In particular a resource id leads to an asset exactly when the asset is registered and the
\* bridge enabled for it, so that a bridge transfer finds every asset it should and no other.
THEOREM RegistryStaysConsistent == RegistrySpec => []RegistryConsistent
<1>1. RegistryInv => RegistryConsistent
  BY DEF RegistryInv
<1> QED BY <1>1, RegistryInvariant, PTL

-----------------------------------------------------------------------------
(* The inductive invariant *)

\* Ledgers have no debts.
GoodLedger(l) ==
    /\ l.balance \in [Asset -> [Account -> Nat]]
    /\ l.held \in [Place -> [Asset -> Nat]]

\* What of an asset is here and on the chains that send it here by burning it there: its home,
\* and the sibling when it is the origin that the XCM adapter sees.
Worth(l, asset) ==
    Sum(l.balance[asset], Account)
      + (IF reserve_location(asset) \in SoloChains THEN l.held[reserve_location(asset)][asset] ELSE 0)
      + (IF origin(asset) = SiblingChain THEN l.held[SiblingChain][asset] ELSE 0)

\* By how much the reserve account of a place exceeds what is held there.
Locked(l, place, asset) == l.balance[asset][place] - l.held[place][asset]

\* The same of the native asset, for all bridged chains together.
LockedPHA(l) ==
    l.balance[PHA][BridgeAccount] + Sum([chain \in Chain |-> Locked(l, SoloChain(chain), PHA)], Chain)

\* What is on its way from the home of an asset.
FromHome(asset) ==
    Sum([chain \in Chain |-> IF SoloChain(chain) = reserve_location(asset)
                             THEN Pending(chain, asset) ELSE 0], Chain)

NothingMinted == \A asset \in Asset : Worth(Ledger, asset) + FromHome(asset) <= Supply(asset)

ClaimsLocked ==
    /\ \A asset \in Asset \ {PHA}, chain \in Chain :
          reserve_location(asset) # SoloChain(chain) =>
              Pending(chain, asset) <= Locked(Ledger, SoloChain(chain), asset)
    /\ Sum([chain \in Chain |-> Pending(chain, PHA)], Chain) <= LockedPHA(Ledger)
    /\ \A asset \in Asset :
          is_native_asset_id(origin(asset)) => 0 <= Locked(Ledger, SiblingChain, asset)

\* A proposal that was not decided was not executed, nor one that was not deposited; the next
\* deposit of a chain has a nonce that none has had.
ExecutedOnceDeposited ==
    /\ Votes \in [Chain -> [Proposal -> Bridge!ProposalVotes \cup {None}]]
    /\ dispatched \in [Chain -> [Proposal -> Nat]]
    /\ Relayers \subseteq Relayer
    /\ \A chain \in Chain :
          /\ IsFiniteSet(deposits[chain])
          /\ \A call \in deposits[chain] : call.nonce <= Cardinality(deposits[chain])
          /\ \A call \in Proposal :
                /\ Votes[chain][call] = None \/ Votes[chain][call].status = "Initiated"
                      => dispatched[chain][call] = 0
                /\ dispatched[chain][call] # 0 => call \in deposits[chain]

LedgerInv ==
    /\ RegistryInv
    /\ TypeOK
    /\ ExecutedOnceDeposited
    /\ NothingMinted
    /\ ClaimsLocked
-----------------------------------------------------------------------------
(* Places *)

\* Bridged chains have different reserve locations, none of them that of the sibling.
LEMMA Places ==
    /\ \A chain, other : SoloChain(chain) = SoloChain(other) => chain = other
    /\ \A chain : SoloChain(chain) # SiblingChain
    /\ \A chain \in Chain : SoloChain(chain) \in SoloChains
    /\ \A chain : SoloChain(chain) # PHA
    /\ SoloChains \subseteq Place /\ Place \subseteq Account /\ SiblingChain \in Place
    /\ PHA \notin Place
    /\ Parachain(ParaId) # SiblingChain
<1>1. ASSUME NEW chain, NEW other, SoloChain(chain) = SoloChain(other) PROVE chain = other
  <2>1. SoloChain(chain).interior[2][2] = chain /\ SoloChain(other).interior[2][2] = other
    BY DEF SoloChain
  <2> QED BY <1>1, <2>1
<1>2. ASSUME NEW chain PROVE SoloChain(chain) # SiblingChain
  <2>1. SoloChain(chain).parents = 0 /\ SiblingChain.parents = 1
    BY DEF SoloChain, SiblingChain, Parachain
  <2> QED BY <2>1
<1>3. ASSUME NEW chain PROVE SoloChain(chain) # PHA
  <2>1. Len(SoloChain(chain).interior) = 2 /\ Len(PHA.interior) = 0
    BY DEF SoloChain, PHA
  <2> QED BY <2>1
<1>4. SiblingChain # PHA
  <2>1. PHA.parents = 0 /\ SiblingChain.parents = 1
    BY DEF PHA, SiblingChain, Parachain
  <2> QED BY <2>1
<1>5. Parachain(ParaId) # SiblingChain
  <2>1. /\ Parachain(ParaId).interior[1][2] = ParaId
        /\ SiblingChain.interior[1][2] = SiblingId
    BY DEF SiblingChain, Parachain
  <2> QED BY <2>1, PlacesAssumption
<1> QED BY <1>1, <1>2, <1>3, <1>4, <1>5 DEF SoloChains, Place, Account

\* The accounts that are paid from are no reserve accounts.
LEMMA Payers ==
    /\ User \cup {Temporary} \subseteq Account
    /\ BridgeAccount \in Account /\ Treasury \in Account
    /\ \A who \in User \cup {Temporary} : who \notin Place /\ who # BridgeAccount
    /\ BridgeAccount \notin Place
  BY PlacesAssumption DEF Account

\* The reserve and the origin of the native asset are this chain.
LEMMA HomeOfPHA ==
    /\ PHA \in Asset
    /\ reserve_location(PHA) = PHA
    /\ origin(PHA) = PHA
    /\ is_native_asset_id(PHA)
    /\ \A asset \in Asset : is_native_asset_id(asset) => asset = PHA
<1>1. ~is_sibling(PHA) /\ PHA.parents = 0 /\ PHA.interior = <<>> /\ Len(PHA.interior) = 0
  BY DEF is_sibling, PHA
<1>2. reserve_location(PHA) = PHA
  BY <1>1 DEF reserve_location, PHA
<1>3. origin(PHA) = PHA
  BY <1>1 DEF origin, PHA
<1> QED BY <1>2, <1>3, PlacesAssumption DEF is_native_asset_id

\* An asset that is reserved on the sibling comes from there.
LEMMA ReservedOnSibling ==
    ASSUME NEW asset, reserve_location(asset) = SiblingChain
    PROVE  origin(asset) = SiblingChain
<1>1. ~ (\E chain : SiblingChain = SoloChain(chain))
  BY Places
<1>2. is_sibling(asset)
  <2> SUFFICES ASSUME ~is_sibling(asset) PROVE FALSE
    OBVIOUS
  <2>1. reserve_location(asset) = [parents |-> asset.parents, interior |-> <<>>]
    BY <1>1 DEF reserve_location
  <2>2. reserve_location(asset).interior = <<>> /\ Len(SiblingChain.interior) = 1
    BY <2>1 DEF SiblingChain, Parachain
  <2> QED BY <2>2
<1>3. reserve_location(asset) = Parachain(Head(asset.interior)[2])
  BY <1>1, <1>2 DEF reserve_location
<1> QED BY <1>2, <1>3 DEF origin

\* What is native to this chain is not the sibling's.
LEMMA NativeOrigin ==
    ASSUME NEW asset, is_native_asset_id(origin(asset))
    PROVE  origin(asset) # SiblingChain
<1>1. PHA # SiblingChain
  BY Places
<1> QED BY <1>1, Places DEF is_native_asset_id

\* There are finitely many accounts.
LEMMA FiniteAccounts == IsFiniteSet(Account) /\ IsFiniteSet(Chain) /\ IsFiniteSet(SoloChains)
<1>1. IsFiniteSet(SoloChains)
  <2> DEFINE f == [chain \in Chain |-> SoloChain(chain)]
  <2>1. f \in Surjection(Chain, SoloChains)
    BY DEF Surjection, SoloChains
  <2> QED BY <2>1, FS_Surjection, PlacesAssumption
<1>2. IsFiniteSet({Treasury, BridgeAccount, Temporary, SiblingChain})
  <2>1. IsFiniteSet({Treasury})
    BY FS_Singleton
  <2>2. IsFiniteSet({Treasury} \cup {BridgeAccount})
    BY <2>1, FS_AddElement
  <2>3. IsFiniteSet(({Treasury} \cup {BridgeAccount}) \cup {Temporary})
    BY <2>2, FS_AddElement
  <2>4. IsFiniteSet((({Treasury} \cup {BridgeAccount}) \cup {Temporary}) \cup {SiblingChain})
    BY <2>3, FS_AddElement
  <2>5. {Treasury, BridgeAccount, Temporary, SiblingChain}
          = (({Treasury} \cup {BridgeAccount}) \cup {Temporary}) \cup {SiblingChain}
    OBVIOUS
  <2> QED BY <2>4, <2>5
<1> QED BY <1>1, <1>2, PlacesAssumption, FS_Union DEF Account

-----------------------------------------------------------------------------
(* Fees *)

\* The recursive equation of the powers of ten.
PowerEq(D, h) == h = [n \in D |-> IF n = 0 THEN 1 ELSE 10 * h[n - 1]]

\* Powers of ten are positive.
LEMMA Powers == pow10 \in [Nat -> Nat \ {0}]
<1> DEFINE D(n) == 0..n
           Good(h, S) == PowerEq(S, h) /\ h \in [S -> Nat \ {0}]
           I == {n \in Nat : \E h : Good(h, D(n))}
<1>1. 0 \in I
  <2> DEFINE h == [n \in D(0) |-> 1]
  <2>1. Good(h, D(0))
    BY DEF PowerEq
  <2> QED BY <2>1
<1>2. ASSUME NEW n \in Nat, n \in I PROVE n + 1 \in I
  <2>1. PICK h : Good(h, D(n))
    BY <1>2
  <2> DEFINE g == [k \in D(n + 1) |-> IF k = 0 THEN 1 ELSE 10 * h[k - 1]]
  <2>2. \A k \in D(n) : g[k] = h[k]
    BY <2>1 DEF PowerEq
  <2>3. ASSUME NEW k \in D(n + 1) PROVE g[k] = (IF k = 0 THEN 1 ELSE 10 * g[k - 1])
    <3>1. g[k] = (IF k = 0 THEN 1 ELSE 10 * h[k - 1])
      OBVIOUS
    <3>2. k # 0 => k - 1 \in D(n)
      BY <1>2, <2>3
    <3>3. k # 0 => g[k - 1] = h[k - 1]
      BY <2>2, <3>2
    <3> HIDE DEF g
    <3> QED BY <3>1, <3>3
  <2>4. PowerEq(D(n + 1), g)
    BY <2>3 DEF PowerEq
  <2>5. ASSUME NEW k \in D(n + 1) PROVE g[k] \in Nat \ {0}
    BY <2>1, <2>5
  <2> QED BY <2>4, <2>5
<1>3. Nat \subseteq I
  <2> HIDE DEF I
  <2> QED BY <1>1, <1>2, SetInduction
<1>4. ASSUME NEW n \in Nat, NEW g, NEW h, NEW m \in 0..n, Good(g, D(n)), Good(h, D(m))
      PROVE  \A k \in 0..m : g[k] = h[k]
  <2> DEFINE J == {k \in Nat : k <= m => g[k] = h[k]}
  <2>1. 0 \in J
    BY <1>4 DEF PowerEq
  <2>2. ASSUME NEW k \in Nat, k \in J PROVE k + 1 \in J
    <3>1. CASE k + 1 <= m
      <4>1. g[k + 1] = 10 * g[k] /\ h[k + 1] = 10 * h[k]
        BY <1>4, <3>1 DEF PowerEq
      <4> QED BY <2>2, <3>1, <4>1
    <3> QED BY <3>1
  <2>3. Nat \subseteq J
    <3> HIDE DEF J
    <3> QED BY <2>1, <2>2, SetInduction
  <2> QED BY <2>3
<1> DEFINE H(n) == CHOOSE h : Good(h, D(n))
           p == [n \in Nat |-> H(n)[n]]
<1>5. \A n \in Nat : Good(H(n), D(n))
  BY <1>3
<1> HIDE DEF H, Good
<1>6. ASSUME NEW n \in Nat PROVE p[n] = (IF n = 0 THEN 1 ELSE 10 * p[n - 1]) /\ p[n] \in Nat \ {0}
  <2>1. Good(H(n), D(n))
    BY <1>5
  <2>2. H(n)[n] = (IF n = 0 THEN 1 ELSE 10 * H(n)[n - 1]) /\ H(n)[n] \in Nat \ {0}
    BY <2>1 DEF Good, PowerEq
  <2>3. CASE n # 0
    <3>1. n - 1 \in Nat /\ n - 1 \in 0..n
      BY <2>3
    <3>2. Good(H(n - 1), D(n - 1))
      BY <1>5, <3>1
    <3>3. H(n)[n - 1] = H(n - 1)[n - 1]
      BY <1>4, <2>1, <3>1, <3>2
    <3> QED BY <2>2, <3>1, <3>3
  <2> QED BY <2>2, <2>3
<1> HIDE DEF p
<1>7. p = [n \in Nat |-> IF n = 0 THEN 1 ELSE 10 * p[n - 1]]
  BY <1>6 DEF p
<1>8. \E q : q = [n \in Nat |-> IF n = 0 THEN 1 ELSE 10 * q[n - 1]]
  BY <1>7
<1>9. pow10 = [n \in Nat |-> IF n = 0 THEN 1 ELSE 10 * pow10[n - 1]]
  BY <1>8 DEF pow10
<1> DEFINE K == {n \in Nat : pow10[n] \in Nat \ {0}}
<1>10. 0 \in K
  BY <1>9
<1>11. ASSUME NEW n \in Nat, n \in K PROVE n + 1 \in K
  <2>1. pow10[n + 1] = 10 * pow10[n]
    BY <1>9
  <2> QED BY <1>11, <2>1
<1>12. Nat \subseteq K
  <2> HIDE DEF K
  <2> QED BY <1>10, <1>11, SetInduction
<1> QED BY <1>9, <1>12

\* A product of natural numbers is one, and so is a quotient.
LEMMA Arithmetic ==
    /\ \A a, b \in Nat : a * b \in Nat
    /\ \A a \in Nat : \A b \in Nat \ {0} : a \div b \in Nat
  OBVIOUS

\* Fees are natural numbers, also when they were converted to the asset.
LEMMA Fees ==
    ASSUME RegistryTypeOK, RegistryConsistent, TypeOK,
           NEW chain \in Chain, NEW asset \in Asset, NEW amount \in Nat
    PROVE  /\ estimate_fee_in_pha(chain, amount) \in Nat
           /\ get_fee(chain, asset, amount) # None => get_fee(chain, asset, amount) \in Nat
<1>1. ASSUME NEW a \in Nat PROVE estimate_fee_in_pha(chain, a) \in Nat
  <2> DEFINE option == IF BridgeFee[chain] = None THEN <<0, 0>> ELSE BridgeFee[chain]
             part == (a * option[2]) \div 1000
  <2>1. BridgeFee[chain] \in FeeOption \cup {None}
    BY DEF TypeOK
  <2>2. option \in Nat \X Nat
    BY <2>1, AmountsAssumption
  <2>3. option[1] \in Nat /\ option[2] \in Nat
    BY <2>2
  <2>4. part \in Nat
    <3> HIDE DEF option
    <3>1. a * option[2] \in Nat
      BY <2>3, Arithmetic
    <3> QED BY <3>1, Arithmetic
  <2> HIDE DEF option, part
  <2>5. Max({option[1], part}) \in Nat
    <3>1. \E x \in {option[1], part} : \A y \in {option[1], part} : x >= y
      BY <2>3, <2>4
    <3> QED BY <2>3, <2>4, <3>1 DEF Max
  <2> QED BY <2>5 DEF estimate_fee_in_pha, option, part
<1>2. ASSUME get_fee(chain, asset, amount) # None PROVE get_fee(chain, asset, amount) \in Nat
  <2>1. registered(asset)
    BY <1>2 DEF get_fee
  <2>2. decimals_of(asset) \in Nat
    <3>1. IdByAssets[asset] \in AssetId
      BY <2>1 DEF registered, RegistryTypeOK
    <3>2. AssetByIds[IdByAssets[asset]] = asset
      BY <3>1 DEF RegistryConsistent
    <3>3. RegistryInfoByIds[IdByAssets[asset]] \in AssetRegistryInfo
      BY <3>1, <3>2, RegistryAssumption DEF RegistryConsistent, RegistryTypeOK
    <3> QED BY <3>3, AmountsAssumption DEF decimals_of, AssetRegistryInfo
  <2>3. ASSUME NEW a \in Nat, NEW d \in Nat PROVE to_e12(a, d) \in Nat /\ from_e12(a, d) \in Nat
    <3>1. CASE d > 12
      <4>1. d - 12 \in Nat
        BY <3>1
      <4>2. pow10[d - 12] \in Nat \ {0}
        BY <4>1, Powers
      <4> QED BY <3>1, <4>2, Arithmetic DEF to_e12, from_e12
    <3>2. CASE ~ (d > 12)
      <4>1. 12 - d \in Nat
        BY <3>2
      <4>2. pow10[12 - d] \in Nat \ {0}
        BY <4>1, Powers
      <4> QED BY <3>2, <4>2, Arithmetic DEF to_e12, from_e12
    <3> QED BY <3>1, <3>2
  <2> DEFINE fee == estimate_fee_in_pha(chain, to_e12(amount, decimals_of(asset)))
  <2>4. fee \in Nat
    BY <1>1, <2>2, <2>3
  <2> HIDE DEF fee
  <2>5. CASE is_native_asset_id(asset)
    BY <2>1, <2>4, <2>5 DEF get_fee, fee
  <2>6. CASE ~is_native_asset_id(asset)
    <3>1. asset \in DOMAIN Price
      BY <1>2, <2>1, <2>6 DEF get_fee
    <3>2. Price[asset] \in Nat /\ NativeExecutionPrice \in Nat \ {0}
      BY <3>1, AmountsAssumption
    <3>3. (fee * Price[asset]) \div NativeExecutionPrice \in Nat
      <4>1. fee * Price[asset] \in Nat
        BY <2>4, <3>2, Arithmetic
      <4> QED BY <3>2, <4>1, Arithmetic
    <3>4. convert_fee_from_pha(fee, Price[asset], decimals_of(asset)) \in Nat
      BY <2>2, <2>3, <3>3 DEF convert_fee_from_pha
    <3> QED BY <2>1, <2>6, <3>1, <3>4 DEF get_fee, fee
  <2> QED BY <2>5, <2>6
<1> QED BY <1>1, <1>2

-----------------------------------------------------------------------------
(* What the operations on a ledger do to the measures *)

\* The measures are numbers.
LEMMA Measures ==
    ASSUME NEW l, GoodLedger(l)
    PROVE  /\ \A asset \in Asset : Worth(l, asset) \in Nat
           /\ \A asset \in Asset, place \in Place : Locked(l, place, asset) \in Int
           /\ LockedPHA(l) \in Int
<1>0. IsFiniteSet(Account) /\ IsFiniteSet(Chain)
  BY FiniteAccounts
<1>1. ASSUME NEW asset \in Asset, NEW place \in Place PROVE Locked(l, place, asset) \in Int
  BY Places DEF GoodLedger, Locked
<1>2. ASSUME NEW asset \in Asset PROVE Worth(l, asset) \in Nat
  <2>1. SumFunctionOnSet(l.balance[asset], Account) \in Nat
    <3>1. \A who \in Account : l.balance[asset][who] \in Nat
      BY DEF GoodLedger
    <3> QED BY <1>0, <3>1, SumNat
  <2>2. \A place \in Place : l.held[place][asset] \in Nat
    BY DEF GoodLedger
  <2> QED BY <2>1, <2>2, Places DEF Worth, Sum
<1>3. LockedPHA(l) \in Int
  <2> DEFINE f == [chain \in Chain |-> Locked(l, SoloChain(chain), PHA)]
  <2>1. \A chain \in Chain : f[chain] \in Int
    BY <1>1, Places, HomeOfPHA
  <2>2. SumFunctionOnSet(f, Chain) \in Int
    <3> HIDE DEF f
    <3> QED BY <1>0, <2>1, SumInt
  <2>3. l.balance[PHA][BridgeAccount] \in Nat
    BY Payers, HomeOfPHA DEF GoodLedger
  <2> QED BY <2>2, <2>3 DEF LockedPHA, Sum
<1> QED BY <1>1, <1>2, <1>3

\* An account of this chain has n more of an asset, or less.
Paid(l, m, asset, who, n) ==
    /\ \A other \in Asset :
          Worth(m, other) = Worth(l, other) + (IF other = asset THEN n ELSE 0)
    /\ \A other \in Asset, place \in Place :
          Locked(m, place, other)
            = Locked(l, place, other) + (IF other = asset /\ place = who THEN n ELSE 0)
    /\ LockedPHA(m) = LockedPHA(l)
         + (IF asset = PHA /\ (who \in SoloChains \/ who = BridgeAccount) THEN n ELSE 0)

\* The places whose holdings count as the worth of an asset.
MintsHere(place, asset) ==
    \/ place \in SoloChains /\ place = reserve_location(asset)
    \/ place = SiblingChain /\ origin(asset) = SiblingChain

\* Accounts of another chain have n more of an asset, or less.
Credited(l, m, asset, place, n) ==
    /\ \A other \in Asset :
          Worth(m, other)
            = Worth(l, other) + (IF other = asset /\ MintsHere(place, asset) THEN n ELSE 0)
    /\ \A other \in Asset, p \in Place :
          Locked(m, p, other) = Locked(l, p, other) - (IF other = asset /\ p = place THEN n ELSE 0)
    /\ LockedPHA(m) = LockedPHA(l) - (IF asset = PHA /\ place \in SoloChains THEN n ELSE 0)

\* A change of one balance.
LEMMA PaidEffect ==
    ASSUME NEW l, NEW m, GoodLedger(l), GoodLedger(m), NEW asset \in Asset, NEW who \in Account,
           NEW n \in Int, m.held = l.held,
           m.balance[asset][who] = l.balance[asset][who] + n,
           \A a \in Asset, w \in Account :
              a # asset \/ w # who => m.balance[a][w] = l.balance[a][w]
    PROVE  Paid(l, m, asset, who, n)
<1>0. /\ IsFiniteSet(Account) /\ IsFiniteSet(Chain)
      /\ \A a \in Asset, w \in Account : l.balance[a][w] \in Nat /\ m.balance[a][w] \in Nat
      /\ \A a \in Asset, p \in Place : l.held[p][a] \in Nat
  BY FiniteAccounts DEF GoodLedger
<1>1. ASSUME NEW other \in Asset
      PROVE  Worth(m, other) = Worth(l, other) + (IF other = asset THEN n ELSE 0)
  <2> DEFINE f == l.balance[other]
             g == m.balance[other]
             h == l.held
  <2>0. /\ Worth(l, other) = SumFunctionOnSet(f, Account)
              + (IF reserve_location(other) \in SoloChains THEN h[reserve_location(other)][other] ELSE 0)
              + (IF origin(other) = SiblingChain THEN h[SiblingChain][other] ELSE 0)
        /\ Worth(m, other) = SumFunctionOnSet(g, Account)
              + (IF reserve_location(other) \in SoloChains THEN h[reserve_location(other)][other] ELSE 0)
              + (IF origin(other) = SiblingChain THEN h[SiblingChain][other] ELSE 0)
    BY DEF Worth, Sum
  <2>1. \A w \in Account : f[w] \in Nat /\ g[w] \in Nat
    BY <1>0
  <2>2. \A p \in Place : h[p][other] \in Nat
    BY <1>0
  <2>3. SumFunctionOnSet(f, Account) \in Nat /\ SumFunctionOnSet(g, Account) \in Nat
    <3> HIDE DEF f, g
    <3> QED BY <1>0, <2>1, SumNat
  <2>4. SumFunctionOnSet(g, Account) = SumFunctionOnSet(f, Account) + (IF other = asset THEN n ELSE 0)
    <3>1. CASE other = asset
      <4>1. \A w \in Account \ {who} : g[w] = f[w]
        BY <3>1
      <4>2. g[who] = f[who] + n
        BY <3>1
      <4> HIDE DEF f, g
      <4>3. SumFunctionOnSet(g, Account) = SumFunctionOnSet(f, Account) + g[who] - f[who]
        BY <1>0, <2>1, <4>1, SumChange
      <4> QED BY <2>1, <2>3, <3>1, <4>2, <4>3
    <3>2. CASE other # asset
      <4>1. \A w \in Account : f[w] \in Int /\ f[w] = g[w]
        BY <3>2, <2>1
      <4> HIDE DEF f, g
      <4>2. SumFunctionOnSet(f, Account) = SumFunctionOnSet(g, Account)
        BY <1>0, <4>1, SumSame
      <4> QED BY <2>3, <3>2, <4>2
    <3> QED BY <3>1, <3>2
  <2> HIDE DEF f, g, h
  <2> QED BY <2>0, <2>2, <2>3, <2>4, Places
<1>2. ASSUME NEW other \in Asset, NEW place \in Place
      PROVE  Locked(m, place, other)
               = Locked(l, place, other) + (IF other = asset /\ place = who THEN n ELSE 0)
  <2>1. place \in Account
    BY Places
  <2>2. /\ l.balance[other][place] \in Nat /\ l.held[place][other] \in Nat
        /\ m.balance[other][place]
             = l.balance[other][place] + (IF other = asset /\ place = who THEN n ELSE 0)
    BY <1>0, <2>1
  <2> QED BY <2>2 DEF Locked
<1>3. LockedPHA(m) = LockedPHA(l)
        + (IF asset = PHA /\ (who \in SoloChains \/ who = BridgeAccount) THEN n ELSE 0)
  <2> DEFINE f == [chain \in Chain |-> Locked(l, SoloChain(chain), PHA)]
             g == [chain \in Chain |-> Locked(m, SoloChain(chain), PHA)]
             b == l.balance[PHA][BridgeAccount]
             c == m.balance[PHA][BridgeAccount]
  <2>1. LockedPHA(l) = b + SumFunctionOnSet(f, Chain) /\ LockedPHA(m) = c + SumFunctionOnSet(g, Chain)
    BY DEF LockedPHA, Sum
  <2>2. b \in Nat /\ c = b + (IF asset = PHA /\ who = BridgeAccount THEN n ELSE 0)
    BY <1>0, Payers, HomeOfPHA
  <2>3. \A chain \in Chain : f[chain] \in Int /\ g[chain] \in Int
    BY Measures, Places, HomeOfPHA
  <2>4. \A chain \in Chain :
          g[chain] = f[chain] + (IF asset = PHA /\ SoloChain(chain) = who THEN n ELSE 0)
    BY <1>2, Places, HomeOfPHA
  <2>5. BridgeAccount \notin SoloChains
    BY Payers, Places
  <2> HIDE DEF f, g, b, c
  <2>6. SumFunctionOnSet(f, Chain) \in Int
    BY <1>0, <2>3, SumInt
  <2>7. CASE asset = PHA /\ who \in SoloChains
    <3>1. PICK chain \in Chain : who = SoloChain(chain)
      BY <2>7 DEF SoloChains
    <3>2. \A other \in Chain \ {chain} : g[other] = f[other]
      BY <2>3, <2>4, <3>1, Places
    <3>3. SumFunctionOnSet(g, Chain) = SumFunctionOnSet(f, Chain) + g[chain] - f[chain]
      BY <1>0, <2>3, <3>2, SumChange
    <3>4. g[chain] = f[chain] + n /\ f[chain] \in Int
      BY <2>3, <2>4, <2>7, <3>1
    <3> QED BY <2>1, <2>2, <2>5, <2>6, <2>7, <3>3, <3>4
  <2>8. CASE ~ (asset = PHA /\ who \in SoloChains)
    <3>1. \A chain \in Chain : f[chain] \in Int /\ f[chain] = g[chain]
      BY <2>3, <2>4, <2>8, Places
    <3>2. SumFunctionOnSet(f, Chain) = SumFunctionOnSet(g, Chain)
      BY <1>0, <3>1, SumSame
    <3> QED BY <2>1, <2>2, <2>6, <2>8, <3>2
  <2> QED BY <2>7, <2>8
<1> QED BY <1>1, <1>2, <1>3 DEF Paid

\* A change of what is held on another chain.
LEMMA CreditedEffect ==
    ASSUME NEW l, NEW m, GoodLedger(l), GoodLedger(m), NEW asset \in Asset, NEW place \in Place,
           NEW n \in Int, m.balance = l.balance,
           m.held[place][asset] = l.held[place][asset] + n,
           \A a \in Asset, p \in Place :
              a # asset \/ p # place => m.held[p][a] = l.held[p][a]
    PROVE  Credited(l, m, asset, place, n)
<1>0. /\ IsFiniteSet(Account) /\ IsFiniteSet(Chain)
      /\ \A a \in Asset, w \in Account : l.balance[a][w] \in Nat
      /\ \A a \in Asset, p \in Place : l.held[p][a] \in Nat /\ m.held[p][a] \in Nat
  BY FiniteAccounts DEF GoodLedger
<1>1. ASSUME NEW other \in Asset
      PROVE  Worth(m, other)
               = Worth(l, other) + (IF other = asset /\ MintsHere(place, asset) THEN n ELSE 0)
  <2> DEFINE b == SumFunctionOnSet(l.balance[other], Account)
             h == l.held
             k == m.held
             home == reserve_location(other)
  <2>1. b \in Nat
    BY <1>0, SumNat
  <2>2. \A p \in Place : h[p][other] \in Nat /\ k[p][other] \in Nat
    BY <1>0
  <2>3. \A p \in Place : k[p][other] = h[p][other] + (IF other = asset /\ p = place THEN n ELSE 0)
    BY <1>0
  <2>4. /\ Worth(l, other) = b + (IF home \in SoloChains THEN h[home][other] ELSE 0)
                               + (IF origin(other) = SiblingChain THEN h[SiblingChain][other] ELSE 0)
        /\ Worth(m, other) = b + (IF home \in SoloChains THEN k[home][other] ELSE 0)
                               + (IF origin(other) = SiblingChain THEN k[SiblingChain][other] ELSE 0)
    BY DEF Worth, Sum
  <2>5. SiblingChain \notin SoloChains
    BY Places DEF SoloChains
  <2>6. /\ home \in SoloChains =>
             k[home][other] = h[home][other] + (IF other = asset /\ place = home THEN n ELSE 0)
        /\ k[SiblingChain][other]
             = h[SiblingChain][other] + (IF other = asset /\ place = SiblingChain THEN n ELSE 0)
        /\ home \in SoloChains => h[home][other] \in Nat
        /\ h[SiblingChain][other] \in Nat
    BY <2>2, <2>3, Places
  <2>7. other = asset => (MintsHere(place, asset) <=>
             \/ place \in SoloChains /\ place = home
             \/ place = SiblingChain /\ origin(other) = SiblingChain)
    BY DEF MintsHere
  <2> HIDE DEF b, h, k, home
  <2> QED BY <2>1, <2>4, <2>5, <2>6, <2>7
<1>2. ASSUME NEW other \in Asset, NEW p \in Place
      PROVE  Locked(m, p, other) = Locked(l, p, other) - (IF other = asset /\ p = place THEN n ELSE 0)
  <2>1. /\ l.balance[other][p] \in Nat /\ l.held[p][other] \in Nat
        /\ m.held[p][other] = l.held[p][other] + (IF other = asset /\ p = place THEN n ELSE 0)
    BY <1>0, Places
  <2> QED BY <2>1 DEF Locked
<1>3. LockedPHA(m) = LockedPHA(l) - (IF asset = PHA /\ place \in SoloChains THEN n ELSE 0)
  <2> DEFINE f == [chain \in Chain |-> Locked(l, SoloChain(chain), PHA)]
             g == [chain \in Chain |-> Locked(m, SoloChain(chain), PHA)]
             b == l.balance[PHA][BridgeAccount]
  <2>1. LockedPHA(l) = b + SumFunctionOnSet(f, Chain) /\ LockedPHA(m) = b + SumFunctionOnSet(g, Chain)
    BY DEF LockedPHA, Sum
  <2>2. b \in Nat
    BY <1>0, Payers, HomeOfPHA
  <2>3. \A chain \in Chain : f[chain] \in Int /\ g[chain] \in Int
    BY Measures, Places, HomeOfPHA
  <2>4. \A chain \in Chain :
          g[chain] = f[chain] - (IF asset = PHA /\ SoloChain(chain) = place THEN n ELSE 0)
    BY <1>2, Places, HomeOfPHA
  <2> HIDE DEF f, g, b
  <2>6. SumFunctionOnSet(f, Chain) \in Int
    BY <1>0, <2>3, SumInt
  <2>7. CASE asset = PHA /\ place \in SoloChains
    <3>1. PICK chain \in Chain : place = SoloChain(chain)
      BY <2>7 DEF SoloChains
    <3>2. \A other \in Chain \ {chain} : g[other] = f[other]
      BY <2>3, <2>4, <3>1, Places
    <3>3. SumFunctionOnSet(g, Chain) = SumFunctionOnSet(f, Chain) + g[chain] - f[chain]
      BY <1>0, <2>3, <3>2, SumChange
    <3>4. g[chain] = f[chain] - n /\ f[chain] \in Int
      BY <2>3, <2>4, <2>7, <3>1
    <3> QED BY <2>1, <2>2, <2>6, <2>7, <3>3, <3>4
  <2>8. CASE ~ (asset = PHA /\ place \in SoloChains)
    <3>1. \A chain \in Chain : f[chain] \in Int /\ f[chain] = g[chain]
      BY <2>3, <2>4, <2>8, Places
    <3>2. SumFunctionOnSet(f, Chain) = SumFunctionOnSet(g, Chain)
      BY <1>0, <3>1, SumSame
    <3> QED BY <2>1, <2>2, <2>6, <2>8, <3>2
  <2> QED BY <2>7, <2>8
<1> QED BY <1>1, <1>2, <1>3 DEF Credited

-----------------------------------------------------------------------------
(* The operations on a ledger *)

\* An entry of a table changes by n.
LEMMA TableEntry ==
    ASSUME NEW A, NEW B, NEW f \in [A -> [B -> Nat]], NEW a \in A, NEW b \in B, NEW v \in Nat,
           NEW g, g = [f EXCEPT ![a][b] = v]
    PROVE  /\ g \in [A -> [B -> Nat]]
           /\ g[a][b] = v
           /\ \A x \in A, y \in B : x # a \/ y # b => g[x][y] = f[x][y]
  OBVIOUS

\* deposit adds to one balance.
LEMMA DepositEffect ==
    ASSUME NEW l, GoodLedger(l), NEW asset \in Asset, NEW who \in Account, NEW n \in Nat
    PROVE  LET m == deposit(l, asset, who, n)
           IN  /\ GoodLedger(m) /\ m.held = l.held /\ m.ok = l.ok
               /\ m.balance[asset][who] = l.balance[asset][who] + n
               /\ \A a \in Asset, w \in Account :
                     a # asset \/ w # who => m.balance[a][w] = l.balance[a][w]
               /\ Paid(l, m, asset, who, n)
<1> DEFINE m == deposit(l, asset, who, n)
           old == l.balance[asset][who]
<1>1. old \in Nat
  BY DEF GoodLedger
<1>2. /\ m.balance = [l.balance EXCEPT ![asset][who] = old + n]
      /\ m.held = l.held /\ m.ok = l.ok
  BY DEF deposit
<1> HIDE DEF m
<1>3. /\ m.balance \in [Asset -> [Account -> Nat]]
      /\ m.balance[asset][who] = old + n
      /\ \A a \in Asset, w \in Account :
            a # asset \/ w # who => m.balance[a][w] = l.balance[a][w]
  <2>1. old + n \in Nat /\ l.balance \in [Asset -> [Account -> Nat]]
    BY <1>1 DEF GoodLedger
  <2> QED BY <1>2, <2>1, TableEntry
<1>4. GoodLedger(m)
  BY <1>2, <1>3 DEF GoodLedger
<1>5. Paid(l, m, asset, who, n)
  <2>1. n \in Int
    OBVIOUS
  <2> QED BY <1>2, <1>3, <1>4, <2>1, PaidEffect
<1> QED BY <1>2, <1>3, <1>4, <1>5 DEF m

\* withdraw takes from one balance what is there.
LEMMA WithdrawEffect ==
    ASSUME NEW l, GoodLedger(l), NEW asset \in Asset, NEW who \in Account, NEW n \in Nat,
           n <= l.balance[asset][who]
    PROVE  LET m == withdraw(l, asset, who, n)
           IN  /\ GoodLedger(m) /\ m.held = l.held /\ m.ok = l.ok
               /\ m.balance[asset][who] = l.balance[asset][who] - n
               /\ \A a \in Asset, w \in Account :
                     a # asset \/ w # who => m.balance[a][w] = l.balance[a][w]
               /\ Paid(l, m, asset, who, -n)
<1> DEFINE m == withdraw(l, asset, who, n)
           old == l.balance[asset][who]
<1>1. old \in Nat /\ old - n \in Nat
  BY DEF GoodLedger
<1>2. /\ m.balance = [l.balance EXCEPT ![asset][who] = old - n]
      /\ m.held = l.held /\ m.ok = l.ok
  BY DEF withdraw
<1> HIDE DEF m
<1>3. /\ m.balance \in [Asset -> [Account -> Nat]]
      /\ m.balance[asset][who] = old - n
      /\ \A a \in Asset, w \in Account :
            a # asset \/ w # who => m.balance[a][w] = l.balance[a][w]
  <2>1. l.balance \in [Asset -> [Account -> Nat]]
    BY DEF GoodLedger
  <2> QED BY <1>1, <1>2, <2>1, TableEntry
<1>4. GoodLedger(m)
  BY <1>2, <1>3 DEF GoodLedger
<1>5. Paid(l, m, asset, who, -n)
  <2>1. -n \in Int /\ m.balance[asset][who] = l.balance[asset][who] + -n
    BY <1>1, <1>3
  <2> QED BY <1>2, <1>3, <1>4, <2>1, PaidEffect
<1> QED BY <1>2, <1>3, <1>4, <1>5 DEF m

\* move takes from one balance and adds to another.
LEMMA MoveEffect ==
    ASSUME NEW l, GoodLedger(l), NEW asset \in Asset, NEW from \in Account, NEW to \in Account,
           NEW n \in Nat, n <= l.balance[asset][from]
    PROVE  LET m == move(l, asset, from, to, n)
           IN  /\ GoodLedger(m) /\ m.held = l.held /\ m.ok = l.ok
               /\ from # to => m.balance[asset][from] = l.balance[asset][from] - n
               /\ \A a \in Asset, w \in Account :
                     a # asset \/ w \notin {from, to} => m.balance[a][w] = l.balance[a][w]
               /\ \E k : Paid(l, k, asset, from, -n) /\ Paid(k, m, asset, to, n)
<1> DEFINE k == withdraw(l, asset, from, n)
           m == deposit(k, asset, to, n)
<1>1. /\ GoodLedger(k) /\ k.held = l.held /\ k.ok = l.ok
      /\ k.balance[asset][from] = l.balance[asset][from] - n
      /\ \A a \in Asset, w \in Account :
            a # asset \/ w # from => k.balance[a][w] = l.balance[a][w]
      /\ Paid(l, k, asset, from, -n)
  BY WithdrawEffect
<1> HIDE DEF k
<1>2. /\ GoodLedger(m) /\ m.held = k.held /\ m.ok = k.ok
      /\ \A a \in Asset, w \in Account :
            a # asset \/ w # to => m.balance[a][w] = k.balance[a][w]
      /\ Paid(k, m, asset, to, n)
  BY <1>1, DepositEffect
<1> HIDE DEF m
<1>3. move(l, asset, from, to, n) = m
  BY DEF move, m, k
<1> QED BY <1>1, <1>2, <1>3

\* credit adds to what is held on another chain.
LEMMA CreditEffect ==
    ASSUME NEW l, GoodLedger(l), NEW asset \in Asset, NEW place \in Place, NEW n \in Nat
    PROVE  LET m == credit(l, asset, place, n)
           IN  /\ GoodLedger(m) /\ m.balance = l.balance /\ m.ok = l.ok
               /\ Credited(l, m, asset, place, n)
<1> DEFINE m == credit(l, asset, place, n)
           old == l.held[place][asset]
<1>1. old \in Nat
  BY DEF GoodLedger
<1>2. /\ m.held = [l.held EXCEPT ![place][asset] = old + n]
      /\ m.balance = l.balance /\ m.ok = l.ok
  BY DEF credit
<1> HIDE DEF m
<1>3. /\ m.held \in [Place -> [Asset -> Nat]]
      /\ m.held[place][asset] = old + n
      /\ \A p \in Place, a \in Asset :
            p # place \/ a # asset => m.held[p][a] = l.held[p][a]
  <2>1. old + n \in Nat /\ l.held \in [Place -> [Asset -> Nat]]
    BY <1>1 DEF GoodLedger
  <2> QED BY <1>2, <2>1, TableEntry
<1>4. GoodLedger(m)
  BY <1>2, <1>3 DEF GoodLedger
<1>5. Credited(l, m, asset, place, n)
  <2>1. n \in Int
    OBVIOUS
  <2> QED BY <1>2, <1>3, <1>4, <2>1, CreditedEffect
<1> QED BY <1>2, <1>4, <1>5 DEF m

\* debit takes from what is held on another chain.
LEMMA DebitEffect ==
    ASSUME NEW l, GoodLedger(l), NEW asset \in Asset, NEW place \in Place, NEW n \in Nat,
           n <= l.held[place][asset]
    PROVE  LET m == debit(l, asset, place, n)
           IN  /\ GoodLedger(m) /\ m.balance = l.balance /\ m.ok = l.ok
               /\ Credited(l, m, asset, place, -n)
<1> DEFINE m == debit(l, asset, place, n)
           old == l.held[place][asset]
<1>1. old \in Nat /\ old - n \in Nat
  BY DEF GoodLedger
<1>2. /\ m.held = [l.held EXCEPT ![place][asset] = old - n]
      /\ m.balance = l.balance /\ m.ok = l.ok
  BY DEF debit
<1> HIDE DEF m
<1>3. /\ m.held \in [Place -> [Asset -> Nat]]
      /\ m.held[place][asset] = old - n
      /\ \A p \in Place, a \in Asset :
            p # place \/ a # asset => m.held[p][a] = l.held[p][a]
  <2>1. l.held \in [Place -> [Asset -> Nat]]
    BY DEF GoodLedger
  <2> QED BY <1>1, <1>2, <2>1, TableEntry
<1>4. GoodLedger(m)
  BY <1>2, <1>3 DEF GoodLedger
<1>5. Credited(l, m, asset, place, -n)
  <2>1. -n \in Int /\ m.held[place][asset] = l.held[place][asset] + -n
    BY <1>1, <1>3
  <2> QED BY <1>2, <1>3, <1>4, <2>1, CreditedEffect
<1> QED BY <1>2, <1>4, <1>5 DEF m

\* A failure leaves the tables.
LEMMA FailedEffect ==
    ASSUME NEW l, GoodLedger(l)
    PROVE  LET m == failed(l)
           IN  GoodLedger(m) /\ m.balance = l.balance /\ m.held = l.held /\ ~m.ok
  BY DEF failed, GoodLedger

\* The measures look at the two tables only.
LEMMA SameMeasures ==
    ASSUME NEW l, NEW m, l.balance = m.balance, l.held = m.held
    PROVE  /\ \A asset : Worth(l, asset) = Worth(m, asset)
           /\ \A asset, place : Locked(l, place, asset) = Locked(m, place, asset)
           /\ LockedPHA(l) = LockedPHA(m)
           /\ GoodLedger(l) <=> GoodLedger(m)
  BY DEF Worth, Locked, LockedPHA, GoodLedger

-----------------------------------------------------------------------------
(* Steps between ledgers *)

\* An asset is worth at most n more than before, the others at most as much; nothing that is
\* locked is less than before.
Gains(l, m, asset, n) ==
    /\ GoodLedger(l) /\ GoodLedger(m)
    /\ \A a \in Asset : Worth(m, a) <= Worth(l, a) + (IF a = asset THEN n ELSE 0)
    /\ \A a \in Asset \ {PHA}, chain \in Chain :
          reserve_location(a) # SoloChain(chain) =>
              Locked(l, SoloChain(chain), a) <= Locked(m, SoloChain(chain), a)
    /\ LockedPHA(l) <= LockedPHA(m)
    /\ \A a \in Asset :
          is_native_asset_id(origin(a)) => Locked(l, SiblingChain, a) <= Locked(m, SiblingChain, a)

\* The measures that Gains compares are numbers.
LEMMA GainsNumbers ==
    ASSUME NEW l, GoodLedger(l)
    PROVE  /\ \A a \in Asset : Worth(l, a) \in Int
           /\ \A a \in Asset, chain \in Chain : Locked(l, SoloChain(chain), a) \in Int
           /\ \A a \in Asset : Locked(l, SiblingChain, a) \in Int
           /\ LockedPHA(l) \in Int
<1>1. \A a \in Asset : Worth(l, a) \in Nat
  BY Measures
<1>2. \A a \in Asset, place \in Place : Locked(l, place, a) \in Int
  BY Measures
<1>3. \A chain \in Chain : SoloChain(chain) \in Place
  BY Places
<1>4. SiblingChain \in Place
  BY Places
<1> QED BY <1>1, <1>2, <1>3, <1>4, Measures

\* Steps follow each other.
LEMMA GainsCompose ==
    ASSUME NEW l, NEW k, NEW m, NEW asset \in Asset, NEW i \in Int, NEW j \in Int,
           Gains(l, k, asset, i), Gains(k, m, asset, j)
    PROVE  Gains(l, m, asset, i + j)
<1>1. GoodLedger(l) /\ GoodLedger(k) /\ GoodLedger(m)
  BY DEF Gains
<1>2. ASSUME NEW a \in Asset
      PROVE  Worth(m, a) <= Worth(l, a) + (IF a = asset THEN i + j ELSE 0)
  <2>1. Worth(l, a) \in Int /\ Worth(k, a) \in Int /\ Worth(m, a) \in Int
    BY <1>1, GainsNumbers
  <2>2. /\ Worth(k, a) <= Worth(l, a) + (IF a = asset THEN i ELSE 0)
        /\ Worth(m, a) <= Worth(k, a) + (IF a = asset THEN j ELSE 0)
    BY DEF Gains
  <2> QED BY <2>1, <2>2
<1>3. ASSUME NEW a \in Asset \ {PHA}, NEW chain \in Chain, reserve_location(a) # SoloChain(chain)
      PROVE  Locked(l, SoloChain(chain), a) <= Locked(m, SoloChain(chain), a)
  <2>1. /\ Locked(l, SoloChain(chain), a) \in Int /\ Locked(k, SoloChain(chain), a) \in Int
        /\ Locked(m, SoloChain(chain), a) \in Int
    BY <1>1, GainsNumbers
  <2>2. /\ Locked(l, SoloChain(chain), a) <= Locked(k, SoloChain(chain), a)
        /\ Locked(k, SoloChain(chain), a) <= Locked(m, SoloChain(chain), a)
    BY <1>3 DEF Gains
  <2> QED BY <2>1, <2>2
<1>4. LockedPHA(l) <= LockedPHA(m)
  <2>1. LockedPHA(l) \in Int /\ LockedPHA(k) \in Int /\ LockedPHA(m) \in Int
    BY <1>1, GainsNumbers
  <2>2. LockedPHA(l) <= LockedPHA(k) /\ LockedPHA(k) <= LockedPHA(m)
    BY DEF Gains
  <2> QED BY <2>1, <2>2
<1>5. ASSUME NEW a \in Asset, is_native_asset_id(origin(a))
      PROVE  Locked(l, SiblingChain, a) <= Locked(m, SiblingChain, a)
  <2>1. /\ Locked(l, SiblingChain, a) \in Int /\ Locked(k, SiblingChain, a) \in Int
        /\ Locked(m, SiblingChain, a) \in Int
    BY <1>1, GainsNumbers
  <2>2. /\ Locked(l, SiblingChain, a) <= Locked(k, SiblingChain, a)
        /\ Locked(k, SiblingChain, a) <= Locked(m, SiblingChain, a)
    BY <1>5 DEF Gains
  <2> QED BY <2>1, <2>2
<1> QED BY <1>1, <1>2, <1>3, <1>4, <1>5 DEF Gains

\* A gain may be estimated too high, and a gain of nothing is one of any asset.
LEMMA GainsWeaken ==
    ASSUME NEW l, NEW m, NEW asset \in Asset, NEW i \in Int, Gains(l, m, asset, i)
    PROVE  /\ \A j \in Int : i <= j => Gains(l, m, asset, j)
           /\ \A other : i <= 0 => Gains(l, m, other, 0)
<1>1. GoodLedger(l) /\ GoodLedger(m)
  BY DEF Gains
<1>2. \A a \in Asset : Worth(l, a) \in Int /\ Worth(m, a) \in Int
  BY <1>1, GainsNumbers
<1>3. ASSUME NEW j \in Int, i <= j PROVE Gains(l, m, asset, j)
  <2>1. ASSUME NEW a \in Asset PROVE Worth(m, a) <= Worth(l, a) + (IF a = asset THEN j ELSE 0)
    <3>1. Worth(m, a) <= Worth(l, a) + (IF a = asset THEN i ELSE 0)
      BY DEF Gains
    <3> QED BY <1>2, <1>3, <3>1
  <2> QED BY <2>1 DEF Gains
<1>4. ASSUME NEW other, i <= 0 PROVE Gains(l, m, other, 0)
  <2>1. ASSUME NEW a \in Asset PROVE Worth(m, a) <= Worth(l, a) + (IF a = other THEN 0 ELSE 0)
    <3>1. Worth(m, a) <= Worth(l, a) + (IF a = asset THEN i ELSE 0)
      BY DEF Gains
    <3> QED BY <1>2, <1>4, <3>1
  <2> QED BY <2>1 DEF Gains
<1> QED BY <1>3, <1>4

\* The result flag of a ledger does not matter.
LEMMA GainsSame ==
    ASSUME NEW l, NEW m, NEW k, NEW asset, NEW i, Gains(l, m, asset, i),
           k.balance = m.balance, k.held = m.held
    PROVE  Gains(l, k, asset, i)
<1>1. /\ \A a : Worth(k, a) = Worth(m, a)
      /\ \A a, place : Locked(k, place, a) = Locked(m, place, a)
      /\ LockedPHA(k) = LockedPHA(m)
      /\ GoodLedger(k) <=> GoodLedger(m)
  BY SameMeasures
<1> QED BY <1>1 DEF Gains

\* Nothing is gained when nothing changes.
LEMMA GainsNothing ==
    ASSUME NEW l, GoodLedger(l), NEW asset
    PROVE  Gains(l, l, asset, 0)
<1>1. /\ \A a \in Asset : Worth(l, a) \in Int
      /\ \A a \in Asset, chain \in Chain : Locked(l, SoloChain(chain), a) \in Int
      /\ \A a \in Asset : Locked(l, SiblingChain, a) \in Int
      /\ LockedPHA(l) \in Int
  BY GainsNumbers
<1> QED BY <1>1 DEF Gains

\* A payment to an account is a gain.
LEMMA PaidGains ==
    ASSUME NEW l, NEW m, GoodLedger(l), GoodLedger(m), NEW asset \in Asset, NEW who \in Account,
           NEW n \in Int, Paid(l, m, asset, who, n),
           0 <= n \/ (who \notin Place /\ who # BridgeAccount)
    PROVE  Gains(l, m, asset, n)
<1>1. /\ \A a \in Asset : Worth(l, a) \in Int
      /\ \A a \in Asset, chain \in Chain : Locked(l, SoloChain(chain), a) \in Int
      /\ \A a \in Asset : Locked(l, SiblingChain, a) \in Int
      /\ LockedPHA(l) \in Int
  BY GainsNumbers
<1>2. \A chain \in Chain : SoloChain(chain) \in Place
  BY Places
<1>3. SiblingChain \in Place /\ SoloChains \subseteq Place
  BY Places
<1>4. ASSUME NEW a \in Asset PROVE Worth(m, a) <= Worth(l, a) + (IF a = asset THEN n ELSE 0)
  <2>1. Worth(m, a) = Worth(l, a) + (IF a = asset THEN n ELSE 0) /\ Worth(l, a) \in Int
    BY <1>1 DEF Paid
  <2> QED BY <2>1
<1>5. ASSUME NEW a \in Asset, NEW place \in Place, Locked(l, place, a) \in Int
      PROVE  Locked(l, place, a) <= Locked(m, place, a)
  <2>1. Locked(m, place, a) = Locked(l, place, a) + (IF a = asset /\ place = who THEN n ELSE 0)
    BY DEF Paid
  <2> QED BY <1>5, <2>1
<1>6. LockedPHA(l) <= LockedPHA(m)
  <2>1. LockedPHA(m) = LockedPHA(l)
           + (IF asset = PHA /\ (who \in SoloChains \/ who = BridgeAccount) THEN n ELSE 0)
    BY DEF Paid
  <2>2. who \in SoloChains \/ who = BridgeAccount => 0 <= n
    BY <1>3
  <2> QED BY <1>1, <2>1, <2>2
<1> QED BY <1>1, <1>2, <1>3, <1>4, <1>5, <1>6 DEF Gains

\* deposit and withdraw, as gains.
LEMMA DepositGains ==
    ASSUME NEW l, GoodLedger(l), NEW asset \in Asset, NEW who \in Account, NEW n \in Nat
    PROVE  Gains(l, deposit(l, asset, who, n), asset, n)
  BY DepositEffect, PaidGains

\* What a user or the temporary account pays is that much less of the asset, and nothing less that
\* is locked.
LEMMA WithdrawGains ==
    ASSUME NEW l, GoodLedger(l), NEW asset \in Asset, NEW who \in User \cup {Temporary},
           NEW n \in Nat, n <= l.balance[asset][who]
    PROVE  Gains(l, withdraw(l, asset, who, n), asset, -n)
<1>1. who \in Account /\ who \notin Place /\ who # BridgeAccount
  BY Payers
<1> DEFINE m == withdraw(l, asset, who, n)
<1>2. GoodLedger(m) /\ Paid(l, m, asset, who, -n)
  BY <1>1, WithdrawEffect
<1>3. -n \in Int
  OBVIOUS
<1> HIDE DEF m
<1>4. Gains(l, m, asset, -n)
  BY <1>1, <1>2, <1>3, PaidGains
<1> QED BY <1>4 DEF m

\* A payment to another account of this chain is no gain.
LEMMA MoveGains ==
    ASSUME NEW l, GoodLedger(l), NEW asset \in Asset, NEW who \in User \cup {Temporary},
           NEW to \in Account, NEW n \in Nat, n <= l.balance[asset][who]
    PROVE  Gains(l, move(l, asset, who, to, n), asset, 0)
<1> DEFINE k == withdraw(l, asset, who, n)
           m == deposit(k, asset, to, n)
<1>1. Gains(l, k, asset, -n)
  BY WithdrawGains
<1> HIDE DEF k
<1>2. GoodLedger(k)
  BY <1>1 DEF Gains
<1>3. Gains(k, m, asset, n)
  BY <1>2, DepositGains
<1> HIDE DEF m
<1>4. -n \in Int /\ -n + n = 0
  OBVIOUS
<1>5. Gains(l, m, asset, -n + n)
  BY <1>1, <1>3, <1>4, GainsCompose
<1>6. move(l, asset, who, to, n) = m
  BY DEF move, m, k
<1> QED BY <1>4, <1>5, <1>6

\* What comes into being at a place from which it is minted here, or at a place that has none
\* of it locked here.
LEMMA CreditGains ==
    ASSUME NEW l, GoodLedger(l), NEW asset \in Asset, NEW place \in Place, NEW n \in Nat,
           \/ place \in SoloChains /\ reserve_location(asset) = place
           \/ place = SiblingChain /\ ~is_native_asset_id(origin(asset))
    PROVE  Gains(l, credit(l, asset, place, n), asset, n)
<1> DEFINE m == credit(l, asset, place, n)
<1>1. GoodLedger(m) /\ Credited(l, m, asset, place, n)
  BY CreditEffect
<1> HIDE DEF m
<1>2. /\ \A a \in Asset : Worth(l, a) \in Int
      /\ \A a \in Asset, chain \in Chain : Locked(l, SoloChain(chain), a) \in Int
      /\ \A a \in Asset : Locked(l, SiblingChain, a) \in Int
      /\ LockedPHA(l) \in Int
  BY GainsNumbers
<1>3. SiblingChain \in Place /\ SiblingChain \notin SoloChains
  BY Places DEF SoloChains
<1>4. ASSUME NEW a \in Asset PROVE Worth(m, a) <= Worth(l, a) + (IF a = asset THEN n ELSE 0)
  <2>1. /\ Worth(m, a) = Worth(l, a) + (IF a = asset /\ MintsHere(place, asset) THEN n ELSE 0)
        /\ Worth(l, a) \in Int
    BY <1>1, <1>2 DEF Credited
  <2> QED BY <2>1
<1>5. ASSUME NEW a \in Asset, NEW p \in Place, Locked(l, p, a) \in Int, a # asset \/ p # place
      PROVE  Locked(l, p, a) <= Locked(m, p, a)
  <2>1. Locked(m, p, a) = Locked(l, p, a) - (IF a = asset /\ p = place THEN n ELSE 0)
    BY <1>1 DEF Credited
  <2> QED BY <1>5, <2>1
<1>6. LockedPHA(l) <= LockedPHA(m)
  <2>1. LockedPHA(m) = LockedPHA(l) - (IF asset = PHA /\ place \in SoloChains THEN n ELSE 0)
    BY <1>1 DEF Credited
  <2>2. ~ (asset = PHA /\ place \in SoloChains)
    BY <1>3, HomeOfPHA, Places
  <2> QED BY <1>2, <2>1, <2>2
<1>7. ASSUME NEW a \in Asset \ {PHA}, NEW chain \in Chain, reserve_location(a) # SoloChain(chain)
      PROVE  Locked(l, SoloChain(chain), a) <= Locked(m, SoloChain(chain), a)
  <2>1. SoloChain(chain) \in Place /\ SoloChain(chain) # SiblingChain
    BY Places
  <2>2. a # asset \/ SoloChain(chain) # place
    BY <1>7, <2>1
  <2> QED BY <1>2, <1>5, <2>1, <2>2
<1>8. ASSUME NEW a \in Asset, is_native_asset_id(origin(a))
      PROVE  Locked(l, SiblingChain, a) <= Locked(m, SiblingChain, a)
  <2>1. a # asset \/ SiblingChain # place
    BY <1>3, <1>8
  <2> QED BY <1>2, <1>3, <1>5, <2>1
<1>9. Gains(l, m, asset, n)
  BY <1>1, <1>4, <1>6, <1>7, <1>8 DEF Gains
<1> QED BY <1>9 DEF m

\* What comes into being on another chain after as much was locked here.
LEMMA LockGains ==
    ASSUME NEW l, GoodLedger(l), NEW asset \in Asset, NEW account \in Account, NEW place \in Place,
           NEW n \in Nat,
           \/ /\ place \in SoloChains /\ reserve_location(asset) # place
              /\ account = place \/ (asset = PHA /\ account = BridgeAccount)
           \/ place = SiblingChain /\ account = place /\ is_native_asset_id(origin(asset))
    PROVE  Gains(l, credit(deposit(l, asset, account, n), asset, place, n), asset, n)
<1> DEFINE k == deposit(l, asset, account, n)
           m == credit(k, asset, place, n)
<1>1. GoodLedger(k) /\ Paid(l, k, asset, account, n)
  BY DepositEffect
<1> HIDE DEF k
<1>2. GoodLedger(m) /\ Credited(k, m, asset, place, n)
  BY <1>1, CreditEffect
<1> HIDE DEF m
<1>3. /\ \A a \in Asset : Worth(l, a) \in Int
      /\ \A a \in Asset, chain \in Chain : Locked(l, SoloChain(chain), a) \in Int
      /\ \A a \in Asset : Locked(l, SiblingChain, a) \in Int
      /\ LockedPHA(l) \in Int
  BY GainsNumbers
<1>4. SiblingChain \in Place /\ SiblingChain \notin SoloChains
  BY Places DEF SoloChains
<1>5. ~MintsHere(place, asset)
  BY <1>4, NativeOrigin DEF MintsHere
<1>6. ASSUME NEW a \in Asset PROVE Worth(m, a) <= Worth(l, a) + (IF a = asset THEN n ELSE 0)
  <2>1. Worth(k, a) = Worth(l, a) + (IF a = asset THEN n ELSE 0) /\ Worth(l, a) \in Int
    BY <1>1, <1>3 DEF Paid
  <2>2. Worth(m, a) = Worth(k, a) + (IF a = asset /\ MintsHere(place, asset) THEN n ELSE 0)
    BY <1>2 DEF Credited
  <2> QED BY <1>5, <2>1, <2>2
<1>7. ASSUME NEW a \in Asset, NEW p \in Place, Locked(l, p, a) \in Int,
             a # asset \/ p # place \/ account = place
      PROVE  Locked(l, p, a) <= Locked(m, p, a)
  <2>1. Locked(k, p, a) = Locked(l, p, a) + (IF a = asset /\ p = account THEN n ELSE 0)
    BY <1>1 DEF Paid
  <2>2. Locked(m, p, a) = Locked(k, p, a) - (IF a = asset /\ p = place THEN n ELSE 0)
    BY <1>2 DEF Credited
  <2> QED BY <1>7, <2>1, <2>2
<1>8. LockedPHA(l) <= LockedPHA(m)
  <2>1. LockedPHA(k) = LockedPHA(l)
           + (IF asset = PHA /\ (account \in SoloChains \/ account = BridgeAccount) THEN n ELSE 0)
    BY <1>1 DEF Paid
  <2>2. LockedPHA(m) = LockedPHA(k) - (IF asset = PHA /\ place \in SoloChains THEN n ELSE 0)
    BY <1>2 DEF Credited
  <2> QED BY <1>3, <1>4, <2>1, <2>2
<1>9. ASSUME NEW a \in Asset \ {PHA}, NEW chain \in Chain
      PROVE  Locked(l, SoloChain(chain), a) <= Locked(m, SoloChain(chain), a)
  <2>1. SoloChain(chain) \in Place /\ SoloChain(chain) # SiblingChain
    BY Places
  <2> QED BY <1>3, <1>4, <1>7, <2>1
<1>10. ASSUME NEW a \in Asset
       PROVE  Locked(l, SiblingChain, a) <= Locked(m, SiblingChain, a)
  BY <1>3, <1>4, <1>7
<1>11. Gains(l, m, asset, n)
  BY <1>1, <1>2, <1>6, <1>8, <1>9, <1>10 DEF Gains
<1> QED BY <1>11 DEF m, k

-----------------------------------------------------------------------------
(* The transfers, step by step *)

\* Only the balances of one asset change.
Keeps(l, m, asset) == \A a \in Asset \ {asset} : m.balance[a] = l.balance[a]

\* The operations on a ledger change the balances of their asset only.
LEMMA OperationsKeep ==
    ASSUME NEW l, GoodLedger(l), NEW asset, NEW who, NEW to, NEW n
    PROVE  /\ Keeps(l, deposit(l, asset, who, n), asset)
           /\ Keeps(l, withdraw(l, asset, who, n), asset)
           /\ Keeps(l, move(l, asset, who, to, n), asset)
           /\ Keeps(l, credit(l, asset, who, n), asset)
           /\ Keeps(l, debit(l, asset, who, n), asset)
           /\ Keeps(l, failed(l), asset)
<1>1. \A b, v, w : [l.balance EXCEPT ![asset][w] = v] = b =>
         \A a \in Asset \ {asset} : b[a] = l.balance[a]
  BY DEF GoodLedger
<1>2. \A b, v, w, x : [[l.balance EXCEPT ![asset][w] = v] EXCEPT ![asset][to] = x] = b =>
         \A a \in Asset \ {asset} : b[a] = l.balance[a]
  BY DEF GoodLedger
<1>3. Keeps(l, deposit(l, asset, who, n), asset) /\ Keeps(l, withdraw(l, asset, who, n), asset)
  BY <1>1 DEF Keeps, deposit, withdraw
<1>4. Keeps(l, move(l, asset, who, to, n), asset)
  BY <1>2 DEF Keeps, move, deposit, withdraw
<1>5. /\ Keeps(l, credit(l, asset, who, n), asset) /\ Keeps(l, debit(l, asset, who, n), asset)
      /\ Keeps(l, failed(l), asset)
  BY DEF Keeps, credit, debit, failed
<1> QED BY <1>3, <1>4, <1>5

\* Steps that each keep the other balances keep them together.
LEMMA KeepsCompose ==
    ASSUME NEW l, NEW k, NEW m, NEW asset, Keeps(l, k, asset), Keeps(k, m, asset)
    PROVE  Keeps(l, m, asset)
  BY DEF Keeps

\* leave: what leaves by XCM is locked or burnt here before it comes into being there.
LEMMA LeaveGains ==
    ASSUME NEW l, GoodLedger(l), NEW asset \in Asset, NEW who \in User \cup {Temporary},
           NEW what \in {asset, PHA}, NEW n \in Nat, n <= l.balance[what][who],
           kind(asset, SiblingChain) # None
    PROVE  LET m == leave(l, who, asset, SiblingChain, what, n)
           IN  Gains(l, m, what, 0) /\ Keeps(l, m, what) /\ m.ok = l.ok
<1> DEFINE k == withdraw(l, what, who, n)
           lock == credit(deposit(k, what, SiblingChain, n), what, SiblingChain, n)
           burn == credit(k, what, SiblingChain, n)
           m == leave(l, who, asset, SiblingChain, what, n)
<1>0. /\ what \in Asset /\ SiblingChain \in Place /\ SiblingChain \in Account /\ who \in Account
      /\ -n \in Int /\ -n + n = 0 /\ -n <= 0
  BY HomeOfPHA, Places, Payers
<1>1. Gains(l, k, what, -n) /\ Keeps(l, k, what) /\ k.ok = l.ok
  <2>1. Gains(l, k, what, -n)
    BY <1>0, WithdrawGains
  <2>2. k.ok = l.ok
    BY DEF withdraw
  <2> QED BY <2>1, <2>2, OperationsKeep
<1>2. GoodLedger(k)
  BY <1>1 DEF Gains
<1>3. CASE kind(asset, SiblingChain) = "FromNative"
  <2>1. is_native_asset_id(origin(asset))
    BY <1>3 DEF kind
  <2>2. is_native_asset_id(origin(what))
    BY <2>1, HomeOfPHA
  <2> HIDE DEF k
  <2>3. Gains(k, lock, what, n)
    BY <1>0, <1>2, <2>2, LockGains
  <2>4. Keeps(k, lock, what) /\ lock.ok = k.ok
    <3>1. GoodLedger(deposit(k, what, SiblingChain, n))
      BY <1>0, <1>2, DepositEffect
    <3>2. lock.ok = k.ok
      BY DEF credit, deposit
    <3> QED BY <1>2, <3>1, <3>2, OperationsKeep, KeepsCompose
  <2>5. m = lock
    BY <1>3 DEF leave, move, k
  <2> HIDE DEF m, lock
  <2>6. Gains(l, lock, what, -n + n)
    BY <1>0, <1>1, <2>3, GainsCompose
  <2>7. Keeps(l, lock, what)
    BY <1>1, <2>4, KeepsCompose
  <2> QED BY <1>0, <1>1, <2>4, <2>5, <2>6, <2>7 DEF m
<1>4. CASE kind(asset, SiblingChain) # "FromNative" /\ what # asset
  <2>1. m = k
    BY <1>4 DEF leave
  <2> HIDE DEF k, m
  <2>2. Gains(l, k, what, 0)
    BY <1>0, <1>1, GainsWeaken
  <2> QED BY <1>1, <2>1, <2>2 DEF m
<1>5. CASE kind(asset, SiblingChain) # "FromNative" /\ what = asset
  <2>1. ~is_native_asset_id(origin(asset))
    BY <1>5 DEF kind
  <2> HIDE DEF k
  <2>2. Gains(k, burn, what, n)
    BY <1>0, <1>2, <1>5, <2>1, CreditGains
  <2>3. Keeps(k, burn, what) /\ burn.ok = k.ok
    BY <1>2, OperationsKeep DEF credit
  <2>4. m = burn
    BY <1>5 DEF leave, k
  <2> HIDE DEF m, burn
  <2>5. Gains(l, burn, what, -n + n)
    BY <1>0, <1>1, <2>2, GainsCompose
  <2>6. Keeps(l, burn, what)
    BY <1>1, <2>3, KeepsCompose
  <2> QED BY <1>0, <1>1, <2>3, <2>4, <2>5, <2>6 DEF m
<1> QED BY <1>3, <1>4, <1>5

\* do_transfer_multiasset: nothing is gained by an asset that leaves, and nothing but it and the
\* native asset moves; an asset that is not registered does not leave.
LEMMA MultiassetGains ==
    ASSUME NEW l, GoodLedger(l), NEW asset \in Asset, NEW who \in User \cup {Temporary},
           NEW n \in Nat
    PROVE  LET m == do_transfer_multiasset(l, who, asset, n, SiblingChain)
           IN  /\ Gains(l, m, asset, 0)
               /\ \A a \in Asset \ {PHA} :
                     a # asset \/ ~registered(a) => m.balance[a] = l.balance[a]
<1> DEFINE m == do_transfer_multiasset(l, who, asset, n, SiblingChain)
           fee == IF asset \in FeeAssets \/ is_native_asset_id(asset) THEN 0 ELSE DefaultFee
           goes == /\ kind(asset, SiblingChain) # None
                   /\ matches_fungibles(asset)
                   /\ l.balance[asset][who] >= n
                   /\ l.balance[PHA][who] >= fee
           k == leave(l, who, asset, SiblingChain, asset, n)
           p == leave(k, who, asset, SiblingChain, PHA, fee)
<1>1. m = IF goes THEN p ELSE failed(l)
  BY DEF do_transfer_multiasset
<1>2. fee \in Nat /\ (asset = PHA => fee = 0)
  BY AmountsAssumption, HomeOfPHA
<1>3. who \in Account /\ who # SiblingChain /\ PHA \in Asset
  BY Payers, Places, HomeOfPHA
<1> HIDE DEF m, fee
<1>4. CASE ~goes
  <2>1. m.balance = l.balance /\ m.held = l.held
    BY <1>1, <1>4, FailedEffect
  <2>2. Gains(l, m, asset, 0)
    BY <2>1, GainsNothing, GainsSame
  <2> QED BY <2>1, <2>2 DEF m
<1>5. CASE goes
  <2>1. n <= l.balance[asset][who] /\ l.balance[asset][who] \in Nat
    BY <1>3, <1>5 DEF GoodLedger
  <2>2. Gains(l, k, asset, 0) /\ Keeps(l, k, asset)
    BY <1>5, <2>1, LeaveGains
  <2>3. GoodLedger(k)
    BY <2>2 DEF Gains
  <2>4. fee <= k.balance[PHA][who]
    <3>1. CASE asset = PHA
      <4>1. k.balance[PHA][who] \in Nat
        BY <1>3, <2>3 DEF GoodLedger
      <4> QED BY <1>2, <3>1, <4>1
    <3>2. CASE asset # PHA
      <4>1. k.balance[PHA] = l.balance[PHA] /\ l.balance[PHA][who] \in Nat
        BY <1>3, <2>2, <3>2 DEF Keeps, GoodLedger
      <4> QED BY <1>2, <1>5, <4>1
    <3> QED BY <3>1, <3>2
  <2> HIDE DEF k
  <2>5. Gains(k, p, PHA, 0) /\ Keeps(k, p, PHA)
    BY <1>2, <1>5, <2>3, <2>4, LeaveGains
  <2> HIDE DEF p
  <2>6. Gains(k, p, asset, 0)
    BY <1>3, <2>5, GainsWeaken
  <2>7. Gains(l, p, asset, 0 + 0)
    BY <2>2, <2>6, GainsCompose
  <2>8. registered(asset) \/ asset = PHA
    BY <1>5, HomeOfPHA DEF matches_fungibles
  <2>9. \A a \in Asset \ {PHA} : a # asset \/ ~registered(a) => p.balance[a] = l.balance[a]
    BY <2>2, <2>5, <2>8 DEF Keeps
  <2>10. m = p
    BY <1>1, <1>5
  <2> QED BY <2>7, <2>9, <2>10 DEF m
<1> QED BY <1>4, <1>5

\* The ledger of a state has no debts.
LEMMA LedgerGood ==
    ASSUME TypeOK
    PROVE  GoodLedger(Ledger) /\ Ledger.balance = balance /\ Ledger.held = held
  BY DEF TypeOK, GoodLedger, Ledger

\* What comes from the sibling and was minted there is minted here.
LEMMA DebitGains ==
    ASSUME NEW l, GoodLedger(l), NEW asset \in Asset, NEW n \in Nat,
           n <= l.held[SiblingChain][asset], origin(asset) = SiblingChain
    PROVE  Gains(l, debit(l, asset, SiblingChain, n), asset, -n)
<1> DEFINE m == debit(l, asset, SiblingChain, n)
<1>0. SiblingChain \in Place /\ SiblingChain \notin SoloChains /\ MintsHere(SiblingChain, asset)
  BY Places DEF SoloChains, MintsHere
<1>1. GoodLedger(m) /\ Credited(l, m, asset, SiblingChain, -n)
  BY <1>0, DebitEffect
<1> HIDE DEF m
<1>2. /\ \A a \in Asset : Worth(l, a) \in Int
      /\ \A a \in Asset, chain \in Chain : Locked(l, SoloChain(chain), a) \in Int
      /\ \A a \in Asset : Locked(l, SiblingChain, a) \in Int
      /\ LockedPHA(l) \in Int
  BY GainsNumbers
<1>3. ASSUME NEW a \in Asset PROVE Worth(m, a) <= Worth(l, a) + (IF a = asset THEN -n ELSE 0)
  <2>1. /\ Worth(m, a) = Worth(l, a) + (IF a = asset /\ MintsHere(SiblingChain, asset) THEN -n ELSE 0)
        /\ Worth(l, a) \in Int
    BY <1>1, <1>2 DEF Credited
  <2> QED BY <1>0, <2>1
<1>4. ASSUME NEW a \in Asset, NEW p \in Place, Locked(l, p, a) \in Int
      PROVE  Locked(l, p, a) <= Locked(m, p, a)
  <2>1. Locked(m, p, a) = Locked(l, p, a) - (IF a = asset /\ p = SiblingChain THEN -n ELSE 0)
    BY <1>1 DEF Credited
  <2> QED BY <1>4, <2>1
<1>5. LockedPHA(l) <= LockedPHA(m)
  <2>1. LockedPHA(m) = LockedPHA(l) - (IF asset = PHA /\ SiblingChain \in SoloChains THEN -n ELSE 0)
    BY <1>1 DEF Credited
  <2> QED BY <1>0, <1>2, <2>1
<1>6. \A a \in Asset, chain \in Chain : Locked(l, SoloChain(chain), a) <= Locked(m, SoloChain(chain), a)
  BY <1>2, <1>4, Places
<1>7. \A a \in Asset : Locked(l, SiblingChain, a) <= Locked(m, SiblingChain, a)
  BY <1>0, <1>2, <1>4
<1>8. Gains(l, m, asset, -n)
  BY <1>1, <1>3, <1>5, <1>6, <1>7 DEF Gains
<1> QED BY <1>8 DEF m

\* What comes from the sibling and was locked here is released.
LEMMA ReleaseGains ==
    ASSUME NEW l, GoodLedger(l), NEW asset \in Asset, NEW n \in Nat,
           n <= l.held[SiblingChain][asset], n <= l.balance[asset][SiblingChain],
           origin(asset) # SiblingChain
    PROVE  Gains(l, withdraw(debit(l, asset, SiblingChain, n), asset, SiblingChain, n), asset, -n)
<1> DEFINE k == debit(l, asset, SiblingChain, n)
           m == withdraw(k, asset, SiblingChain, n)
<1>0. /\ SiblingChain \in Place /\ SiblingChain \notin SoloChains /\ ~MintsHere(SiblingChain, asset)
      /\ SiblingChain \in Account /\ SiblingChain # BridgeAccount
  BY Places, Payers DEF SoloChains, MintsHere
<1>1. GoodLedger(k) /\ Credited(l, k, asset, SiblingChain, -n) /\ k.balance = l.balance
  BY <1>0, DebitEffect
<1> HIDE DEF k
<1>2. GoodLedger(m) /\ Paid(k, m, asset, SiblingChain, -n)
  BY <1>0, <1>1, WithdrawEffect
<1> HIDE DEF m
<1>3. /\ \A a \in Asset : Worth(l, a) \in Int
      /\ \A a \in Asset, chain \in Chain : Locked(l, SoloChain(chain), a) \in Int
      /\ \A a \in Asset : Locked(l, SiblingChain, a) \in Int
      /\ LockedPHA(l) \in Int
  BY GainsNumbers
<1>4. ASSUME NEW a \in Asset PROVE Worth(m, a) <= Worth(l, a) + (IF a = asset THEN -n ELSE 0)
  <2>1. /\ Worth(k, a) = Worth(l, a) + (IF a = asset /\ MintsHere(SiblingChain, asset) THEN -n ELSE 0)
        /\ Worth(l, a) \in Int
    BY <1>1, <1>3 DEF Credited
  <2>2. Worth(m, a) = Worth(k, a) + (IF a = asset THEN -n ELSE 0)
    BY <1>2 DEF Paid
  <2> QED BY <1>0, <2>1, <2>2
<1>5. ASSUME NEW a \in Asset, NEW p \in Place, Locked(l, p, a) \in Int
      PROVE  Locked(l, p, a) <= Locked(m, p, a)
  <2>1. Locked(k, p, a) = Locked(l, p, a) - (IF a = asset /\ p = SiblingChain THEN -n ELSE 0)
    BY <1>1 DEF Credited
  <2>2. Locked(m, p, a) = Locked(k, p, a) + (IF a = asset /\ p = SiblingChain THEN -n ELSE 0)
    BY <1>2 DEF Paid
  <2> QED BY <1>5, <2>1, <2>2
<1>6. LockedPHA(l) <= LockedPHA(m)
  <2>1. LockedPHA(k) = LockedPHA(l) - (IF asset = PHA /\ SiblingChain \in SoloChains THEN -n ELSE 0)
    BY <1>1 DEF Credited
  <2>2. LockedPHA(m) = LockedPHA(k)
          + (IF asset = PHA /\ (SiblingChain \in SoloChains \/ SiblingChain = BridgeAccount)
             THEN -n ELSE 0)
    BY <1>2 DEF Paid
  <2> QED BY <1>0, <1>3, <2>1, <2>2
<1>7. \A a \in Asset, chain \in Chain : Locked(l, SoloChain(chain), a) <= Locked(m, SoloChain(chain), a)
  BY <1>3, <1>5, Places
<1>8. \A a \in Asset : Locked(l, SiblingChain, a) <= Locked(m, SiblingChain, a)
  BY <1>0, <1>3, <1>5
<1>9. Gains(l, m, asset, -n)
  BY <1>1, <1>2, <1>4, <1>6, <1>7, <1>8 DEF Gains
<1> QED BY <1>9 DEF m, k

\* What arrives from the sibling is taken there, but for the revenue.
LEMMA ReceivedGains ==
    ASSUME TypeOK, NEW asset \in Asset, NEW n \in Nat, MayReceive(asset, n)
    PROVE  /\ Gains(Ledger, Received(asset, n), asset, take_revenue(asset) - n)
           /\ Keeps(Ledger, Received(asset, n), asset)
           /\ take_revenue(asset) \in Nat /\ n - take_revenue(asset) \in Nat
<1> DEFINE l == Ledger
           r == take_revenue(asset)
           t == debit(l, asset, SiblingChain, n)
           u == withdraw(t, asset, SiblingChain, n)
           k == IF origin(asset) = SiblingChain THEN t ELSE u
           m == deposit(k, asset, Treasury, r)
<1>0. /\ GoodLedger(l) /\ l.balance = balance /\ l.held = held
      /\ SiblingChain \in Place /\ SiblingChain \in Account /\ Treasury \in Account
  BY LedgerGood, Places, Payers
<1> HIDE DEF l
<1>1. r \in Nat /\ n - r \in Nat
  BY AmountsAssumption DEF take_revenue, MayReceive
<1>2. n <= l.held[SiblingChain][asset]
  <2>1. l.held[SiblingChain][asset] \in Nat
    BY <1>0 DEF GoodLedger
  <2> QED BY <1>0, <2>1 DEF MayReceive
<1>3. Gains(l, k, asset, -n) /\ Keeps(l, k, asset)
  <2>1. CASE origin(asset) = SiblingChain
    <3>1. Gains(l, t, asset, -n)
      BY <1>0, <1>2, <2>1, DebitGains
    <3>2. Keeps(l, t, asset)
      BY <1>0, OperationsKeep
    <3> QED BY <2>1, <3>1, <3>2
  <2>2. CASE origin(asset) # SiblingChain
    <3>1. n <= l.balance[asset][SiblingChain]
      <4>1. l.balance[asset][SiblingChain] \in Nat
        BY <1>0 DEF GoodLedger
      <4> QED BY <1>0, <2>2, <4>1 DEF MayReceive
    <3>2. Gains(l, u, asset, -n)
      BY <1>0, <1>2, <2>2, <3>1, ReleaseGains
    <3>3. Keeps(l, t, asset) /\ GoodLedger(t)
      BY <1>0, <1>2, OperationsKeep, DebitEffect
    <3> HIDE DEF t
    <3>4. Keeps(t, u, asset)
      BY <3>3, OperationsKeep
    <3> HIDE DEF u
    <3>5. Keeps(l, u, asset)
      BY <3>3, <3>4, KeepsCompose
    <3> QED BY <2>2, <3>2, <3>5
  <2> QED BY <2>1, <2>2
<1>4. Received(asset, n) = m
  BY DEF Received, l
<1> HIDE DEF k, r
<1>5. GoodLedger(k)
  BY <1>3 DEF Gains
<1>6. Gains(k, m, asset, r) /\ Keeps(k, m, asset)
  BY <1>0, <1>1, <1>5, DepositGains, OperationsKeep
<1> HIDE DEF m
<1>7. -n \in Int /\ r \in Int /\ -n + r = r - n
  BY <1>1
<1>8. Gains(l, m, asset, -n + r)
  BY <1>3, <1>6, <1>7, GainsCompose
<1>9. Keeps(l, m, asset)
  BY <1>3, <1>6, KeepsCompose
<1> QED BY <1>1, <1>4, <1>7, <1>8, <1>9 DEF l, r

\* forward: what is forwarded to a bridged chain is burnt or locked here, but for the fee.
LEMMA ForwardGains ==
    ASSUME RegistryTypeOK, RegistryConsistent, TypeOK, NEW l, GoodLedger(l),
           NEW asset \in Asset, NEW n \in Nat, NEW chain \in Chain
    PROVE  LET m == forward(l, asset, n, chain)
           IN  Gains(l, m, asset, n) /\ Keeps(l, m, asset)
<1> DEFINE fee == get_fee(chain, asset, n)
           place == SoloChain(chain)
           home == reserve_location(asset) = place
           p == deposit(l, asset, Treasury, fee)
           d == deposit(p, asset, place, n - fee)
           r == IF home THEN p ELSE d
           c == credit(r, asset, place, n - fee)
           m == forward(l, asset, n, chain)
<1>0. place \in Place /\ place \in SoloChains /\ place \in Account /\ Treasury \in Account
  BY Places, Payers
<1>1. m = IF fee = None \/ n <= fee THEN failed(l)
          ELSE IF ~Bridge!chain_whitelisted(chain) THEN failed(r) ELSE c
  BY DEF forward
<1> HIDE DEF m
<1>2. fee # None => fee \in Nat
  BY Fees
<1> HIDE DEF fee, place
<1>3. CASE fee = None \/ n <= fee
  <2>1. m.balance = l.balance /\ m.held = l.held
    BY <1>1, <1>3, FailedEffect
  <2>2. Gains(l, m, asset, 0)
    BY <2>1, GainsNothing, GainsSame
  <2>3. Gains(l, m, asset, n)
    BY <2>2, GainsWeaken
  <2> QED BY <2>1, <2>3 DEF m, Keeps
<1>4. CASE fee # None /\ ~ (n <= fee)
  <2>1. fee \in Nat /\ n - fee \in Nat /\ fee + (n - fee) = n /\ fee <= n
    BY <1>2, <1>4
  <2>2. Gains(l, p, asset, fee) /\ Keeps(l, p, asset)
    BY <1>0, <2>1, DepositGains, OperationsKeep
  <2>3. GoodLedger(p)
    BY <2>2 DEF Gains
  <2> HIDE DEF p
  <2>4. Gains(p, d, asset, n - fee) /\ Keeps(p, d, asset)
    BY <1>0, <2>1, <2>3, DepositGains, OperationsKeep
  <2>5. GoodLedger(d)
    BY <2>4 DEF Gains
  <2>6. Gains(p, c, asset, n - fee) /\ Keeps(p, c, asset)
    <3>1. CASE home
      <4>1. c = credit(p, asset, place, n - fee)
        BY <3>1
      <4>2. Gains(p, credit(p, asset, place, n - fee), asset, n - fee)
        BY <1>0, <2>1, <2>3, <3>1, CreditGains
      <4>3. Keeps(p, credit(p, asset, place, n - fee), asset)
        BY <2>3, OperationsKeep
      <4> QED BY <4>1, <4>2, <4>3
    <3>2. CASE ~home
      <4>1. c = credit(d, asset, place, n - fee)
        BY <3>2
      <4>2. Gains(p, credit(d, asset, place, n - fee), asset, n - fee)
        BY <1>0, <2>1, <2>3, <3>2, LockGains
      <4>3. Keeps(d, credit(d, asset, place, n - fee), asset)
        BY <2>5, OperationsKeep
      <4> HIDE DEF c, d
      <4> QED BY <2>4, <4>1, <4>2, <4>3, KeepsCompose
    <3> QED BY <3>1, <3>2
  <2>7. Gains(p, r, asset, n - fee) /\ Keeps(p, r, asset)
    <3>1. CASE home
      <4>1. Gains(p, p, asset, 0)
        BY <2>3, GainsNothing
      <4>2. Gains(p, p, asset, n - fee) /\ Keeps(p, p, asset)
        BY <2>1, <4>1, GainsWeaken DEF Keeps
      <4> QED BY <3>1, <4>2
    <3>2. CASE ~home
      BY <2>4, <3>2
    <3> QED BY <3>1, <3>2
  <2> HIDE DEF c, r
  <2>8. Gains(l, c, asset, n) /\ Keeps(l, c, asset)
    <3>1. Gains(l, c, asset, fee + (n - fee))
      BY <2>1, <2>2, <2>6, GainsCompose
    <3> QED BY <2>1, <2>2, <2>6, <3>1, KeepsCompose
  <2>9. Gains(l, r, asset, n) /\ Keeps(l, r, asset)
    <3>1. Gains(l, r, asset, fee + (n - fee))
      BY <2>1, <2>2, <2>7, GainsCompose
    <3> QED BY <2>1, <2>2, <2>7, <3>1, KeepsCompose
  <2>10. CASE ~Bridge!chain_whitelisted(chain)
    <3>1. GoodLedger(r)
      BY <2>9 DEF Gains
    <3>2. m.balance = r.balance /\ m.held = r.held
      BY <1>1, <1>4, <2>10, <3>1, FailedEffect
    <3>3. Gains(l, m, asset, n) /\ Keeps(l, m, asset)
      BY <2>9, <3>2, GainsSame DEF Keeps
    <3> QED BY <3>3 DEF m
  <2>11. CASE Bridge!chain_whitelisted(chain)
    BY <1>1, <1>4, <2>8, <2>11 DEF m
  <2> QED BY <2>10, <2>11
<1> QED BY <1>3, <1>4

\* settle: what arrives is given to a user here, passed on, or lost.
LEMMA SettleGains ==
    ASSUME NEW l, GoodLedger(l), NEW asset \in Asset, NEW n \in Nat, NEW dest
    PROVE  LET m == settle(l, asset, n, dest)
           IN  /\ Gains(l, m, asset, n)
               /\ \A a \in Asset \ {PHA, asset} : m.balance[a] = l.balance[a]
<1> DEFINE m == settle(l, asset, n, dest)
           k == deposit(l, asset, Temporary, n)
           t == do_transfer_multiasset(k, Temporary, asset, n, SiblingChain)
<1>0. Temporary \in Account /\ Temporary \in User \cup {Temporary} /\ User \subseteq Account
      /\ SiblingChain \notin User
  BY Payers, Places
<1>1. CASE dest \in User
  <2>1. m = deposit(l, asset, dest, n)
    BY <1>0, <1>1 DEF settle
  <2>2. dest \in Account
    BY <1>0, <1>1
  <2>3. Gains(l, deposit(l, asset, dest, n), asset, n) /\ Keeps(l, deposit(l, asset, dest, n), asset)
    BY <2>2, DepositGains, OperationsKeep
  <2> HIDE DEF m
  <2>4. Gains(l, m, asset, n) /\ Keeps(l, m, asset)
    BY <2>1, <2>3
  <2> QED BY <2>4 DEF m, Keeps
<1>2. CASE dest = SiblingChain
  <2>1. m = t
    BY <1>0, <1>2 DEF settle
  <2>2. Gains(l, k, asset, n) /\ Keeps(l, k, asset)
    BY <1>0, DepositGains, OperationsKeep
  <2>3. GoodLedger(k)
    BY <2>2 DEF Gains
  <2> HIDE DEF k
  <2>4. /\ Gains(k, t, asset, 0)
        /\ \A a \in Asset \ {PHA} : a # asset \/ ~registered(a) => t.balance[a] = k.balance[a]
    BY <1>0, <2>3, MultiassetGains
  <2> HIDE DEF t, m
  <2>5. Gains(l, t, asset, n + 0)
    BY <2>2, <2>4, GainsCompose
  <2>6. n + 0 = n
    OBVIOUS
  <2> QED BY <2>1, <2>2, <2>4, <2>5, <2>6 DEF m, Keeps
<1>3. CASE dest \notin User /\ dest # SiblingChain
  <2>1. m = failed(l)
    BY <1>3 DEF settle
  <2> HIDE DEF m
  <2>2. m.balance = l.balance /\ m.held = l.held
    BY <2>1, FailedEffect
  <2>3. Gains(l, m, asset, 0)
    BY <2>2, GainsNothing, GainsSame
  <2>4. Gains(l, m, asset, n)
    BY <2>3, GainsWeaken
  <2> QED BY <2>2, <2>4 DEF m
<1> QED BY <1>1, <1>2, <1>3

\* An executed proposal gives at most what was deposited: mints it if the chain is the home of the
\* asset, or takes it from where it was locked.
Pays(l, m, chain, asset, n) ==
    /\ GoodLedger(l) /\ GoodLedger(m)
    /\ \A a \in Asset :
          Worth(m, a) <= Worth(l, a)
             + (IF a = asset /\ SoloChain(chain) = reserve_location(asset) THEN n ELSE 0)
    /\ \A a \in Asset \ {PHA}, c \in Chain :
          reserve_location(a) # SoloChain(c) =>
              Locked(l, SoloChain(c), a) - (IF a = asset /\ c = chain THEN n ELSE 0)
                 <= Locked(m, SoloChain(c), a)
    /\ LockedPHA(l) - (IF asset = PHA THEN n ELSE 0) <= LockedPHA(m)
    /\ \A a \in Asset :
          is_native_asset_id(origin(a)) => Locked(l, SiblingChain, a) <= Locked(m, SiblingChain, a)

\* The call of a proposal (transfer of the bridge transfer pallet) pays what was deposited, whether
\* it succeeds or leaves what it did before an error, and moves no asset that is not registered.
LEMMA TransferPays ==
    ASSUME TypeOK, NEW chain \in Chain, NEW call \in Proposal
    PROVE  LET m == transfer(chain, call)
           IN  /\ Pays(Ledger, m, chain, call.asset, call.amount)
               /\ \A a \in Asset \ {PHA} : ~registered(a) => m.balance[a] = balance[a]
<1> DEFINE l == Ledger
           asset == call.asset
           n == call.amount
           place == SoloChain(chain)
           from == IF asset = PHA THEN BridgeAccount ELSE place
           returns == reserve_location(asset) # place
           refused == \/ asset # PHA /\ (lookup_by_resource_id(into_rid(asset, chain)) = None
                                         \/ ~registered(asset))
                      \/ returns /\ balance[asset][from] < n
           k == IF returns THEN withdraw(l, asset, from, n) ELSE l
           s == settle(k, asset, n, call.dest)
           m == transfer(chain, call)
<1>0. /\ asset \in Asset /\ n \in Nat
      /\ place \in Place /\ place \in Account /\ from \in Account
      /\ GoodLedger(l) /\ l.balance = balance /\ l.held = held
      /\ asset = PHA => returns
  BY AmountsAssumption, Places, Payers, HomeOfPHA, LedgerGood DEF Proposal
<1>1. m = IF refused THEN failed(l) ELSE s
  BY DEF transfer
<1> HIDE DEF m, l
<1>2. /\ \A a \in Asset : Worth(l, a) \in Int
      /\ \A a \in Asset, c \in Chain : Locked(l, SoloChain(c), a) \in Int
      /\ \A a \in Asset : Locked(l, SiblingChain, a) \in Int
      /\ LockedPHA(l) \in Int
  BY <1>0, GainsNumbers
<1> HIDE DEF asset, n, place
<1>3. CASE refused
  <2>1. m.balance = l.balance /\ m.held = l.held
    BY <1>0, <1>1, <1>3, FailedEffect
  <2>2. Gains(l, m, asset, 0)
    BY <1>0, <2>1, GainsNothing, GainsSame
  <2>3. Pays(l, m, chain, asset, n)
    <3>1. ASSUME NEW a \in Asset
          PROVE  Worth(m, a) <= Worth(l, a)
                   + (IF a = asset /\ SoloChain(chain) = reserve_location(asset) THEN n ELSE 0)
      <4>1. Worth(m, a) = Worth(l, a) /\ Worth(l, a) \in Int
        BY <1>2, <2>1, SameMeasures
      <4> QED BY <1>0, <4>1
    <3>2. ASSUME NEW a \in Asset, NEW c \in Chain
          PROVE  Locked(l, SoloChain(c), a) - (IF a = asset /\ c = chain THEN n ELSE 0)
                   <= Locked(m, SoloChain(c), a)
      <4>1. Locked(m, SoloChain(c), a) = Locked(l, SoloChain(c), a)
            /\ Locked(l, SoloChain(c), a) \in Int
        BY <1>2, <2>1, SameMeasures
      <4> QED BY <1>0, <4>1
    <3>3. LockedPHA(l) - (IF asset = PHA THEN n ELSE 0) <= LockedPHA(m)
      <4>1. LockedPHA(m) = LockedPHA(l)
        BY <2>1, SameMeasures
      <4> QED BY <1>0, <1>2, <4>1
    <3> QED BY <2>2, <3>1, <3>2, <3>3 DEF Pays, Gains
  <2> QED BY <1>0, <2>1, <2>3 DEF m, l, asset, n
<1>4. CASE ~refused
  <2>1. registered(asset) \/ asset = PHA
    BY <1>4
  <2>2. GoodLedger(k) /\ \A a \in Asset \ {asset} : k.balance[a] = l.balance[a]
    <3>1. CASE returns
      <4>1. n <= l.balance[asset][from]
        <5>1. l.balance[asset][from] \in Nat
          BY <1>0 DEF GoodLedger
        <5> QED BY <1>0, <1>4, <3>1, <5>1
      <4>2. GoodLedger(withdraw(l, asset, from, n)) /\ Keeps(l, withdraw(l, asset, from, n), asset)
        BY <1>0, <4>1, WithdrawEffect, OperationsKeep
      <4> QED BY <3>1, <4>2 DEF Keeps
    <3>2. CASE ~returns
      BY <1>0, <3>2
    <3> QED BY <3>1, <3>2
  <2>3. /\ Gains(k, s, asset, n)
        /\ \A a \in Asset \ {PHA, asset} : s.balance[a] = k.balance[a]
    <3> HIDE DEF k
    <3> QED BY <1>0, <2>2, SettleGains
  <2>4. m = s
    BY <1>1, <1>4
  <2>5. \A a \in Asset \ {PHA} : ~registered(a) => m.balance[a] = l.balance[a]
    BY <2>1, <2>2, <2>3, <2>4
  <2>6. Pays(l, s, chain, asset, n)
    <3>1. CASE ~returns
      <4>1. k = l /\ SoloChain(chain) = reserve_location(asset) /\ asset # PHA
        BY <1>0, <3>1 DEF place
      <4> HIDE DEF k, s
      <4>2. Gains(l, s, asset, n)
        BY <2>3, <4>1
      <4>3. ASSUME NEW a \in Asset, NEW c \in Chain,
                   Locked(l, SoloChain(c), a) <= Locked(s, SoloChain(c), a)
            PROVE  Locked(l, SoloChain(c), a) - (IF a = asset /\ c = chain THEN n ELSE 0)
                     <= Locked(s, SoloChain(c), a)
        <5>1. Locked(l, SoloChain(c), a) \in Int /\ Locked(s, SoloChain(c), a) \in Int
          BY <4>2, GainsNumbers DEF Gains
        <5> QED BY <1>0, <4>3, <5>1
      <4>4. LockedPHA(l) - (IF asset = PHA THEN n ELSE 0) <= LockedPHA(s)
        <5>1. LockedPHA(l) <= LockedPHA(s) /\ LockedPHA(l) \in Int /\ LockedPHA(s) \in Int
          BY <4>2, GainsNumbers DEF Gains
        <5> QED BY <4>1, <5>1
      <4> QED BY <4>1, <4>2, <4>3, <4>4 DEF Pays, Gains
    <3>2. CASE returns
      <4>1. n <= l.balance[asset][from]
        <5>1. l.balance[asset][from] \in Nat
          BY <1>0 DEF GoodLedger
        <5> QED BY <1>0, <1>4, <3>2, <5>1
      <4>2. k = withdraw(l, asset, from, n)
        BY <3>2
      <4> HIDE DEF k, s
      <4>3. Paid(l, k, asset, from, -n)
        BY <1>0, <4>1, <4>2, WithdrawEffect
      <4>4. /\ \A a \in Asset : Worth(k, a) \in Int /\ Worth(s, a) \in Int
            /\ \A a \in Asset, c \in Chain : /\ Locked(k, SoloChain(c), a) \in Int
                                             /\ Locked(s, SoloChain(c), a) \in Int
            /\ \A a \in Asset : Locked(k, SiblingChain, a) \in Int /\ Locked(s, SiblingChain, a) \in Int
            /\ LockedPHA(k) \in Int /\ LockedPHA(s) \in Int
            /\ GoodLedger(s)
        <5>1. GoodLedger(s)
          BY <2>3 DEF Gains
        <5>2. /\ \A a \in Asset : Worth(k, a) \in Int
              /\ \A a \in Asset, c \in Chain : Locked(k, SoloChain(c), a) \in Int
              /\ \A a \in Asset : Locked(k, SiblingChain, a) \in Int
              /\ LockedPHA(k) \in Int
          BY <2>2, GainsNumbers
        <5>3. /\ \A a \in Asset : Worth(s, a) \in Int
              /\ \A a \in Asset, c \in Chain : Locked(s, SoloChain(c), a) \in Int
              /\ \A a \in Asset : Locked(s, SiblingChain, a) \in Int
              /\ LockedPHA(s) \in Int
          BY <5>1, GainsNumbers
        <5> QED BY <5>1, <5>2, <5>3
      <4>5. ASSUME NEW a \in Asset
            PROVE  Worth(s, a) <= Worth(l, a)
                     + (IF a = asset /\ SoloChain(chain) = reserve_location(asset) THEN n ELSE 0)
        <5>1. Worth(k, a) = Worth(l, a) + (IF a = asset THEN -n ELSE 0)
          BY <4>3 DEF Paid
        <5>2. Worth(s, a) <= Worth(k, a) + (IF a = asset THEN n ELSE 0)
          BY <2>3 DEF Gains
        <5>3. Worth(l, a) \in Int /\ Worth(k, a) \in Int /\ Worth(s, a) \in Int
          BY <1>2, <4>4
        <5>4. SoloChain(chain) # reserve_location(asset)
          BY <3>2 DEF place
        <5> QED BY <1>0, <5>1, <5>2, <5>3, <5>4
      <4>6. ASSUME NEW a \in Asset \ {PHA}, NEW c \in Chain, reserve_location(a) # SoloChain(c)
            PROVE  Locked(l, SoloChain(c), a) - (IF a = asset /\ c = chain THEN n ELSE 0)
                     <= Locked(s, SoloChain(c), a)
        <5>1. Locked(k, SoloChain(c), a)
                = Locked(l, SoloChain(c), a) + (IF a = asset /\ SoloChain(c) = from THEN -n ELSE 0)
          BY <4>3, Places DEF Paid
        <5>2. Locked(k, SoloChain(c), a) <= Locked(s, SoloChain(c), a)
          BY <2>3, <4>6 DEF Gains
        <5>3. /\ Locked(l, SoloChain(c), a) \in Int /\ Locked(k, SoloChain(c), a) \in Int
              /\ Locked(s, SoloChain(c), a) \in Int
          BY <1>2, <4>4
        <5>4. a = asset /\ SoloChain(c) = from => c = chain
          BY Places DEF place
        <5> HIDE DEF from
        <5> QED BY <1>0, <5>1, <5>2, <5>3, <5>4
      <4>7. LockedPHA(l) - (IF asset = PHA THEN n ELSE 0) <= LockedPHA(s)
        <5>1. LockedPHA(k) = LockedPHA(l)
                + (IF asset = PHA /\ (from \in SoloChains \/ from = BridgeAccount) THEN -n ELSE 0)
          BY <4>3 DEF Paid
        <5>2. LockedPHA(k) <= LockedPHA(s)
          BY <2>3 DEF Gains
        <5> HIDE DEF from
        <5> QED BY <1>0, <1>2, <4>4, <5>1, <5>2
      <4>8. ASSUME NEW a \in Asset, is_native_asset_id(origin(a))
            PROVE  Locked(l, SiblingChain, a) <= Locked(s, SiblingChain, a)
        <5>1. SiblingChain # from /\ SiblingChain \in Place
          BY Places, Payers DEF place
        <5>2. Locked(k, SiblingChain, a) = Locked(l, SiblingChain, a)
                + (IF a = asset /\ SiblingChain = from THEN -n ELSE 0)
          BY <4>3, <5>1 DEF Paid
        <5>3. Locked(k, SiblingChain, a) <= Locked(s, SiblingChain, a)
          BY <2>3, <4>8 DEF Gains
        <5>4. Locked(l, SiblingChain, a) \in Int
          BY <1>2
        <5> HIDE DEF from
        <5> QED BY <5>1, <5>2, <5>3, <5>4
      <4> QED BY <1>0, <4>4, <4>5, <4>6, <4>7, <4>8 DEF Pays
    <3> QED BY <3>1, <3>2
  <2> QED BY <1>0, <2>4, <2>5, <2>6 DEF m, l, asset, n
<1> QED BY <1>3, <1>4

-----------------------------------------------------------------------------
(* What is on its way *)

Waiting(chain, asset) ==
    {call \in deposits[chain] : call.asset = asset /\ dispatched[chain][call] = 0}

\* The proposals that wait are finitely many, of natural amounts.
LEMMA WaitingFinite ==
    ASSUME TypeOK, ExecutedOnceDeposited, NEW chain \in Chain, NEW asset \in Asset
    PROVE  /\ IsFiniteSet(Waiting(chain, asset)) /\ Waiting(chain, asset) \subseteq Proposal
           /\ Pending(chain, asset) = SumFunctionOnSet(amount_of, Waiting(chain, asset))
           /\ Pending(chain, asset) \in Nat
           /\ \A call \in Proposal : amount_of[call] = call.amount /\ amount_of[call] \in Nat
<1>1. \A call \in Proposal : amount_of[call] = call.amount /\ amount_of[call] \in Nat
  BY AmountsAssumption DEF amount_of, Proposal
<1>2. deposits[chain] \subseteq Proposal /\ IsFiniteSet(deposits[chain])
  BY DEF TypeOK, ExecutedOnceDeposited
<1>3. Waiting(chain, asset) \subseteq deposits[chain]
  BY DEF Waiting
<1>4. IsFiniteSet(Waiting(chain, asset)) /\ Waiting(chain, asset) \subseteq Proposal
  BY <1>2, <1>3, FS_Subset
<1>5. Pending(chain, asset) = SumFunctionOnSet(amount_of, Waiting(chain, asset))
  BY DEF Pending, Sum, Waiting
<1>6. \A call \in Waiting(chain, asset) : amount_of[call] \in Nat
  BY <1>1, <1>4
<1>7. SumFunctionOnSet(amount_of, Waiting(chain, asset)) \in Nat
  BY <1>4, <1>6, SumNat
<1> QED BY <1>1, <1>4, <1>5, <1>7

\* A step adds d of an asset to what is on its way from a chain.
PendingChanges(chain, asset, d) ==
    \A c \in Chain, a \in Asset :
        Pending(c, a)' = Pending(c, a) + (IF c = chain /\ a = asset THEN d ELSE 0)

\* The same of an amount of one asset, which is none when there is no chain.
Moves(chain, asset, d) ==
    /\ asset \in Asset /\ d \in Int
    /\ chain \in Chain \/ d = 0
    /\ PendingChanges(chain, asset, d)

\* A proposal that was executed does not wait any more.
LEMMA PendingExecuted ==
    ASSUME TypeOK, ExecutedOnceDeposited, NEW chain \in Chain, NEW call \in deposits[chain],
           dispatched[chain][call] = 0,
           dispatched' = [dispatched EXCEPT ![chain][call] = 1], deposits' = deposits
    PROVE  PendingChanges(chain, call.asset, - call.amount)
<1> SUFFICES ASSUME NEW c \in Chain, NEW a \in Asset
             PROVE  Pending(c, a)'
                      = Pending(c, a) + (IF c = chain /\ a = call.asset THEN - call.amount ELSE 0)
  BY DEF PendingChanges
<1>0. call \in Proposal /\ dispatched \in [Chain -> [Proposal -> Nat]] /\ deposits[c] \subseteq Proposal
  BY DEF TypeOK, ExecutedOnceDeposited
<1>1. Pending(c, a)' = SumFunctionOnSet(amount_of, Waiting(c, a)')
  BY DEF Pending, Sum, Waiting
<1>2. /\ IsFiniteSet(Waiting(c, a)) /\ Waiting(c, a) \subseteq Proposal
      /\ Pending(c, a) = SumFunctionOnSet(amount_of, Waiting(c, a)) /\ Pending(c, a) \in Nat
      /\ \A x \in Proposal : amount_of[x] = x.amount /\ amount_of[x] \in Nat
  BY WaitingFinite
<1>3. CASE c = chain /\ a = call.asset
  <2>1. call \in Waiting(c, a)
    BY <1>3 DEF Waiting
  <2>2. Waiting(c, a)' = Waiting(c, a) \ {call}
    BY <1>0, <1>3 DEF Waiting
  <2>3. \A x \in Waiting(c, a) : amount_of[x] \in Int
    BY <1>2
  <2>4. SumFunctionOnSet(amount_of, Waiting(c, a))
          = amount_of[call] + SumFunctionOnSet(amount_of, Waiting(c, a) \ {call})
    BY <1>2, <2>1, <2>3, SumElement
  <2>5. SumFunctionOnSet(amount_of, Waiting(c, a) \ {call}) \in Nat
    <3>1. IsFiniteSet(Waiting(c, a) \ {call})
      BY <1>2, FS_Subset
    <3>2. \A x \in Waiting(c, a) \ {call} : amount_of[x] \in Nat
      BY <1>2
    <3> QED BY <3>1, <3>2, SumNat
  <2>6. amount_of[call] = call.amount /\ call.amount \in Nat
    BY <1>0, <1>2
  <2> QED BY <1>1, <1>2, <1>3, <2>2, <2>4, <2>5, <2>6
<1>4. CASE ~ (c = chain /\ a = call.asset)
  <2>1. Waiting(c, a)' = Waiting(c, a)
    BY <1>0, <1>4 DEF Waiting
  <2> QED BY <1>1, <1>2, <1>4, <2>1
<1> QED BY <1>3, <1>4

\* A new deposit waits.
LEMMA PendingDeposited ==
    ASSUME TypeOK, ExecutedOnceDeposited, NEW chain \in Chain, NEW call \in Proposal,
           call \notin deposits[chain],
           deposits' = [deposits EXCEPT ![chain] = @ \cup {call}], dispatched' = dispatched
    PROVE  PendingChanges(chain, call.asset, call.amount)
<1> SUFFICES ASSUME NEW c \in Chain, NEW a \in Asset
             PROVE  Pending(c, a)'
                      = Pending(c, a) + (IF c = chain /\ a = call.asset THEN call.amount ELSE 0)
  BY DEF PendingChanges
<1>0. /\ dispatched[chain][call] = 0
      /\ deposits'[c] = IF c = chain THEN deposits[c] \cup {call} ELSE deposits[c]
  BY DEF TypeOK, ExecutedOnceDeposited
<1>1. Pending(c, a)' = SumFunctionOnSet(amount_of, Waiting(c, a)')
  BY DEF Pending, Sum, Waiting
<1>2. /\ IsFiniteSet(Waiting(c, a)) /\ Waiting(c, a) \subseteq Proposal
      /\ Pending(c, a) = SumFunctionOnSet(amount_of, Waiting(c, a)) /\ Pending(c, a) \in Nat
      /\ \A x \in Proposal : amount_of[x] = x.amount /\ amount_of[x] \in Nat
  BY WaitingFinite
<1>3. CASE c = chain /\ a = call.asset
  <2>1. call \notin Waiting(c, a)
    BY <1>3 DEF Waiting
  <2>2. Waiting(c, a)' = Waiting(c, a) \cup {call}
    BY <1>0, <1>3 DEF Waiting
  <2>3. \A x \in Waiting(c, a) \cup {call} : amount_of[x] \in Int
    BY <1>2
  <2>4. SumFunctionOnSet(amount_of, Waiting(c, a) \cup {call})
          = SumFunctionOnSet(amount_of, Waiting(c, a)) + amount_of[call]
    BY <1>2, <2>1, <2>3, SumAdd
  <2> QED BY <1>1, <1>2, <1>3, <2>2, <2>4
<1>4. CASE ~ (c = chain /\ a = call.asset)
  <2>1. Waiting(c, a)' = Waiting(c, a)
    BY <1>0, <1>4 DEF Waiting
  <2> QED BY <1>1, <1>2, <1>4, <2>1
<1> QED BY <1>3, <1>4

\* Otherwise what is on its way stays on its way.
LEMMA PendingSame ==
    ASSUME TypeOK, ExecutedOnceDeposited, NEW chain, NEW asset,
           dispatched' = dispatched, deposits' = deposits
    PROVE  PendingChanges(chain, asset, 0)
<1> SUFFICES ASSUME NEW c \in Chain, NEW a \in Asset
             PROVE  Pending(c, a)' = Pending(c, a) + (IF c = chain /\ a = asset THEN 0 ELSE 0)
  BY DEF PendingChanges
<1>1. Pending(c, a)' = Pending(c, a)
  BY DEF Pending
<1>2. Pending(c, a) \in Nat
  BY WaitingFinite
<1> QED BY <1>1, <1>2

\* The same for the sums over the chains.
LEMMA PendingSums ==
    ASSUME TypeOK, ExecutedOnceDeposited, NEW chain, NEW asset, NEW d, Moves(chain, asset, d)
    PROVE  /\ \A a \in Asset :
                /\ FromHome(a) \in Nat
                /\ FromHome(a)' = FromHome(a)
                     + (IF a = asset /\ SoloChain(chain) = reserve_location(asset) THEN d ELSE 0)
           /\ Sum([c \in Chain |-> Pending(c, PHA)], Chain) \in Nat
           /\ Sum([c \in Chain |-> Pending(c, PHA)], Chain)'
                = Sum([c \in Chain |-> Pending(c, PHA)], Chain) + (IF asset = PHA THEN d ELSE 0)
<1>0. IsFiniteSet(Chain) /\ PHA \in Asset
  BY FiniteAccounts, HomeOfPHA
<1> asset \in Asset /\ d \in Int /\ (chain \in Chain \/ d = 0) /\ PendingChanges(chain, asset, d)
  BY DEF Moves
<1>1. ASSUME NEW f, NEW g, \A c \in Chain : f[c] \in Nat, NEW e \in Int, e = 0 \/ chain \in Chain,
             \A c \in Chain : g[c] = f[c] + (IF c = chain THEN e ELSE 0)
      PROVE  /\ SumFunctionOnSet(f, Chain) \in Nat
             /\ SumFunctionOnSet(g, Chain) = SumFunctionOnSet(f, Chain) + e
  <2>1. SumFunctionOnSet(f, Chain) \in Nat
    BY <1>0, <1>1, SumNat
  <2>2. \A c \in Chain : f[c] \in Int /\ g[c] \in Int
    BY <1>1
  <2>3. CASE e = 0
    <3>1. \A c \in Chain : f[c] \in Int /\ f[c] = g[c]
      BY <1>1, <2>3
    <3>2. SumFunctionOnSet(f, Chain) = SumFunctionOnSet(g, Chain)
      BY <1>0, <3>1, SumSame
    <3> QED BY <2>1, <2>3, <3>2
  <2>4. CASE e # 0
    <3>1. chain \in Chain /\ \A c \in Chain \ {chain} : g[c] = f[c]
      BY <1>1, <2>2, <2>4
    <3>2. SumFunctionOnSet(g, Chain) = SumFunctionOnSet(f, Chain) + g[chain] - f[chain]
      BY <1>0, <2>2, <3>1, SumChange
    <3>3. g[chain] = f[chain] + e /\ f[chain] \in Nat
      BY <1>1, <3>1
    <3> QED BY <2>1, <3>2, <3>3
  <2> QED BY <2>1, <2>3, <2>4
<1>2. \A c \in Chain, a \in Asset : Pending(c, a) \in Nat
  BY WaitingFinite
<1>3. ASSUME NEW a \in Asset
      PROVE  /\ FromHome(a) \in Nat
             /\ FromHome(a)' = FromHome(a)
                  + (IF a = asset /\ SoloChain(chain) = reserve_location(asset) THEN d ELSE 0)
  <2> DEFINE home(c) == SoloChain(c) = reserve_location(a)
             f == [c \in Chain |-> IF home(c) THEN Pending(c, a) ELSE 0]
             g == [c \in Chain |-> IF home(c) THEN Pending(c, a)' ELSE 0]
             e == IF a = asset /\ SoloChain(chain) = reserve_location(asset) THEN d ELSE 0
  <2>1. FromHome(a) = SumFunctionOnSet(f, Chain) /\ FromHome(a)' = SumFunctionOnSet(g, Chain)
    BY DEF FromHome, Sum
  <2>2. \A c \in Chain : f[c] \in Nat
    BY <1>2
  <2>3. ASSUME NEW c \in Chain PROVE g[c] = f[c] + (IF c = chain THEN e ELSE 0)
    <3>1. Pending(c, a)' = Pending(c, a) + (IF c = chain /\ a = asset THEN d ELSE 0)
      BY DEF PendingChanges
    <3>2. Pending(c, a) \in Nat
      BY <1>2
    <3> QED BY <3>1, <3>2
  <2>4. e \in Int /\ (e = 0 \/ chain \in Chain)
    OBVIOUS
  <2> HIDE DEF f, g, e
  <2>5. /\ SumFunctionOnSet(f, Chain) \in Nat
        /\ SumFunctionOnSet(g, Chain) = SumFunctionOnSet(f, Chain) + e
    BY <1>1, <2>2, <2>3, <2>4
  <2> QED BY <2>1, <2>5 DEF e
<1>4. /\ Sum([c \in Chain |-> Pending(c, PHA)], Chain) \in Nat
      /\ Sum([c \in Chain |-> Pending(c, PHA)], Chain)'
           = Sum([c \in Chain |-> Pending(c, PHA)], Chain) + (IF asset = PHA THEN d ELSE 0)
  <2> DEFINE f == [c \in Chain |-> Pending(c, PHA)]
             g == [c \in Chain |-> Pending(c, PHA)']
             e == IF asset = PHA THEN d ELSE 0
  <2>1. /\ Sum([c \in Chain |-> Pending(c, PHA)], Chain) = SumFunctionOnSet(f, Chain)
        /\ Sum([c \in Chain |-> Pending(c, PHA)], Chain)' = SumFunctionOnSet(g, Chain)
    BY DEF Sum
  <2>2. \A c \in Chain : f[c] \in Nat
    BY <1>0, <1>2
  <2>3. ASSUME NEW c \in Chain PROVE g[c] = f[c] + (IF c = chain THEN e ELSE 0)
    <3>1. Pending(c, PHA)' = Pending(c, PHA) + (IF c = chain /\ PHA = asset THEN d ELSE 0)
      BY <1>0 DEF PendingChanges
    <3>2. Pending(c, PHA) \in Nat
      BY <1>0, <1>2
    <3> QED BY <3>1, <3>2
  <2>4. e \in Int /\ (e = 0 \/ chain \in Chain)
    OBVIOUS
  <2> HIDE DEF f, g, e
  <2>5. /\ SumFunctionOnSet(f, Chain) \in Nat
        /\ SumFunctionOnSet(g, Chain) = SumFunctionOnSet(f, Chain) + e
    BY <1>1, <2>2, <2>3, <2>4
  <2> QED BY <2>1, <2>5 DEF e
<1> QED BY <1>3, <1>4

-----------------------------------------------------------------------------
(* The supply *)

\* A finite set of numbers has a greatest.
LEMMA Greatest ==
    ASSUME NEW S \in SUBSET Nat, IsFiniteSet(S), S # {}
    PROVE  Max(S) \in S /\ \A x \in S : x <= Max(S)
<1> DEFINE Good == {T \in SUBSET S : T = {} \/ \E x \in T : \A y \in T : x >= y}
<1>1. ASSUME NEW T \in SUBSET S, \A x \in T : T \ {x} \in Good PROVE T \in Good
  <2>1. CASE T = {}
    BY <2>1
  <2>2. CASE T # {}
    <3>1. PICK z \in T : TRUE
      BY <2>2
    <3>2. CASE T \ {z} = {}
      <4>1. \A y \in T : z >= y
        BY <3>2
      <4> QED BY <3>1, <4>1
    <3>3. CASE T \ {z} # {}
      <4>1. PICK x \in T \ {z} : \A y \in T \ {z} : x >= y
        BY <1>1, <3>1, <3>3
      <4>2. x \in Nat /\ z \in Nat /\ \A y \in T : y \in Nat
        OBVIOUS
      <4>3. CASE x >= z
        BY <4>1, <4>3
      <4>4. CASE ~ (x >= z)
        <5>1. \A y \in T : z >= y
          BY <4>1, <4>2, <4>4
        <5> QED BY <3>1, <5>1
      <4> QED BY <4>3, <4>4
    <3> QED BY <3>2, <3>3
  <2> QED BY <2>1, <2>2
<1>2. SUBSET S \subseteq Good
  <2> HIDE DEF Good
  <2> QED BY <1>1, SubsetInduction
<1>3. \E x \in S : \A y \in S : x >= y
  BY <1>2
<1>4. Max(S) \in S /\ \A y \in S : Max(S) >= y
  BY <1>3 DEF Max
<1>5. \A y \in S : y \in Nat /\ Max(S) \in Nat
  BY <1>4
<1> QED BY <1>4, <1>5

\* The supply of an asset is at least what any setup has of it, for each of its holders.
LEMMA SupplyBounds ==
    ASSUME NEW asset \in Asset
    PROVE  /\ Supply(asset) \in Nat
           /\ \A setup \in Setup :
                 /\ setup.amount[asset] \in Nat
                 /\ asset # PHA => setup.amount[asset] <= Supply(asset)
                 /\ asset = PHA => setup.amount[asset] * Cardinality(User) <= Supply(asset)
<1> DEFINE S == {setup.amount[asset] : setup \in Setup}
           n == Cardinality(User)
<1>1. \A setup \in Setup : setup.amount[asset] \in Nat
  BY AmountsAssumption
<1>2. IsFiniteSet(S) /\ S # {}
  <2> DEFINE f == [setup \in Setup |-> setup.amount[asset]]
  <2>1. f \in Surjection(Setup, S)
    BY DEF Surjection
  <2> QED BY <2>1, FS_Surjection, AmountsAssumption
<1>3. S \in SUBSET Nat
  BY <1>1
<1>4. \A setup \in Setup : setup.amount[asset] \in S
  OBVIOUS
<1> HIDE DEF S
<1>5. Max(S) \in Nat /\ \A x \in S : x <= Max(S)
  BY <1>2, <1>3, Greatest
<1>6. n \in Nat
  BY PlacesAssumption, FS_CardinalityType
<1>7. Supply(asset) = Max(S) * (IF asset = PHA THEN n ELSE 1)
  BY DEF Supply, S
<1> HIDE DEF n
<1>8. \A a, b, c \in Nat : a <= b => a * c <= b * c
  OBVIOUS
<1>9. \A a, b \in Nat : a * b \in Nat /\ a * 1 = a
  OBVIOUS
<1>10. Supply(asset) \in Nat
  BY <1>5, <1>6, <1>7, <1>9
<1>11. ASSUME NEW setup \in Setup
       PROVE  /\ asset # PHA => setup.amount[asset] <= Supply(asset)
              /\ asset = PHA => setup.amount[asset] * n <= Supply(asset)
  <2>1. setup.amount[asset] \in Nat /\ setup.amount[asset] <= Max(S)
    BY <1>1, <1>4, <1>5
  <2> QED BY <1>5, <1>6, <1>7, <1>8, <1>9, <2>1
<1> QED BY <1>1, <1>10, <1>11 DEF n

-----------------------------------------------------------------------------
(* Preservation *)

\* The measures of the next state are those of the ledger that is committed.
LEMMA Committed ==
    ASSUME NEW m, Commit(m)
    PROVE  /\ \A asset \in Asset : Worth(Ledger, asset)' = Worth(m, asset)
           /\ \A asset \in Asset, place \in Place :
                 Locked(Ledger, place, asset)' = Locked(m, place, asset)
           /\ LockedPHA(Ledger)' = LockedPHA(m)
           /\ balance' = m.balance /\ held' = m.held
<1>1. balance' = m.balance /\ held' = m.held
  BY DEF Commit
<1>2. ASSUME NEW asset \in Asset PROVE Worth(Ledger, asset)' = Worth(m, asset)
  BY <1>1 DEF Worth, Ledger
<1>3. ASSUME NEW asset \in Asset, NEW place \in Place
      PROVE  Locked(Ledger, place, asset)' = Locked(m, place, asset)
  BY <1>1 DEF Locked, Ledger
<1>4. LockedPHA(Ledger)' = LockedPHA(m)
  BY <1>1 DEF LockedPHA, Locked, Ledger
<1> QED BY <1>1, <1>2, <1>3, <1>4

\* A step that pays what was on its way, or puts on its way what it takes.
LEMMA PaysKeepsInv ==
    ASSUME TypeOK, ExecutedOnceDeposited, NothingMinted, ClaimsLocked,
           NEW m, NEW chain, NEW asset \in Asset, NEW d \in Int, chain \in Chain \/ d = 0,
           NEW e \in Int, e + d = 0, Pays(Ledger, m, chain, asset, e), Commit(m), PendingChanges(chain, asset, d)
    PROVE  /\ balance' \in [Asset -> [Account -> Nat]] /\ held' \in [Place -> [Asset -> Nat]]
           /\ NothingMinted' /\ ClaimsLocked'
<1>0. GoodLedger(Ledger) /\ GoodLedger(m)
  BY DEF Pays
<1>1. balance' \in [Asset -> [Account -> Nat]] /\ held' \in [Place -> [Asset -> Nat]]
  BY <1>0, Committed DEF GoodLedger
<1>2. /\ \A a \in Asset : Worth(Ledger, a) \in Int
      /\ \A a \in Asset, c \in Chain : Locked(Ledger, SoloChain(c), a) \in Int
      /\ \A a \in Asset : Locked(Ledger, SiblingChain, a) \in Int
      /\ LockedPHA(Ledger) \in Int
  BY <1>0, GainsNumbers
<1>3. /\ \A a \in Asset : Worth(m, a) \in Int
      /\ \A a \in Asset, c \in Chain : Locked(m, SoloChain(c), a) \in Int
      /\ \A a \in Asset : Locked(m, SiblingChain, a) \in Int
      /\ LockedPHA(m) \in Int
  BY <1>0, GainsNumbers
<1>4. NothingMinted'
  <2> SUFFICES ASSUME NEW a \in Asset
               PROVE  Worth(Ledger, a)' + FromHome(a)' <= Supply(a)
    BY DEF NothingMinted
  <2>1. Worth(Ledger, a)' = Worth(m, a)
    BY Committed
  <2>2. Worth(m, a) <= Worth(Ledger, a)
          + (IF a = asset /\ SoloChain(chain) = reserve_location(asset) THEN e ELSE 0)
    BY DEF Pays
  <2>3. /\ FromHome(a) \in Nat
        /\ FromHome(a)' = FromHome(a)
             + (IF a = asset /\ SoloChain(chain) = reserve_location(asset) THEN d ELSE 0)
    <3>1. Moves(chain, asset, d)
      BY DEF Moves
    <3> QED BY <3>1, PendingSums
  <2>4. Worth(Ledger, a) + FromHome(a) <= Supply(a) /\ Supply(a) \in Nat
    BY SupplyBounds DEF NothingMinted
  <2>5. Worth(Ledger, a) \in Int /\ Worth(m, a) \in Int
    BY <1>2, <1>3
  <2> QED BY <2>1, <2>2, <2>3, <2>4, <2>5
<1>5. ASSUME NEW a \in Asset \ {PHA}, NEW c \in Chain, reserve_location(a) # SoloChain(c)
      PROVE  Pending(c, a)' <= Locked(Ledger, SoloChain(c), a)'
  <2>1. Locked(Ledger, SoloChain(c), a)' = Locked(m, SoloChain(c), a)
    BY Committed, Places
  <2>2. Locked(Ledger, SoloChain(c), a) - (IF a = asset /\ c = chain THEN e ELSE 0)
          <= Locked(m, SoloChain(c), a)
    BY <1>5 DEF Pays
  <2>3. Pending(c, a)' = Pending(c, a) + (IF c = chain /\ a = asset THEN d ELSE 0)
    BY DEF PendingChanges
  <2>4. Pending(c, a) <= Locked(Ledger, SoloChain(c), a) /\ Pending(c, a) \in Nat
    BY <1>5, WaitingFinite DEF ClaimsLocked
  <2>5. Locked(Ledger, SoloChain(c), a) \in Int /\ Locked(m, SoloChain(c), a) \in Int
    BY <1>2, <1>3
  <2> QED BY <2>1, <2>2, <2>3, <2>4, <2>5
<1>6. (Sum([c \in Chain |-> Pending(c, PHA)], Chain) <= LockedPHA(Ledger))'
  <2> DEFINE s == Sum([c \in Chain |-> Pending(c, PHA)], Chain)
  <2>1. LockedPHA(Ledger)' = LockedPHA(m)
    BY Committed
  <2>2. LockedPHA(Ledger) - (IF asset = PHA THEN e ELSE 0) <= LockedPHA(m)
    BY DEF Pays
  <2>3. s \in Nat /\ s' = s + (IF asset = PHA THEN d ELSE 0)
    <3>1. Moves(chain, asset, d)
      BY DEF Moves
    <3> QED BY <3>1, PendingSums
  <2>4. s <= LockedPHA(Ledger)
    BY DEF ClaimsLocked
  <2> HIDE DEF s
  <2>5. s' <= LockedPHA(Ledger)'
    BY <1>2, <1>3, <2>1, <2>2, <2>3, <2>4
  <2> QED BY <2>5 DEF s
<1>7. ASSUME NEW a \in Asset, is_native_asset_id(origin(a))
      PROVE  0 <= Locked(Ledger, SiblingChain, a)'
  <2>1. Locked(Ledger, SiblingChain, a)' = Locked(m, SiblingChain, a)
    BY Committed, Places
  <2>2. Locked(Ledger, SiblingChain, a) <= Locked(m, SiblingChain, a)
    BY <1>7 DEF Pays
  <2>3. 0 <= Locked(Ledger, SiblingChain, a)
    BY <1>7 DEF ClaimsLocked
  <2> QED BY <1>2, <1>3, <2>1, <2>2, <2>3
<1>8. ClaimsLocked'
  BY <1>5, <1>6, <1>7 DEF ClaimsLocked
<1> QED BY <1>1, <1>4, <1>8

\* A step from which nothing is gained pays nothing.
LEMMA GainsPays ==
    ASSUME NEW l, NEW m, NEW asset \in Asset, NEW chain, Gains(l, m, asset, 0)
    PROVE  Pays(l, m, chain, asset, 0)
<1>0. GoodLedger(l) /\ GoodLedger(m)
  BY DEF Gains
<1>1. /\ \A a \in Asset : Worth(l, a) \in Int
      /\ \A a \in Asset, c \in Chain : Locked(l, SoloChain(c), a) \in Int
      /\ LockedPHA(l) \in Int
  BY <1>0, GainsNumbers
<1>2. ASSUME NEW a \in Asset
      PROVE  Worth(m, a) <= Worth(l, a)
               + (IF a = asset /\ SoloChain(chain) = reserve_location(asset) THEN 0 ELSE 0)
  <2>1. Worth(m, a) <= Worth(l, a) + (IF a = asset THEN 0 ELSE 0)
    BY DEF Gains
  <2> QED BY <2>1
<1>3. ASSUME NEW a \in Asset \ {PHA}, NEW c \in Chain, reserve_location(a) # SoloChain(c)
      PROVE  Locked(l, SoloChain(c), a) - (IF a = asset /\ c = chain THEN 0 ELSE 0)
               <= Locked(m, SoloChain(c), a)
  <2>1. Locked(l, SoloChain(c), a) <= Locked(m, SoloChain(c), a)
    BY <1>3 DEF Gains
  <2>2. Locked(l, SoloChain(c), a) - (IF a = asset /\ c = chain THEN 0 ELSE 0)
          = Locked(l, SoloChain(c), a)
    BY <1>1
  <2> QED BY <2>1, <2>2
<1>4. LockedPHA(l) - (IF asset = PHA THEN 0 ELSE 0) <= LockedPHA(m)
  <2>1. LockedPHA(l) <= LockedPHA(m) /\ LockedPHA(l) - (IF asset = PHA THEN 0 ELSE 0) = LockedPHA(l)
    BY <1>1 DEF Gains
  <2> QED BY <2>1
<1> QED BY <1>0, <1>2, <1>3, <1>4 DEF Pays, Gains

\* A deposit on a bridged chain takes from what is held there.
LEMMA DebitPays ==
    ASSUME NEW l, GoodLedger(l), NEW asset \in Asset, NEW chain \in Chain, NEW n \in Nat,
           n <= l.held[SoloChain(chain)][asset]
    PROVE  Pays(l, debit(l, asset, SoloChain(chain), n), chain, asset, -n)
<1> DEFINE place == SoloChain(chain)
           m == debit(l, asset, place, n)
<1>0. place \in Place /\ place \in SoloChains /\ place # SiblingChain /\ SiblingChain \in Place
  BY Places
<1>1. GoodLedger(m) /\ Credited(l, m, asset, place, -n)
  BY <1>0, DebitEffect
<1> HIDE DEF m
<1>2. /\ \A a \in Asset : Worth(l, a) \in Int
      /\ \A a \in Asset, c \in Chain : Locked(l, SoloChain(c), a) \in Int
      /\ \A a \in Asset : Locked(l, SiblingChain, a) \in Int
      /\ LockedPHA(l) \in Int
  BY GainsNumbers
<1>3. ASSUME NEW a \in Asset
      PROVE  Worth(m, a) <= Worth(l, a)
               + (IF a = asset /\ SoloChain(chain) = reserve_location(asset) THEN -n ELSE 0)
  <2>1. /\ Worth(m, a) = Worth(l, a) + (IF a = asset /\ MintsHere(place, asset) THEN -n ELSE 0)
        /\ Worth(l, a) \in Int
    BY <1>1, <1>2 DEF Credited
  <2>2. MintsHere(place, asset) <=> SoloChain(chain) = reserve_location(asset)
    BY <1>0 DEF MintsHere
  <2> QED BY <2>1, <2>2
<1>4. ASSUME NEW a \in Asset, NEW c \in Chain
      PROVE  Locked(l, SoloChain(c), a) - (IF a = asset /\ c = chain THEN -n ELSE 0)
               <= Locked(m, SoloChain(c), a)
  <2>1. Locked(m, SoloChain(c), a)
          = Locked(l, SoloChain(c), a) - (IF a = asset /\ SoloChain(c) = place THEN -n ELSE 0)
    BY <1>1, Places DEF Credited
  <2>2. SoloChain(c) = place <=> c = chain
    BY Places
  <2>3. Locked(l, SoloChain(c), a) \in Int
    BY <1>2
  <2> QED BY <2>1, <2>2, <2>3
<1>5. LockedPHA(l) - (IF asset = PHA THEN -n ELSE 0) <= LockedPHA(m)
  <2>1. LockedPHA(m) = LockedPHA(l) - (IF asset = PHA /\ place \in SoloChains THEN -n ELSE 0)
    BY <1>1 DEF Credited
  <2> QED BY <1>0, <1>2, <2>1
<1>6. ASSUME NEW a \in Asset PROVE Locked(l, SiblingChain, a) <= Locked(m, SiblingChain, a)
  <2>1. Locked(m, SiblingChain, a)
          = Locked(l, SiblingChain, a) - (IF a = asset /\ SiblingChain = place THEN -n ELSE 0)
    BY <1>0, <1>1 DEF Credited
  <2> QED BY <1>0, <1>2, <2>1
<1>7. Pays(l, m, chain, asset, -n)
  BY <1>1, <1>3, <1>4, <1>5, <1>6 DEF Pays
<1> QED BY <1>7 DEF m

-----------------------------------------------------------------------------
(* The bridge and the registry *)

\* No asset that is not registered moves in a step.
Frozen == \A asset \in Asset \ {PHA} : ~registered(asset) => balance'[asset] = balance[asset]

\* The committee keeps the registry consistent.
LEMMA CommitteeInv ==
    ASSUME RegistryInv, Committee
    PROVE  RegistryInv'
<1>1. PICK asset \in Asset :
          \/ \E decimals \in Decimal :
                \/ force_register_asset(asset, Id[asset], decimals)
                \/ force_set_metadata(Id[asset], decimals)
          \/ force_unregister_asset(Id[asset])
          \/ \E chain \in Chain :
                \/ force_enable_chainbridge(Id[asset], chain)
                \/ force_disable_chainbridge(Id[asset], chain)
  BY DEF Committee
<1>2. Id[asset] \in AssetId
  BY PlacesAssumption
<1> QED BY <1>1, <1>2, RegisterInv, UnregisterInv, MetadataInv, BridgeInv

\* What does not touch the registry leaves it consistent.
LEMMA RegistrySame ==
    ASSUME RegistryInv, UNCHANGED registryVars
    PROVE  RegistryInv'
  BY DEF RegistryInv, registryVars, RegistryTypeOK, RegistryConsistent

\* The records of proposals are stored as they are decided: a proposal is executed when its record
\* becomes approved, and no record that is decided already is resolved again.
LEMMA ResolveKeeps ==
    ASSUME TypeOK, ExecutedOnceDeposited, NEW chain \in Chain, NEW call \in deposits[chain],
           NEW votes \in Bridge!ProposalVotes, votes.status = "Initiated",
           dispatched[chain][call] = 0, NEW works,
           Bridge!try_resolve_proposal(chain, call, votes, works),
           UNCHANGED <<Relayers, deposits>>
    PROVE  /\ ExecutedOnceDeposited'
           /\ \/ dispatched' = dispatched
              \/ dispatched' = [dispatched EXCEPT ![chain][call] = 1]
<1> DEFINE status == Bridge!try_to_complete(votes)
           stored == [votes_for |-> votes.votes_for, votes_against |-> votes.votes_against,
                      status |-> status, left |-> votes.left]
<1>0. call \in Proposal /\ deposits \in [Chain -> SUBSET Proposal]
  BY DEF TypeOK
<1>1. status \in {"Initiated", "Approved", "Rejected"}
  BY DEF Bridge!try_to_complete
<1>2. stored \in Bridge!ProposalVotes /\ stored.status = status /\ stored # None
  <2>1. stored \in Bridge!ProposalVotes
    BY <1>1 DEF Bridge!ProposalVotes
  <2> QED BY <2>1, ProposalsAssumption DEF Bridge!ProposalVotes
<1>3. /\ Votes' = [Votes EXCEPT ![chain][call] = stored]
      /\ \/ status = "Approved" /\ dispatched' = [dispatched EXCEPT ![chain][call] = @ + 1]
         \/ status # "Approved" /\ dispatched' = dispatched
  BY DEF Bridge!try_resolve_proposal
<1> HIDE DEF status, stored
<1>4. \/ status = "Approved" /\ dispatched' = [dispatched EXCEPT ![chain][call] = 1]
      \/ status # "Approved" /\ dispatched' = dispatched
  BY <1>3
<1>5. Votes' \in [Chain -> [Proposal -> Bridge!ProposalVotes \cup {None}]]
  <2> DEFINE V == Bridge!ProposalVotes \cup {None}
             old == Votes[chain]
             new == [old EXCEPT ![call] = stored]
  <2>1. Votes \in [Chain -> [Proposal -> V]]
    BY DEF ExecutedOnceDeposited
  <2>2. Votes' = [Votes EXCEPT ![chain] = new]
    BY <1>3
  <2>3. stored \in V
    BY <1>2
  <2> HIDE DEF V
  <2>4. new \in [Proposal -> V]
    BY <1>0, <2>1, <2>3
  <2> HIDE DEF new
  <2>5. Votes' \in [Chain -> [Proposal -> V]]
    BY <2>1, <2>2, <2>4
  <2> QED BY <2>5 DEF V
<1>6. dispatched' \in [Chain -> [Proposal -> Nat]]
  <2> DEFINE new == [dispatched[chain] EXCEPT ![call] = 1]
  <2>1. dispatched \in [Chain -> [Proposal -> Nat]]
    BY DEF ExecutedOnceDeposited
  <2>2. new \in [Proposal -> Nat]
    BY <1>0, <2>1
  <2>3. dispatched' = [dispatched EXCEPT ![chain] = new] \/ dispatched' = dispatched
    BY <1>4
  <2> HIDE DEF new
  <2> QED BY <2>1, <2>2, <2>3
<1>7. ASSUME NEW c \in Chain, NEW x \in Proposal
      PROVE  /\ Votes'[c][x] = None \/ Votes'[c][x].status = "Initiated" => dispatched'[c][x] = 0
             /\ dispatched'[c][x] # 0 => x \in deposits'[c]
  <2>1. CASE c = chain /\ x = call
    <3>1. Votes'[c][x] = stored
      BY <1>0, <1>3, <2>1 DEF ExecutedOnceDeposited
    <3>2. status = "Initiated" => dispatched'[c][x] = 0
      BY <1>4, <2>1
    <3> QED BY <1>2, <2>1, <3>1, <3>2
  <2>2. CASE ~ (c = chain /\ x = call)
    <3>1. Votes'[c][x] = Votes[c][x] /\ dispatched'[c][x] = dispatched[c][x]
      BY <1>0, <1>3, <1>4, <2>2 DEF ExecutedOnceDeposited
    <3> QED BY <3>1 DEF ExecutedOnceDeposited
  <2> QED BY <2>1, <2>2
<1>8. ExecutedOnceDeposited'
  BY <1>5, <1>6, <1>7 DEF ExecutedOnceDeposited
<1> QED BY <1>4, <1>8

\* A vote of a relayer (commit_vote, then try_resolve_proposal) executes a proposal at most once.
LEMMA VoteKeeps ==
    ASSUME TypeOK, ExecutedOnceDeposited, NEW chain \in Chain, NEW call \in deposits[chain],
           NEW who, NEW in_favour, NEW works,
           Bridge!vote(who, chain, call, in_favour, works), UNCHANGED deposits
    PROVE  /\ ExecutedOnceDeposited'
           /\ \/ dispatched' = dispatched
              \/ /\ dispatched[chain][call] = 0
                 /\ dispatched' = [dispatched EXCEPT ![chain][call] = 1]
<1> DEFINE old == IF Votes[chain][call] = None THEN Bridge!NewVotes ELSE Votes[chain][call]
           votes == Bridge!commit_vote(old, who, in_favour)
<1>0. call \in Proposal
  BY DEF TypeOK
<1>1. /\ who \in Relayers /\ Bridge!may_vote(old, who)
      /\ Bridge!try_resolve_proposal(chain, call, votes, works)
      /\ UNCHANGED Relayers
  BY DEF Bridge!vote, Bridge!adminVars
<1>2. who \in Relayer
  BY <1>1 DEF ExecutedOnceDeposited
<1>3. old \in Bridge!ProposalVotes
  <2>1. Bridge!NewVotes \in Bridge!ProposalVotes
    <3>1. <<>> \in Seq(Relayer) /\ ProposalLifetime \in 0..ProposalLifetime
      BY ProposalsAssumption
    <3> QED BY <3>1 DEF Bridge!NewVotes, Bridge!ProposalVotes
  <2>2. Votes[chain][call] \in Bridge!ProposalVotes \cup {None}
    BY <1>0 DEF ExecutedOnceDeposited
  <2> QED BY <2>1, <2>2
<1>4. old.status = "Initiated" /\ dispatched[chain][call] = 0
  <2>1. old.status = "Initiated"
    BY <1>1 DEF Bridge!may_vote, Bridge!is_complete
  <2>2. Votes[chain][call] = None \/ Votes[chain][call].status = "Initiated"
    BY <2>1
  <2> QED BY <1>0, <2>1, <2>2 DEF ExecutedOnceDeposited
<1> HIDE DEF old
<1>5. votes \in Bridge!ProposalVotes /\ votes.status = "Initiated"
  <2>1. /\ old.votes_for \in Seq(Relayer) /\ old.votes_against \in Seq(Relayer)
        /\ old.left \in 0..ProposalLifetime
    BY <1>3 DEF Bridge!ProposalVotes
  <2>2. /\ Append(old.votes_for, who) \in Seq(Relayer)
        /\ Append(old.votes_against, who) \in Seq(Relayer)
    BY <1>2, <2>1
  <2> QED BY <1>4, <2>1, <2>2 DEF Bridge!ProposalVotes, Bridge!commit_vote
<1> HIDE DEF votes
<1> QED BY <1>1, <1>4, <1>5, ResolveKeeps

\* eval_vote_state executes a proposal at most once.
LEMMA EvalKeeps ==
    ASSUME TypeOK, ExecutedOnceDeposited, NEW chain \in Chain, NEW call \in deposits[chain],
           NEW works, Bridge!eval_vote_state(chain, call, works), UNCHANGED deposits
    PROVE  /\ ExecutedOnceDeposited'
           /\ \/ dispatched' = dispatched
              \/ /\ dispatched[chain][call] = 0
                 /\ dispatched' = [dispatched EXCEPT ![chain][call] = 1]
<1> DEFINE votes == Votes[chain][call]
<1>0. call \in Proposal
  BY DEF TypeOK
<1>1. /\ votes # None /\ votes.status = "Initiated"
      /\ Bridge!try_resolve_proposal(chain, call, votes, works)
      /\ UNCHANGED Relayers
  BY DEF Bridge!eval_vote_state, Bridge!is_complete, Bridge!adminVars
<1>2. votes \in Bridge!ProposalVotes /\ dispatched[chain][call] = 0
  BY <1>0, <1>1 DEF ExecutedOnceDeposited
<1> HIDE DEF votes
<1> QED BY <1>1, <1>2, ResolveKeeps

\* A block later the records are older and otherwise the same.
LEMMA BlockKeeps ==
    ASSUME TypeOK, ExecutedOnceDeposited, Bridge!on_initialize, UNCHANGED deposits
    PROVE  ExecutedOnceDeposited' /\ dispatched' = dispatched
<1>1. /\ Votes' = [c \in Chain |-> [x \in Proposal |-> Bridge!Older(Votes[c][x])]]
      /\ dispatched' = dispatched /\ Relayers' = Relayers
  BY DEF Bridge!on_initialize, Bridge!adminVars
<1>2. ASSUME NEW votes \in Bridge!ProposalVotes \cup {None}
      PROVE  /\ Bridge!Older(votes) \in Bridge!ProposalVotes \cup {None}
             /\ Bridge!Older(votes) = None <=> votes = None
             /\ votes # None => Bridge!Older(votes).status = votes.status
  <2>1. CASE votes = None \/ votes.left = 0
    BY <2>1 DEF Bridge!Older
  <2>2. CASE votes # None /\ votes.left # 0
    <3>1. votes.left - 1 \in 0..ProposalLifetime
      <4>1. votes.left \in 0..ProposalLifetime /\ ProposalLifetime \in Nat
        BY <2>2, ProposalsAssumption DEF Bridge!ProposalVotes
      <4> QED BY <2>2, <4>1
    <3>2. Bridge!Older(votes) = [votes_for |-> votes.votes_for,
                                 votes_against |-> votes.votes_against,
                                 status |-> votes.status, left |-> votes.left - 1]
      BY <2>2 DEF Bridge!Older
    <3>3. Bridge!Older(votes) \in Bridge!ProposalVotes /\ Bridge!Older(votes).status = votes.status
      BY <2>2, <3>1, <3>2 DEF Bridge!ProposalVotes
    <3> QED BY <2>2, <3>3, ProposalsAssumption DEF Bridge!ProposalVotes
  <2> QED BY <2>1, <2>2
<1>3. \A c \in Chain, x \in Proposal : Votes[c][x] \in Bridge!ProposalVotes \cup {None}
  BY DEF ExecutedOnceDeposited
<1>4. \A c \in Chain, x \in Proposal :
         /\ Votes'[c][x] \in Bridge!ProposalVotes \cup {None}
         /\ Votes'[c][x] = None <=> Votes[c][x] = None
         /\ Votes[c][x] # None => Votes'[c][x].status = Votes[c][x].status
  BY <1>1, <1>2, <1>3
<1>5. Votes' \in [Chain -> [Proposal -> Bridge!ProposalVotes \cup {None}]]
  BY <1>1, <1>4
<1> QED BY <1>1, <1>4, <1>5 DEF ExecutedOnceDeposited

\* Steps that leave the records and the executions alone.
LEMMA RecordsSame ==
    ASSUME ExecutedOnceDeposited, UNCHANGED <<Votes, dispatched, Relayers, deposits>>
    PROVE  ExecutedOnceDeposited'
  BY DEF ExecutedOnceDeposited

\* A deposit has a nonce that no deposit before has had.
LEMMA DepositKeeps ==
    ASSUME TypeOK, ExecutedOnceDeposited, NEW chain \in Chain, NEW call \in Proposal,
           call.nonce = Cardinality(deposits[chain]) + 1,
           deposits' = [deposits EXCEPT ![chain] = @ \cup {call}],
           UNCHANGED <<Votes, dispatched, Relayers>>
    PROVE  ExecutedOnceDeposited' /\ call \notin deposits[chain]
<1>1. IsFiniteSet(deposits[chain]) /\ Cardinality(deposits[chain]) \in Nat
  BY FS_CardinalityType DEF ExecutedOnceDeposited
<1>2. \A x \in deposits[chain] : x.nonce <= Cardinality(deposits[chain])
  BY DEF ExecutedOnceDeposited
<1>3. call \notin deposits[chain]
  BY <1>1, <1>2
<1>4. /\ IsFiniteSet(deposits[chain] \cup {call})
      /\ Cardinality(deposits[chain] \cup {call}) = Cardinality(deposits[chain]) + 1
  BY <1>1, <1>3, FS_AddElement
<1>5. \A c \in Chain :
         deposits'[c] = IF c = chain THEN deposits[chain] \cup {call} ELSE deposits[c]
  BY DEF TypeOK
<1>6. \A x \in deposits[chain] : x.nonce \in Nat
  BY DEF TypeOK, Proposal
<1>7. ASSUME NEW c \in Chain
      PROVE  /\ IsFiniteSet(deposits'[c])
             /\ \A x \in deposits'[c] : x.nonce <= Cardinality(deposits'[c])
  <2>1. CASE c = chain
    <3>1. ASSUME NEW x \in deposits[chain] \cup {call}
          PROVE  x.nonce <= Cardinality(deposits[chain]) + 1
      BY <1>1, <1>2, <1>6
    <3> QED BY <1>4, <1>5, <2>1, <3>1
  <2>2. CASE c # chain
    BY <1>5, <2>2 DEF ExecutedOnceDeposited
  <2> QED BY <2>1, <2>2
<1>8. ASSUME NEW c \in Chain, NEW x \in Proposal
      PROVE  dispatched[c][x] # 0 => x \in deposits'[c]
  BY <1>5 DEF ExecutedOnceDeposited
<1>9. ExecutedOnceDeposited'
  BY <1>7, <1>8 DEF ExecutedOnceDeposited
<1> QED BY <1>3, <1>9

-----------------------------------------------------------------------------
(* The actions *)

\* A step from which nothing is gained, and that decides no proposal.
LEMMA GainsKeepInv ==
    ASSUME LedgerInv, NEW m, NEW asset \in Asset, Gains(Ledger, m, asset, 0), Commit(m),
           UNCHANGED <<registryVars, BridgeFee, deposits>>,
           UNCHANGED <<Votes, dispatched, Relayers>>
    PROVE  LedgerInv'
<1>0. RegistryInv /\ TypeOK /\ ExecutedOnceDeposited /\ NothingMinted /\ ClaimsLocked
  BY DEF LedgerInv
<1>1. RegistryInv' /\ ExecutedOnceDeposited'
  BY <1>0, RegistrySame, RecordsSame
<1>2. PendingChanges(0, asset, 0)
  BY <1>0, PendingSame
<1>3. Pays(Ledger, m, 0, asset, 0)
  BY GainsPays
<1>4. 0 \in Int /\ 0 + 0 = 0
  OBVIOUS
<1>5. /\ balance' \in [Asset -> [Account -> Nat]] /\ held' \in [Place -> [Asset -> Nat]]
      /\ NothingMinted' /\ ClaimsLocked'
  BY <1>0, <1>2, <1>3, <1>4, PaysKeepsInv
<1>6. TypeOK'
  BY <1>0, <1>5 DEF TypeOK
<1> QED BY <1>1, <1>5, <1>6 DEF LedgerInv

\* A step that leaves the ledger, and decides no proposal.
LEMMA LedgerSame ==
    ASSUME LedgerInv, RegistryInv', ExecutedOnceDeposited', TypeOK',
           UNCHANGED <<ledgerVars, dispatched, deposits>>
    PROVE  LedgerInv'
<1>0. TypeOK /\ ExecutedOnceDeposited /\ NothingMinted /\ ClaimsLocked
  BY DEF LedgerInv
<1>1. Commit(Ledger) /\ GoodLedger(Ledger)
  BY <1>0, LedgerGood DEF Commit, ledgerVars, Ledger
<1>2. PendingChanges(0, PHA, 0) /\ PHA \in Asset
  BY <1>0, PendingSame, HomeOfPHA
<1>3. Pays(Ledger, Ledger, 0, PHA, 0)
  BY <1>1, <1>2, GainsNothing, GainsPays
<1>4. 0 \in Int /\ 0 + 0 = 0
  OBVIOUS
<1>5. NothingMinted' /\ ClaimsLocked'
  BY <1>0, <1>1, <1>2, <1>3, <1>4, PaysKeepsInv
<1> QED BY <1>5 DEF LedgerInv

\* The executed part of a vote or of an evaluation.
LEMMA ExecutedKeeps ==
    ASSUME LedgerInv, NEW chain \in Chain, NEW call \in deposits[chain], ExecutedOnceDeposited',
           \/ dispatched' = dispatched
           \/ /\ dispatched[chain][call] = 0
              /\ dispatched' = [dispatched EXCEPT ![chain][call] = 1],
           Executed(chain, call), UNCHANGED <<registryVars, BridgeFee, deposits>>
    PROVE  LedgerInv' /\ Frozen
<1>0. RegistryInv /\ TypeOK /\ ExecutedOnceDeposited /\ NothingMinted /\ ClaimsLocked
  BY DEF LedgerInv
<1>1. RegistryInv'
  BY <1>0, RegistrySame
<1>2. CASE dispatched' = dispatched
  <2>1. UNCHANGED ledgerVars
    BY <1>2 DEF Executed
  <2>2. TypeOK'
    BY <1>0, <2>1 DEF TypeOK, ledgerVars
  <2>3. LedgerInv'
    BY <1>1, <1>2, <2>1, <2>2, LedgerSame
  <2>4. Frozen
    BY <2>1 DEF Frozen, ledgerVars
  <2> QED BY <2>3, <2>4
<1>3. CASE dispatched' # dispatched
  <2> DEFINE m == transfer(chain, call)
             n == call.amount
  <2>1. /\ dispatched[chain][call] = 0
        /\ dispatched' = [dispatched EXCEPT ![chain][call] = 1]
        /\ Commit(m)
    BY <1>3 DEF Executed
  <2>2. call \in Proposal /\ call.asset \in Asset /\ n \in Nat
    BY <1>0, AmountsAssumption DEF TypeOK, Proposal
  <2>3. /\ Pays(Ledger, m, chain, call.asset, n)
        /\ \A a \in Asset \ {PHA} : ~registered(a) => m.balance[a] = balance[a]
    BY <1>0, <2>2, TransferPays
  <2>4. PendingChanges(chain, call.asset, -n)
    BY <1>0, <2>1, PendingExecuted
  <2> HIDE DEF m, n
  <2>5. -n \in Int /\ n \in Int /\ n + -n = 0
    BY <2>2
  <2>6. /\ balance' \in [Asset -> [Account -> Nat]] /\ held' \in [Place -> [Asset -> Nat]]
        /\ NothingMinted' /\ ClaimsLocked'
    BY <1>0, <2>1, <2>2, <2>3, <2>4, <2>5, PaysKeepsInv
  <2>7. TypeOK'
    BY <1>0, <2>6 DEF TypeOK
  <2>8. Frozen
    BY <2>1, <2>3 DEF Frozen, Commit
  <2> QED BY <1>1, <2>6, <2>7, <2>8 DEF LedgerInv
<1> QED BY <1>2, <1>3

\* What the bridge does to a transfer out concerns its nonces and events only.
LEMMA BridgeTransfer ==
    ASSUME NEW chain, Bridge!transfer(chain) \/ UNCHANGED bridgeVars
    PROVE  UNCHANGED <<Votes, dispatched, Relayers>>
  BY DEF Bridge!transfer, Bridge!adminVars, Bridge!proposalVars, bridgeVars

\* When an asset that moves is registered, the others do not move.
LEMMA KeepsFreezes ==
    ASSUME TypeOK, NEW m, NEW asset, Keeps(Ledger, m, asset), Commit(m),
           registered(asset) \/ asset = PHA
    PROVE  Frozen
<1>1. balance' = m.balance /\ Ledger.balance = balance
  BY LedgerGood DEF Commit
<1> QED BY <1>1 DEF Frozen, Keeps

\* transfer_assets: the fee goes to the treasury, the rest is burnt towards its home or locked.
LEMMA TransferAssetsInv ==
    ASSUME LedgerInv, NEW who \in User, NEW asset \in Asset, NEW chain \in Chain,
           NEW amount \in Amount, transfer_assets(who, asset, chain, amount)
    PROVE  LedgerInv' /\ Frozen
<1> DEFINE l == Ledger
           fee == get_fee(chain, asset, amount)
           rest == amount - fee
           place == SoloChain(chain)
           home == reserve_location(asset) = place
           p == move(l, asset, who, Treasury, fee)
           w == withdraw(p, asset, who, rest)
           d == deposit(w, asset, place, rest)
           m == credit(IF home THEN w ELSE move(p, asset, who, place, rest), asset, place, rest)
<1>0. RegistryInv /\ TypeOK /\ RegistryTypeOK /\ RegistryConsistent
  BY DEF LedgerInv, RegistryInv
<1>1. /\ fee # None /\ amount > fee /\ balance[asset][who] >= amount /\ registered(asset)
      /\ Commit(m) /\ Bridge!transfer(chain)
      /\ UNCHANGED <<registryVars, BridgeFee, deposits>>
  BY DEF transfer_assets
<1>2. /\ amount \in Nat /\ GoodLedger(l) /\ l.balance = balance
      /\ who \in User \cup {Temporary} /\ who \in Account /\ Treasury \in Account
      /\ place \in Place /\ place \in SoloChains /\ place \in Account
  BY <1>0, AmountsAssumption, LedgerGood, Places, Payers
<1>3. fee \in Nat
  BY <1>0, <1>1, <1>2, Fees
<1> HIDE DEF l, fee, place
<1>4. /\ rest \in Nat /\ -rest \in Int /\ -rest + rest = 0
      /\ fee <= l.balance[asset][who] /\ fee + rest <= l.balance[asset][who]
      /\ l.balance[asset][who] \in Nat
  <2>1. l.balance[asset][who] \in Nat
    BY <1>2 DEF GoodLedger
  <2> QED BY <1>1, <1>2, <1>3, <2>1
<1>5. /\ GoodLedger(p) /\ Gains(l, p, asset, 0) /\ Keeps(l, p, asset)
      /\ rest <= p.balance[asset][who]
  <2> HIDE DEF w, d, m, home
  <2>1. /\ GoodLedger(p)
        /\ who # Treasury => p.balance[asset][who] = l.balance[asset][who] - fee
    BY <1>2, <1>3, <1>4, MoveEffect
  <2>2. who = Treasury => p.balance[asset][who] = l.balance[asset][who]
    <3> SUFFICES ASSUME who = Treasury PROVE p.balance[asset][who] = l.balance[asset][who]
      OBVIOUS
    <3> DEFINE k == withdraw(l, asset, who, fee)
    <3> HIDE DEF p, w, d, m, home, rest
    <3>1. GoodLedger(k) /\ k.balance[asset][who] = l.balance[asset][who] - fee
      BY <1>2, <1>3, <1>4, WithdrawEffect
    <3> HIDE DEF k
    <3>2. deposit(k, asset, who, fee).balance[asset][who] = k.balance[asset][who] + fee
      BY <1>2, <1>3, <3>1, DepositEffect
    <3>3. p = deposit(k, asset, who, fee)
      BY DEF move, k, p
    <3> HIDE DEF p
    <3> QED BY <1>3, <1>4, <3>1, <3>2, <3>3
  <2>3. Gains(l, p, asset, 0) /\ Keeps(l, p, asset)
    BY <1>2, <1>3, <1>4, MoveGains, OperationsKeep
  <2> HIDE DEF p, rest
  <2>4. rest <= p.balance[asset][who]
    BY <1>3, <1>4, <2>1, <2>2
  <2> QED BY <2>1, <2>3, <2>4
<1> HIDE DEF p
<1>6. Gains(p, w, asset, -rest) /\ Keeps(p, w, asset)
  <2> HIDE DEF rest
  <2> QED BY <1>2, <1>4, <1>5, WithdrawGains, OperationsKeep
<1>7. GoodLedger(w)
  BY <1>6 DEF Gains
<1> HIDE DEF w, rest
<1>8. /\ rest \in Nat /\ GoodLedger(w) /\ place \in Place /\ place \in SoloChains
       /\ place \in Account
  <2> HIDE DEF m, d, home
  <2>1. rest \in Nat
    BY <1>4
  <2> QED BY <1>2, <1>7, <2>1
<1>9. Gains(w, m, asset, rest) /\ Keeps(w, m, asset)
  <2>1. CASE home
    <3>1. m = credit(w, asset, place, rest)
      BY <2>1
    <3>2. Gains(w, credit(w, asset, place, rest), asset, rest)
      BY <1>8, <2>1, CreditGains
    <3>3. Keeps(w, credit(w, asset, place, rest), asset)
      BY <1>7, OperationsKeep
    <3> HIDE DEF m
    <3> QED BY <3>1, <3>2, <3>3
  <2>2. CASE ~home
    <3>1. m = credit(d, asset, place, rest)
      BY <2>2 DEF move, w
    <3> HIDE DEF m
    <3>2. Gains(w, credit(d, asset, place, rest), asset, rest)
      BY <1>8, <2>2, LockGains
    <3>3. Keeps(w, d, asset) /\ GoodLedger(d)
      BY <1>8, OperationsKeep, DepositEffect
    <3> HIDE DEF m, d
    <3>4. Keeps(d, credit(d, asset, place, rest), asset)
      BY <3>3, OperationsKeep
    <3>5. Keeps(w, credit(d, asset, place, rest), asset)
      BY <3>3, <3>4, KeepsCompose
    <3> QED BY <3>1, <3>2, <3>5
  <2> QED BY <2>1, <2>2
<1> HIDE DEF m
<1>10. Gains(p, m, asset, 0) /\ Keeps(p, m, asset)
  <2>1. Gains(p, m, asset, -rest + rest)
    BY <1>4, <1>6, <1>9, GainsCompose
  <2> QED BY <1>4, <1>6, <1>9, <2>1, KeepsCompose
<1>11. Gains(l, m, asset, 0) /\ Keeps(l, m, asset)
  <2>1. 0 \in Int /\ 0 + 0 = 0
    OBVIOUS
  <2>2. Gains(l, m, asset, 0 + 0)
    BY <1>5, <1>10, <2>1, GainsCompose
  <2> QED BY <1>5, <1>10, <2>1, <2>2, KeepsCompose
<1>12. UNCHANGED <<Votes, dispatched, Relayers>>
  BY <1>1, BridgeTransfer
<1>13. Gains(Ledger, m, asset, 0) /\ Keeps(Ledger, m, asset)
  BY <1>11 DEF l
<1> QED BY <1>0, <1>1, <1>12, <1>13, GainsKeepInv, KeepsFreezes

\* transfer_native: the fee goes to the treasury, the amount to the bridge account.
LEMMA TransferNativeInv ==
    ASSUME LedgerInv, NEW who \in User, NEW chain \in Chain, NEW amount \in Amount,
           transfer_native(who, chain, amount)
    PROVE  LedgerInv' /\ Frozen
<1> DEFINE l == Ledger
           fee == estimate_fee_in_pha(chain, amount)
           place == SoloChain(chain)
           p == move(l, PHA, who, Treasury, fee)
           w == withdraw(p, PHA, who, amount)
           d == deposit(w, PHA, BridgeAccount, amount)
           m == credit(d, PHA, place, amount)
<1>0. /\ RegistryInv /\ TypeOK /\ RegistryTypeOK /\ RegistryConsistent
      /\ PHA \in Asset /\ reserve_location(PHA) = PHA
  BY HomeOfPHA DEF LedgerInv, RegistryInv
<1>1. /\ balance[PHA][who] >= amount + fee
      /\ Commit(m) /\ Bridge!transfer(chain)
      /\ UNCHANGED <<registryVars, BridgeFee, deposits>>
  BY DEF transfer_native, move
<1>2. /\ amount \in Nat /\ GoodLedger(l) /\ l.balance = balance
      /\ who \in User \cup {Temporary} /\ who \in Account /\ Treasury \in Account
      /\ BridgeAccount \in Account
      /\ place \in Place /\ place \in SoloChains /\ place # PHA
  BY <1>0, AmountsAssumption, LedgerGood, Places, Payers
<1>3. fee \in Nat
  BY <1>0, <1>2, Fees
<1> HIDE DEF l, fee, place
<1>4. /\ -amount \in Int /\ -amount + amount = 0
      /\ fee <= l.balance[PHA][who] /\ fee + amount <= l.balance[PHA][who]
      /\ l.balance[PHA][who] \in Nat
  <2>1. l.balance[PHA][who] \in Nat
    BY <1>0, <1>2 DEF GoodLedger
  <2> QED BY <1>1, <1>2, <1>3, <2>1
<1>5. /\ GoodLedger(p) /\ Gains(l, p, PHA, 0) /\ Keeps(l, p, PHA)
      /\ amount <= p.balance[PHA][who]
  <2> HIDE DEF w, d, m
  <2>1. /\ GoodLedger(p)
        /\ who # Treasury => p.balance[PHA][who] = l.balance[PHA][who] - fee
    <3>1. PHA \in Asset /\ GoodLedger(l) /\ who \in Account /\ Treasury \in Account
      BY <1>0, <1>2
    <3>2. fee \in Nat /\ fee <= l.balance[PHA][who]
      BY <1>3, <1>4
    <3> QED BY <3>1, <3>2, MoveEffect
  <2>2. who = Treasury => p.balance[PHA][who] = l.balance[PHA][who]
    <3> SUFFICES ASSUME who = Treasury PROVE p.balance[PHA][who] = l.balance[PHA][who]
      OBVIOUS
    <3> DEFINE k == withdraw(l, PHA, who, fee)
    <3> HIDE DEF p, w, d, m
    <3>1. GoodLedger(k) /\ k.balance[PHA][who] = l.balance[PHA][who] - fee
      BY <1>0, <1>2, <1>3, <1>4, WithdrawEffect
    <3> HIDE DEF k
    <3>2. deposit(k, PHA, who, fee).balance[PHA][who] = k.balance[PHA][who] + fee
      BY <1>0, <1>2, <1>3, <3>1, DepositEffect
    <3>3. p = deposit(k, PHA, who, fee)
      BY DEF move, k, p
    <3> HIDE DEF p
    <3> QED BY <1>3, <1>4, <3>1, <3>2, <3>3
  <2>3. Gains(l, p, PHA, 0) /\ Keeps(l, p, PHA)
    BY <1>0, <1>2, <1>3, <1>4, MoveGains, OperationsKeep
  <2> HIDE DEF p
  <2>4. amount <= p.balance[PHA][who]
    BY <1>2, <1>3, <1>4, <2>1, <2>2
  <2> QED BY <2>1, <2>3, <2>4
<1> HIDE DEF p
<1>6. Gains(p, w, PHA, -amount) /\ Keeps(p, w, PHA)
  BY <1>0, <1>2, <1>4, <1>5, WithdrawGains, OperationsKeep
<1>7. GoodLedger(w)
  BY <1>6 DEF Gains
<1> HIDE DEF w
<1>8. Gains(w, m, PHA, amount) /\ Keeps(w, m, PHA)
  <2>1. Gains(w, m, PHA, amount)
    BY <1>0, <1>2, <1>7, LockGains
  <2>2. Keeps(w, d, PHA) /\ GoodLedger(d)
    BY <1>0, <1>2, <1>7, OperationsKeep, DepositEffect
  <2> HIDE DEF d
  <2>3. Keeps(d, m, PHA)
    BY <2>2, OperationsKeep
  <2> HIDE DEF m
  <2> QED BY <2>1, <2>2, <2>3, KeepsCompose
<1> HIDE DEF m
<1>9. Gains(p, m, PHA, 0) /\ Keeps(p, m, PHA)
  <2>1. amount \in Int
    BY <1>2
  <2>2. Gains(p, m, PHA, -amount + amount)
    BY <1>0, <1>4, <1>6, <1>8, <2>1, GainsCompose
  <2> QED BY <1>4, <1>6, <1>8, <2>2, KeepsCompose
<1>10. Gains(l, m, PHA, 0) /\ Keeps(l, m, PHA)
  <2>1. 0 \in Int /\ 0 + 0 = 0
    OBVIOUS
  <2>2. Gains(l, m, PHA, 0 + 0)
    BY <1>0, <1>5, <1>9, <2>1, GainsCompose
  <2> QED BY <1>5, <1>9, <2>1, <2>2, KeepsCompose
<1>11. UNCHANGED <<Votes, dispatched, Relayers>>
  BY <1>1, BridgeTransfer
<1>12. Gains(Ledger, m, PHA, 0) /\ Keeps(Ledger, m, PHA)
  BY <1>10 DEF l
<1> QED BY <1>0, <1>1, <1>11, <1>12, GainsKeepInv, KeepsFreezes

\* transfer_asset and transfer_native of the XCM transfer pallet, with the fee that goes along.
LEMMA XcmTransferInv ==
    ASSUME LedgerInv, NEW who \in User, NEW asset \in Asset, NEW amount \in Amount,
           xcm_transfer(who, asset, amount)
    PROVE  LedgerInv' /\ Frozen
<1> DEFINE m == do_transfer_multiasset(Ledger, who, asset, amount, SiblingChain)
<1>0. TypeOK /\ amount \in Nat /\ who \in User \cup {Temporary}
      /\ GoodLedger(Ledger) /\ Ledger.balance = balance
  BY AmountsAssumption, LedgerGood DEF LedgerInv
<1>1. /\ Commit(m) /\ UNCHANGED <<registryVars, BridgeFee, deposits>>
      /\ UNCHANGED <<Votes, dispatched, Relayers>>
  BY DEF xcm_transfer, bridgeVars
<1>2. /\ Gains(Ledger, m, asset, 0)
      /\ \A a \in Asset \ {PHA} : a # asset \/ ~registered(a) => m.balance[a] = Ledger.balance[a]
  BY <1>0, MultiassetGains
<1> HIDE DEF m
<1>3. LedgerInv'
  BY <1>1, <1>2, GainsKeepInv
<1>4. Frozen
  BY <1>0, <1>1, <1>2 DEF Frozen, Commit
<1> QED BY <1>3, <1>4

\* What arrives from the sibling for an account of this chain (deposit_asset of the adapter).
LEMMA XcmDepositInv ==
    ASSUME LedgerInv, NEW who \in User, NEW asset \in Asset, NEW amount \in Amount,
           xcm_deposit(asset, amount, who)
    PROVE  LedgerInv' /\ Frozen
<1> DEFINE k == Received(asset, amount)
           i == take_revenue(asset) - amount
           j == amount - take_revenue(asset)
           m == deposit(k, asset, who, j)
<1>0. TypeOK /\ amount \in Nat /\ who \in Account
  BY AmountsAssumption, Payers DEF LedgerInv
<1>1. /\ Commit(m) /\ UNCHANGED <<registryVars, BridgeFee, deposits>>
      /\ UNCHANGED <<Votes, dispatched, Relayers>> /\ MayReceive(asset, amount)
  BY DEF xcm_deposit, bridgeVars
<1>2. /\ Gains(Ledger, k, asset, i) /\ Keeps(Ledger, k, asset)
      /\ take_revenue(asset) \in Nat /\ j \in Nat
  BY <1>0, <1>1, ReceivedGains
<1>3. i \in Int /\ i + j = 0
  BY <1>0, <1>2
<1>4. GoodLedger(k)
  BY <1>2 DEF Gains
<1> HIDE DEF k, i, j
<1>5. Gains(k, m, asset, j) /\ Keeps(k, m, asset)
  BY <1>0, <1>2, <1>4, DepositGains, OperationsKeep
<1> HIDE DEF m
<1>6. Gains(Ledger, m, asset, i + j) /\ Keeps(Ledger, m, asset)
  BY <1>2, <1>3, <1>5, GainsCompose, KeepsCompose
<1>7. registered(asset) \/ asset = PHA
  BY <1>1, HomeOfPHA DEF MayReceive, matches_fungibles
<1>8. LedgerInv'
  BY <1>1, <1>3, <1>6, GainsKeepInv
<1> QED BY <1>0, <1>1, <1>6, <1>7, <1>8, KeepsFreezes

\* What arrives from the sibling for a bridged chain, also when the bridge refuses it.
LEMMA XcmForwardInv ==
    ASSUME LedgerInv, NEW asset \in Asset, NEW amount \in Amount, NEW chain \in Chain,
           xcm_forward(asset, amount, chain)
    PROVE  LedgerInv' /\ Frozen
<1> DEFINE k == Received(asset, amount)
           i == take_revenue(asset) - amount
           j == amount - take_revenue(asset)
           m == forward(k, asset, j, chain)
<1>0. TypeOK /\ amount \in Nat /\ RegistryTypeOK /\ RegistryConsistent
  BY AmountsAssumption DEF LedgerInv, RegistryInv
<1>1. /\ Commit(m) /\ UNCHANGED <<registryVars, BridgeFee, deposits>>
      /\ UNCHANGED <<Votes, dispatched, Relayers>> /\ MayReceive(asset, amount)
  <2>1. Bridge!transfer(chain) \/ UNCHANGED bridgeVars
    BY DEF xcm_forward
  <2> QED BY <2>1, BridgeTransfer DEF xcm_forward
<1>2. /\ Gains(Ledger, k, asset, i) /\ Keeps(Ledger, k, asset)
      /\ take_revenue(asset) \in Nat /\ j \in Nat
  BY <1>0, <1>1, ReceivedGains
<1>3. i \in Int /\ i + j = 0
  BY <1>0, <1>2
<1>4. GoodLedger(k)
  BY <1>2 DEF Gains
<1> HIDE DEF k, i, j
<1>5. Gains(k, m, asset, j) /\ Keeps(k, m, asset)
  BY <1>0, <1>2, <1>4, ForwardGains
<1> HIDE DEF m
<1>6. Gains(Ledger, m, asset, i + j) /\ Keeps(Ledger, m, asset)
  BY <1>2, <1>3, <1>5, GainsCompose, KeepsCompose
<1>7. registered(asset) \/ asset = PHA
  BY <1>1, HomeOfPHA DEF MayReceive, matches_fungibles
<1>8. LedgerInv'
  BY <1>1, <1>3, <1>6, GainsKeepInv
<1> QED BY <1>0, <1>1, <1>6, <1>7, <1>8, KeepsFreezes

\* What is deposited on a bridged chain is on its way from then on, and no longer held there.
LEMMA EvmDepositInv ==
    ASSUME LedgerInv, NEW chain \in Chain, NEW call \in Proposal, EvmDeposit(chain, call)
    PROVE  LedgerInv' /\ Frozen
<1> DEFINE place == SoloChain(chain)
           asset == call.asset
           n == call.amount
           m == debit(Ledger, asset, place, n)
<1>0. RegistryInv /\ TypeOK /\ ExecutedOnceDeposited /\ NothingMinted /\ ClaimsLocked
  BY DEF LedgerInv
<1>1. /\ asset \in Asset /\ n \in Nat /\ place \in Place
      /\ GoodLedger(Ledger) /\ Ledger.balance = balance /\ Ledger.held = held
  BY <1>0, AmountsAssumption, LedgerGood, Places DEF Proposal
<1>2. /\ call.nonce = Cardinality(deposits[chain]) + 1
      /\ deposits' = [deposits EXCEPT ![chain] = @ \cup {call}]
      /\ held[place][asset] >= n
      /\ UNCHANGED <<registryVars, BridgeFee>>
      /\ UNCHANGED <<Votes, dispatched, Relayers>>
      /\ UNCHANGED balance
  BY DEF EvmDeposit, bridgeVars
<1>3. Commit(m)
  BY <1>1 DEF EvmDeposit, Commit, debit
<1>4. ExecutedOnceDeposited' /\ call \notin deposits[chain]
  BY <1>0, <1>2, DepositKeeps
<1>5. PendingChanges(chain, asset, n)
  BY <1>0, <1>2, <1>4, PendingDeposited
<1> HIDE DEF asset, n
<1>6. Pays(Ledger, m, chain, asset, -n)
  <2>1. held[place][asset] \in Nat
    BY <1>1 DEF GoodLedger
  <2>2. n <= Ledger.held[place][asset]
    BY <1>1, <1>2, <2>1
  <2> QED BY <1>1, <2>2, DebitPays
<1>7. n \in Int /\ -n \in Int /\ -n + n = 0
  BY <1>1
<1> HIDE DEF m
<1>8. /\ balance' \in [Asset -> [Account -> Nat]] /\ held' \in [Place -> [Asset -> Nat]]
      /\ NothingMinted' /\ ClaimsLocked'
  BY <1>0, <1>1, <1>3, <1>5, <1>6, <1>7, PaysKeepsInv
<1>9. RegistryInv'
  BY <1>0, <1>2, RegistrySame
<1>10. TypeOK'
  <2>1. deposits' \in [Chain -> SUBSET Proposal]
    BY <1>0, <1>2 DEF TypeOK
  <2> QED BY <1>0, <1>2, <1>8, <2>1 DEF TypeOK
<1>11. Frozen
  BY <1>2 DEF Frozen
<1> QED BY <1>4, <1>8, <1>9, <1>10, <1>11 DEF LedgerInv

\* The relayers' calls execute a proposal, or do not touch the ledger.
LEMMA VoteInv ==
    ASSUME LedgerInv, NEW chain \in Chain, NEW call \in deposits[chain],
           \/ \E who, in_favour : vote(who, chain, call, in_favour)
           \/ eval_vote_state(chain, call)
    PROVE  LedgerInv' /\ Frozen
<1>0. TypeOK /\ ExecutedOnceDeposited
  BY DEF LedgerInv
<1>1. CASE \E who, in_favour : vote(who, chain, call, in_favour)
  <2>1. PICK who, in_favour : vote(who, chain, call, in_favour)
    BY <1>1
  <2>2. /\ Bridge!vote(who, chain, call, in_favour, transfer(chain, call).ok)
        /\ Executed(chain, call) /\ UNCHANGED <<registryVars, BridgeFee, deposits>>
    BY <2>1 DEF vote
  <2>3. /\ ExecutedOnceDeposited'
        /\ \/ dispatched' = dispatched
           \/ /\ dispatched[chain][call] = 0
              /\ dispatched' = [dispatched EXCEPT ![chain][call] = 1]
    BY <1>0, <2>2, VoteKeeps
  <2> QED BY <2>2, <2>3, ExecutedKeeps
<1>2. CASE eval_vote_state(chain, call)
  <2>1. /\ Bridge!eval_vote_state(chain, call, transfer(chain, call).ok)
        /\ Executed(chain, call) /\ UNCHANGED <<registryVars, BridgeFee, deposits>>
    BY <1>2 DEF eval_vote_state
  <2>2. /\ ExecutedOnceDeposited'
        /\ \/ dispatched' = dispatched
           \/ /\ dispatched[chain][call] = 0
              /\ dispatched' = [dispatched EXCEPT ![chain][call] = 1]
    BY <1>0, <2>1, EvalKeeps
  <2> QED BY <2>1, <2>2, ExecutedKeeps
<1> QED BY <1>1, <1>2

\* What concerns the bridge, the registry or the fees alone.
LEMMA OtherInv ==
    ASSUME LedgerInv, UNCHANGED <<ledgerVars, deposits>>,
           \/ Committee
           \/ \E chain \in Chain, option \in FeeOption : update_fee(chain, option)
           \/ /\ UNCHANGED <<registryVars, BridgeFee>>
              /\ \/ Bridge!on_initialize
                 \/ \E threshold : Bridge!set_threshold(threshold)
                 \/ \E chain : Bridge!whitelist_chain(chain)
                 \/ UNCHANGED bridgeVars
    PROVE  LedgerInv' /\ Frozen
<1>0. RegistryInv /\ TypeOK /\ ExecutedOnceDeposited
  BY DEF LedgerInv
<1>1. RegistryInv'
  <2>1. UNCHANGED registryVars \/ Committee
    BY DEF update_fee
  <2> QED BY <1>0, <2>1, CommitteeInv, RegistrySame
<1>2. ExecutedOnceDeposited' /\ dispatched' = dispatched
  <2>1. CASE Bridge!on_initialize
    BY <1>0, <2>1, BlockKeeps
  <2>2. CASE UNCHANGED <<Votes, dispatched, Relayers>>
    BY <1>0, <2>2, RecordsSame
  <2>3. Bridge!on_initialize \/ UNCHANGED <<Votes, dispatched, Relayers>>
    BY DEF Committee, update_fee, bridgeVars, Bridge!set_threshold, Bridge!whitelist_chain,
           Bridge!adminVars, Bridge!proposalVars
  <2> QED BY <2>1, <2>2, <2>3
<1>3. TypeOK'
  <2>1. BridgeFee' \in [Chain -> FeeOption \cup {None}]
    BY <1>0 DEF TypeOK, Committee, update_fee
  <2> QED BY <1>0, <2>1 DEF TypeOK, ledgerVars
<1>4. Frozen
  BY DEF Frozen, ledgerVars
<1> QED BY <1>1, <1>2, <1>3, <1>4, LedgerSame

-----------------------------------------------------------------------------
(* The invariant *)

\* In the beginning nothing is on its way.
LEMMA NothingWaits ==
    ASSUME NEW chain \in Chain, NEW asset, deposits = [c \in Chain |-> {}]
    PROVE  Pending(chain, asset) = 0
<1>1. {call \in deposits[chain] : call.asset = asset /\ dispatched[chain][call] = 0} = {}
  OBVIOUS
<1> QED BY <1>1, SumEmpty DEF Pending, Sum

\* In the beginning an asset is at its home alone, or with the users if this is its home: there
\* is as much of it as was given out (Init).
LEMMA InitWorth ==
    ASSUME NEW setup \in Setup, NEW asset \in Asset,
           balance = [a \in Asset |-> [who \in Account |->
                         IF a = PHA /\ who \in User THEN setup.amount[a] ELSE 0]],
           held = [place \in Place |-> [a \in Asset |->
                      IF reserve_location(a) = place THEN setup.amount[a] ELSE 0]]
    PROVE  Worth(Ledger, asset) <= Supply(asset)
<1> DEFINE f == balance[asset]
           rest == Account \ User
           n == setup.amount[asset]
           home == reserve_location(asset)
<1>1. /\ Supply(asset) \in Nat /\ n \in Nat
      /\ asset # PHA => n <= Supply(asset)
      /\ asset = PHA => n * Cardinality(User) <= Supply(asset)
  BY SupplyBounds
<1>2. /\ IsFiniteSet(User) /\ IsFiniteSet(rest) /\ IsFiniteSet(Account)
      /\ Account = User \cup rest /\ User \cap rest = {}
  <2>1. User \subseteq Account
    BY DEF Account
  <2> QED BY <2>1, FiniteAccounts, FS_Subset
<1>3. \A who \in Account : f[who] = IF asset = PHA /\ who \in User THEN n ELSE 0
  OBVIOUS
<1>4. Worth(Ledger, asset) = SumFunctionOnSet(f, Account)
        + (IF home \in SoloChains THEN held[home][asset] ELSE 0)
        + (IF origin(asset) = SiblingChain THEN held[SiblingChain][asset] ELSE 0)
  BY DEF Worth, Sum, Ledger
<1>5. \A place \in Place : held[place][asset] = IF home = place THEN n ELSE 0
  OBVIOUS
<1> HIDE DEF f, n, home
<1>6. CASE asset = PHA
  <2>1. home = PHA /\ PHA \notin Place /\ SoloChains \subseteq Place /\ origin(asset) # SiblingChain
        /\ SiblingChain \in Place
    BY <1>6, HomeOfPHA, Places DEF home
  <2>2. SumFunctionOnSet(f, User) = n * Cardinality(User)
    BY <1>1, <1>2, <1>3, <1>6, SumConstant
  <2>3. SumFunctionOnSet(f, rest) = 0
    BY <1>2, <1>3, SumZero
  <2>4. \A who \in User \cup rest : f[who] \in Int
    BY <1>1, <1>2, <1>3
  <2> HIDE DEF rest
  <2>5. SumFunctionOnSet(f, User \cup rest) = SumFunctionOnSet(f, User) + SumFunctionOnSet(f, rest)
    BY <1>2, <2>4, SumUnion
  <2>6. n * Cardinality(User) \in Int
    BY <1>1, <1>2, FS_CardinalityType, Arithmetic
  <2>7. SumFunctionOnSet(f, Account) = n * Cardinality(User)
    BY <1>2, <2>2, <2>3, <2>5, <2>6
  <2>8. home \notin SoloChains
    BY <2>1
  <2> QED BY <1>1, <1>4, <1>6, <2>1, <2>6, <2>7, <2>8
<1>7. CASE asset # PHA
  <2>1. SumFunctionOnSet(f, Account) = 0
    BY <1>2, <1>3, <1>7, SumZero
  <2>2. /\ SiblingChain \in Place /\ SoloChains \subseteq Place
        /\ home \in SoloChains => home # SiblingChain
    BY Places DEF SoloChains
  <2> QED BY <1>1, <1>4, <1>5, <1>7, <2>1, <2>2
<1> QED BY <1>6, <1>7

\* In the beginning nothing is locked here, and nothing is claimed.
LEMMA InitLocked ==
    ASSUME NEW setup \in Setup,
           balance = [a \in Asset |-> [who \in Account |->
                         IF a = PHA /\ who \in User THEN setup.amount[a] ELSE 0]],
           held = [place \in Place |-> [a \in Asset |->
                      IF reserve_location(a) = place THEN setup.amount[a] ELSE 0]]
    PROVE  /\ \A asset \in Asset, place \in Place :
                 reserve_location(asset) # place => Locked(Ledger, place, asset) = 0
           /\ LockedPHA(Ledger) = 0
<1>1. /\ Place \subseteq Account /\ User \cap Place = {} /\ BridgeAccount \notin User
      /\ BridgeAccount \in Account
  BY Places, Payers, PlacesAssumption
<1>2. ASSUME NEW asset \in Asset, NEW place \in Place, reserve_location(asset) # place
      PROVE  Locked(Ledger, place, asset) = 0
  <2>1. balance[asset][place] = 0 /\ held[place][asset] = 0
    BY <1>1, <1>2
  <2> QED BY <2>1 DEF Locked, Ledger
<1>3. \A chain \in Chain : Locked(Ledger, SoloChain(chain), PHA) = 0
  BY <1>2, HomeOfPHA, Places
<1>4. balance[PHA][BridgeAccount] = 0
  BY <1>1, HomeOfPHA
<1> DEFINE f == [chain \in Chain |-> Locked(Ledger, SoloChain(chain), PHA)]
<1>5. SumFunctionOnSet(f, Chain) = 0
  <2>1. \A chain \in Chain : f[chain] = 0
    BY <1>3
  <2> HIDE DEF f
  <2> QED BY <2>1, FiniteAccounts, SumZero
<1>6. LockedPHA(Ledger) = balance[PHA][BridgeAccount] + SumFunctionOnSet(f, Chain)
  BY DEF LockedPHA, Sum, Ledger
<1> HIDE DEF f
<1> QED BY <1>2, <1>4, <1>5, <1>6

\* The state that the committee sets up has the invariant.
LEMMA LedgerInit ==
    ASSUME Init
    PROVE  LedgerInv
<1>1. PICK setup \in Setup :
        /\ RegistryInit(AssetId \ setup.free)
        /\ balance = [asset \in Asset |-> [who \in Account |->
                        IF asset = PHA /\ who \in User THEN setup.amount[asset] ELSE 0]]
        /\ held = [place \in Place |-> [asset \in Asset |->
                        IF reserve_location(asset) = place THEN setup.amount[asset] ELSE 0]]
  BY DEF Init
<1>2. /\ Relayers = Relayer
      /\ Votes = [chain \in Chain |-> [call \in Proposal |-> None]]
      /\ dispatched = [chain \in Chain |-> [call \in Proposal |-> 0]]
      /\ BridgeFee \in [Chain -> FeeOption \cup {None}]
      /\ deposits = [chain \in Chain |-> {}]
  BY DEF Init
<1>3. RegistryInv
  <2>1. AssetId \ setup.free \in SUBSET AssetId
    OBVIOUS
  <2> QED BY <1>1, <2>1, InitRegistry
<1>4. TypeOK
  <2>1. \A asset \in Asset : setup.amount[asset] \in Nat
    BY SupplyBounds
  <2>2. balance \in [Asset -> [Account -> Nat]]
    BY <1>1, <2>1
  <2>3. held \in [Place -> [Asset -> Nat]]
    BY <1>1, <2>1
  <2> QED BY <1>2, <2>2, <2>3 DEF TypeOK
<1>5. ExecutedOnceDeposited
  <2>1. \A chain \in Chain : deposits[chain] = {} /\ IsFiniteSet(deposits[chain])
    BY <1>2, FS_EmptySet
  <2>2. /\ Votes \in [Chain -> [Proposal -> Bridge!ProposalVotes \cup {None}]]
        /\ dispatched \in [Chain -> [Proposal -> Nat]]
        /\ Relayers \subseteq Relayer
    BY <1>2
  <2>3. \A chain \in Chain : \A call \in Proposal : dispatched[chain][call] = 0
    BY <1>2
  <2> QED BY <2>1, <2>2, <2>3 DEF ExecutedOnceDeposited
<1>6. \A chain \in Chain, asset \in Asset : Pending(chain, asset) = 0
  BY <1>2, NothingWaits
<1>7. NothingMinted
  <2> SUFFICES ASSUME NEW asset \in Asset
               PROVE  Worth(Ledger, asset) + FromHome(asset) <= Supply(asset)
    BY DEF NothingMinted
  <2>1. Worth(Ledger, asset) <= Supply(asset)
    BY <1>1, InitWorth
  <2> DEFINE f == [chain \in Chain |-> IF SoloChain(chain) = reserve_location(asset)
                                       THEN Pending(chain, asset) ELSE 0]
  <2>2. \A chain \in Chain : f[chain] = 0
    BY <1>6
  <2>3. FromHome(asset) = SumFunctionOnSet(f, Chain)
    BY DEF FromHome, Sum
  <2> HIDE DEF f
  <2>4. SumFunctionOnSet(f, Chain) = 0
    BY <2>2, FiniteAccounts, SumZero
  <2>5. Worth(Ledger, asset) \in Nat /\ Supply(asset) \in Nat
    BY <1>4, LedgerGood, Measures, SupplyBounds
  <2> QED BY <2>1, <2>3, <2>4, <2>5
<1>8. ClaimsLocked
  <2>1. /\ \A asset \in Asset, place \in Place :
              reserve_location(asset) # place => Locked(Ledger, place, asset) = 0
        /\ LockedPHA(Ledger) = 0
    BY <1>1, InitLocked
  <2>2. \A chain \in Chain : SoloChain(chain) \in Place
    BY Places
  <2>3. \A asset \in Asset : is_native_asset_id(origin(asset)) =>
           reserve_location(asset) # SiblingChain /\ SiblingChain \in Place
    BY NativeOrigin, ReservedOnSibling, Places
  <2> DEFINE f == [chain \in Chain |-> Pending(chain, PHA)]
  <2>4. \A chain \in Chain : f[chain] = 0
    BY <1>6, HomeOfPHA
  <2>5. Sum(f, Chain) = 0
    <3> HIDE DEF f
    <3> QED BY <2>4, FiniteAccounts, SumZero DEF Sum
  <2>6. Sum(f, Chain) <= LockedPHA(Ledger)
    <3> HIDE DEF f
    <3> QED BY <2>1, <2>5
  <2> QED BY <1>6, <2>1, <2>2, <2>3, <2>6 DEF ClaimsLocked
<1> QED BY <1>3, <1>4, <1>5, <1>7, <1>8 DEF LedgerInv

\* No step breaks the invariant, nor moves an asset that is not registered.
LEMMA LedgerNext ==
    ASSUME LedgerInv, [Next]_vars
    PROVE  LedgerInv' /\ Frozen
<1>1. CASE UNCHANGED vars
  BY <1>1, OtherInv DEF vars
<1>2. CASE Committee
  BY <1>2, OtherInv DEF Committee
<1>3. ASSUME NEW asset \in Asset, NEW amount \in Amount, NEW who \in User,
             xcm_transfer(who, asset, amount)
      PROVE  LedgerInv' /\ Frozen
  BY <1>3, XcmTransferInv
<1>4. ASSUME NEW asset \in Asset, NEW amount \in Amount, NEW who \in User,
             xcm_deposit(asset, amount, who)
      PROVE  LedgerInv' /\ Frozen
  BY <1>4, XcmDepositInv
<1>5. ASSUME NEW asset \in Asset, NEW amount \in Amount, NEW chain \in Chain,
             xcm_forward(asset, amount, chain)
      PROVE  LedgerInv' /\ Frozen
  BY <1>5, XcmForwardInv
<1>6. ASSUME NEW asset \in Asset, NEW amount \in Amount, NEW chain \in Chain, NEW who \in User,
             transfer_assets(who, asset, chain, amount)
      PROVE  LedgerInv' /\ Frozen
  BY <1>6, TransferAssetsInv
<1>7. ASSUME NEW chain \in Chain, NEW option \in FeeOption, update_fee(chain, option)
      PROVE  LedgerInv' /\ Frozen
  <2>1. UNCHANGED <<ledgerVars, deposits>>
    BY <1>7 DEF update_fee
  <2> QED BY <1>7, <2>1, OtherInv
<1>8. ASSUME NEW chain \in Chain, NEW who \in User, NEW amount \in Amount,
             transfer_native(who, chain, amount)
      PROVE  LedgerInv' /\ Frozen
  BY <1>8, TransferNativeInv
<1>9. ASSUME NEW chain \in Chain, NEW call \in Proposal, EvmDeposit(chain, call)
      PROVE  LedgerInv' /\ Frozen
  BY <1>9, EvmDepositInv
<1>10. ASSUME NEW chain \in Chain, NEW call \in deposits[chain],
              \/ \E who, in_favour : vote(who, chain, call, in_favour)
              \/ eval_vote_state(chain, call)
       PROVE  LedgerInv' /\ Frozen
  BY <1>10, VoteInv
<1>11. ASSUME \/ Bridge!on_initialize
              \/ \E threshold : Bridge!set_threshold(threshold)
              \/ \E chain : Bridge!whitelist_chain(chain),
              UNCHANGED <<registryVars, ledgerVars, BridgeFee, deposits>>
       PROVE  LedgerInv' /\ Frozen
  BY <1>11, OtherInv
<1> QED
  BY <1>1, <1>2, <1>3, <1>4, <1>5, <1>6, <1>7, <1>8, <1>9, <1>10, <1>11 DEF Next

-----------------------------------------------------------------------------
(* What follows *)

\* The worth of an asset, by which the invariant counts, is at least what there is of it.
LEMMA InvInflation ==
    ASSUME LedgerInv
    PROVE  NoInflation
<1> SUFFICES ASSUME NEW asset \in Asset PROVE Total(asset) <= Supply(asset)
  BY DEF NoInflation
<1> DEFINE home == reserve_location(asset)
           s == Sum(balance[asset], Account)
<1>1. TypeOK /\ ExecutedOnceDeposited /\ Worth(Ledger, asset) + FromHome(asset) <= Supply(asset)
  BY DEF LedgerInv, NothingMinted
<1>2. Total(asset) = s + (IF home \in Place THEN held[home][asset] ELSE 0) + FromHome(asset)
  BY DEF Total, FromHome
<1>3. Worth(Ledger, asset) = s
        + (IF home \in SoloChains THEN held[home][asset] ELSE 0)
        + (IF origin(asset) = SiblingChain THEN held[SiblingChain][asset] ELSE 0)
  BY DEF Worth, Ledger
<1>4. s \in Nat
  <2>1. \A who \in Account : balance[asset][who] \in Nat
    BY <1>1 DEF TypeOK
  <2> QED BY <2>1, FiniteAccounts, SumNat DEF Sum
<1>5. FromHome(asset) \in Nat
  <2> DEFINE f == [chain \in Chain |-> IF SoloChain(chain) = home THEN Pending(chain, asset) ELSE 0]
  <2>1. \A chain \in Chain : f[chain] \in Nat
    BY <1>1, WaitingFinite
  <2>2. FromHome(asset) = SumFunctionOnSet(f, Chain)
    BY DEF FromHome, Sum
  <2> HIDE DEF f
  <2> QED BY <2>1, <2>2, FiniteAccounts, SumNat
<1>6. /\ \A place \in Place : held[place][asset] \in Nat
      /\ home \in Place => home \in SoloChains \/ home = SiblingChain
      /\ SiblingChain \in Place /\ SoloChains \subseteq Place /\ SiblingChain \notin SoloChains
      /\ home = SiblingChain => origin(asset) = SiblingChain
  BY <1>1, Places, ReservedOnSibling DEF TypeOK, Place, SoloChains
<1>7. Supply(asset) \in Nat
  BY SupplyBounds
<1> HIDE DEF s, home
<1>8. Worth(Ledger, asset) >= s + (IF home \in Place THEN held[home][asset] ELSE 0)
  <2>1. CASE home \in SoloChains
    BY <1>3, <1>4, <1>6, <2>1
  <2>2. CASE home = SiblingChain
    BY <1>3, <1>4, <1>6, <2>2
  <2>3. CASE home \notin Place
    BY <1>3, <1>4, <1>6, <2>3
  <2> QED BY <1>6, <2>1, <2>2, <2>3
<1>9. /\ (IF home \in Place THEN held[home][asset] ELSE 0) \in Nat
      /\ Worth(Ledger, asset) \in Nat
  BY <1>1, <1>6, LedgerGood, Measures
<1> QED BY <1>1, <1>2, <1>4, <1>5, <1>7, <1>8, <1>9

\* What is locked, and exceeds what is held elsewhere by what is on its way, covers both.
LEMMA InvClaims ==
    ASSUME LedgerInv
    PROVE  ClaimsCovered
<1>1. TypeOK /\ ExecutedOnceDeposited /\ ClaimsLocked
  BY DEF LedgerInv
<1>2. /\ \A asset \in Asset, who \in Account : balance[asset][who] \in Nat
      /\ \A asset \in Asset, place \in Place : held[place][asset] \in Nat
      /\ \A asset \in Asset, chain \in Chain : Pending(chain, asset) \in Nat
      /\ PHA \in Asset /\ BridgeAccount \in Account
      /\ \A chain \in Chain : SoloChain(chain) \in Place /\ SoloChain(chain) \in Account
      /\ SiblingChain \in Place /\ SiblingChain \in Account
  BY <1>1, WaitingFinite, HomeOfPHA, Places, Payers DEF TypeOK
<1>3. \A asset, place : Locked(Ledger, place, asset) = balance[asset][place] - held[place][asset]
  BY DEF Locked, Ledger
<1>4. ASSUME NEW asset \in Asset \ {PHA}, NEW chain \in Chain,
             reserve_location(asset) # SoloChain(chain)
      PROVE  Claims(chain, asset) <= balance[asset][SoloChain(chain)]
  <2>1. Pending(chain, asset) <= Locked(Ledger, SoloChain(chain), asset)
    BY <1>1, <1>4 DEF ClaimsLocked
  <2>2. /\ Pending(chain, asset) \in Nat
        /\ balance[asset][SoloChain(chain)] \in Nat /\ held[SoloChain(chain)][asset] \in Nat
    BY <1>2
  <2>3. Claims(chain, asset) = held[SoloChain(chain)][asset] + Pending(chain, asset)
    BY DEF Claims
  <2> QED BY <1>3, <2>1, <2>2, <2>3
<1>5. ASSUME NEW asset \in Asset, is_native_asset_id(origin(asset))
      PROVE  held[SiblingChain][asset] <= balance[asset][SiblingChain]
  <2>1. 0 <= Locked(Ledger, SiblingChain, asset)
    BY <1>1, <1>5 DEF ClaimsLocked
  <2>2. balance[asset][SiblingChain] \in Nat /\ held[SiblingChain][asset] \in Nat
    BY <1>2
  <2> QED BY <1>3, <2>1, <2>2
<1> DEFINE c == [chain \in Chain |-> Claims(chain, PHA)]
           h == [chain \in Chain |-> held[SoloChain(chain)][PHA]]
           p == [chain \in Chain |-> Pending(chain, PHA)]
           b == [chain \in Chain |-> balance[PHA][SoloChain(chain)]]
           k == [chain \in Chain |-> Locked(Ledger, SoloChain(chain), PHA)]
<1>6. \A chain \in Chain :
        /\ h[chain] \in Int /\ p[chain] \in Int /\ b[chain] \in Int /\ k[chain] \in Int
        /\ c[chain] = h[chain] + p[chain]
        /\ b[chain] = k[chain] + h[chain]
  <2> SUFFICES ASSUME NEW chain \in Chain
               PROVE  /\ h[chain] \in Int /\ p[chain] \in Int /\ b[chain] \in Int /\ k[chain] \in Int
                      /\ c[chain] = h[chain] + p[chain]
                      /\ b[chain] = k[chain] + h[chain]
    OBVIOUS
  <2>1. /\ held[SoloChain(chain)][PHA] \in Nat /\ balance[PHA][SoloChain(chain)] \in Nat
        /\ Pending(chain, PHA) \in Nat
    BY <1>2
  <2> QED BY <1>3, <2>1 DEF Claims
<1>7. /\ SumFunctionOnSet(p, Chain) <= LockedPHA(Ledger)
      /\ LockedPHA(Ledger) = balance[PHA][BridgeAccount] + SumFunctionOnSet(k, Chain)
  BY <1>1 DEF ClaimsLocked, LockedPHA, Sum, Ledger
<1> HIDE DEF c, h, p, b, k
<1>8. IsFiniteSet(Chain)
  BY FiniteAccounts
<1>9. SumFunctionOnSet(c, Chain) = SumFunctionOnSet(h, Chain) + SumFunctionOnSet(p, Chain)
  BY <1>6, <1>8, SumPlus
<1>10. SumFunctionOnSet(b, Chain) = SumFunctionOnSet(k, Chain) + SumFunctionOnSet(h, Chain)
  BY <1>6, <1>8, SumPlus
<1>11. /\ SumFunctionOnSet(h, Chain) \in Int /\ SumFunctionOnSet(p, Chain) \in Int
       /\ SumFunctionOnSet(k, Chain) \in Int /\ balance[PHA][BridgeAccount] \in Int
  BY <1>2, <1>6, <1>8, SumInt
<1>12. SumFunctionOnSet(c, Chain) <= balance[PHA][BridgeAccount] + SumFunctionOnSet(b, Chain)
  BY <1>7, <1>9, <1>10, <1>11
<1> QED BY <1>4, <1>5, <1>12 DEF ClaimsCovered, c, b, Sum

\* The invariant holds in every state that the pallets reach.
THEOREM LedgerInvariant == Spec => []LedgerInv
<1>1. Init => LedgerInv
  BY LedgerInit
<1>2. LedgerInv /\ [Next]_vars => LedgerInv'
  BY LedgerNext
<1> QED BY <1>1, <1>2, PTL DEF Spec

\* No account is ever in debt: every withdrawal of the pallets, of the adapter and of an executed
\* proposal is covered, and a proposal executes at most what was deposited.
THEOREM LedgerTypes == Spec => []TypeOK
<1>1. LedgerInv => TypeOK
  BY DEF LedgerInv
<1> QED BY <1>1, LedgerInvariant, PTL

\* The assets that come into being here (do_asset_deposit, the executed proposals, the XCM
\* adapter) were taken from their home, once.
THEOREM NothingInflated == Spec => []NoInflation
<1>1. LedgerInv => NoInflation
  BY InvInflation
<1> QED BY <1>1, LedgerInvariant, PTL

\* The reserve accounts cover what is on other chains than the home of an asset, or on its way back.
THEOREM ReservesCover == Spec => []ClaimsCovered
<1>1. LedgerInv => ClaimsCovered
  BY InvClaims
<1> QED BY <1>1, LedgerInvariant, PTL

\* The asset registry stays consistent under what the committee does between the transfers.
THEOREM TransfersKeepRegistry == Spec => []RegistryConsistent
<1>1. LedgerInv => RegistryConsistent
  BY DEF LedgerInv, RegistryInv
<1> QED BY <1>1, LedgerInvariant, PTL

\* After force_unregister_asset nothing moves the asset on this chain.
THEOREM FrozenOnceUnregistered == Spec => UnregisteredFrozen
<1>1. LedgerInv /\ [Next]_vars =>
        [\A asset \in Asset \ {PHA} :
            ~registered(asset) => balance'[asset] = balance[asset]]_vars
  BY LedgerNext DEF Frozen
<1> QED BY <1>1, LedgerInvariant, PTL DEF Spec, UnregisteredFrozen
=============================================================================
