----------------------------- MODULE Transfers -----------------------------
(***************************************************************************)
(* Assets that enter and leave the chain: the bridge transfer pallet       *)
(* (bridge_transfer/mod.rs), the XCM adapter (xcm/xcm_helper.rs) and the   *)
(* XCM transfer pallet (xcm/xcm_transfer.rs), over the asset registry and  *)
(* the ChainBridge pallet.                                                 *)
(*                                                                         *)
(* An asset that leaves for a chain other than its home is locked in an    *)
(* account of this chain and comes into being there; one that leaves for   *)
(* its home is burnt here.  "held" is what accounts of the other chains    *)
(* hold; what happens there (contracts, relayers that report deposits,     *)
(* the XCM executor and its fees) is external.                             *)
(*                                                                         *)
(* Locations are records of the parents and the interior junctions.  The   *)
(* account of a location is its hash, modelled as the location itself.     *)
(* Balances of the native asset (pallet balances) and of the others        *)
(* (pallet assets) are in one table.  The committee registers an asset     *)
(* once: another id later would begin with another table.                  *)
(***************************************************************************)
EXTENDS AssetRegistry, Integers, Sequences, FiniteSetsExt

CONSTANTS User, Relayer,
          Treasury, BridgeAccount, Temporary,  \* accounts of the pallets
          Evm,              \* a destination that the executed transfer does not know
          ParaId, SiblingId,
          FeeAssets,        \* assets that may pay for execution
          Price,            \* ExecutionPriceInfo, for each asset in it
          NativeExecutionPrice,
          DefaultFee,
          Revenue,          \* what the execution of an incoming message costs, in a fee asset
          Setup,            \* amounts of each asset at its home, and ids free, to begin with
          Id,               \* the id that the committee gives to an asset
          Amount,           \* amounts that are moved
          FeeOption,        \* pairs of min_fee and fee_scale
          Whitelisted,      \* chains the committee has whitelisted to begin with
          DefaultThreshold, \* RelayerThreshold to begin with
          Thresholds,       \* those the committee may set
          MaxNonce, MaxDeposit, ProposalLifetime

\* Balances, fees and prices are unsigned numbers, and the price of the native asset is not zero.
\* The committee sets the state up with finitely many choices of amounts and free ids.
ASSUME AmountsAssumption ==
    /\ Amount \subseteq Nat
    /\ Decimal \subseteq Nat
    /\ FeeOption \subseteq Nat \X Nat
    /\ \A asset \in DOMAIN Price : Price[asset] \in Nat
    /\ NativeExecutionPrice \in Nat \ {0}
    /\ DefaultFee \in Nat
    /\ Revenue \in Nat
    /\ Setup \subseteq [amount : [Asset -> Nat], free : SUBSET AssetId]
    /\ IsFiniteSet(Setup) /\ Setup # {}

VARIABLES ChainNonces, RelayerThreshold, Relayers, RelayerCount, Votes, BridgeEvents,
          dispatched, succeeded,
          BridgeFee,
          balance,    \* of each asset and account
          held,       \* of each asset, by accounts of each other chain
          deposits    \* proposals that were deposited on each bridged chain

bridgeVars == <<ChainNonces, RelayerThreshold, Relayers, RelayerCount, Votes, BridgeEvents,
                dispatched, succeeded>>
ledgerVars == <<balance, held>>
vars == <<registryVars, bridgeVars, ledgerVars, BridgeFee, deposits>>

-----------------------------------------------------------------------------
(* Locations *)

PHA == [parents |-> 0, interior |-> <<>>]

Parachain(id) == [parents |-> 1, interior |-> <<<<"Parachain", id>>>>]

SiblingChain == Parachain(SiblingId)

CbKey == <<"GeneralKey", "cb">>

\* The reserve location of a bridged chain, and its account on this chain.
SoloChain(chain) == [parents |-> 0, interior |-> <<CbKey, <<"GeneralIndex", chain>>>>]

is_sibling(location) ==
    /\ location.parents = 1
    /\ location.interior # <<>>
    /\ Head(location.interior)[1] = "Parachain"

\* Of locations with at most one parent.
reserve_location(location) ==
    LET interior == IF is_sibling(location) THEN Tail(location.interior) ELSE location.interior
    IN  IF /\ is_sibling(location) \/ location.parents = 0
           /\ Len(interior) >= 2
           /\ interior[1] = CbKey
           /\ interior[2][1] = "GeneralIndex"
        THEN SoloChain(interior[2][2])
        ELSE IF is_sibling(location) THEN Parachain(Head(location.interior)[2])
        ELSE [parents |-> location.parents, interior |-> <<>>]

\* ConcrateAsset::origin.
origin(location) ==
    IF is_sibling(location) THEN Parachain(Head(location.interior)[2])
    ELSE IF location.parents = 1 \/ location.interior = <<>>
    THEN [parents |-> location.parents, interior |-> <<>>]
    ELSE None

is_native_asset_id(location) == location \in {PHA, Parachain(ParaId)}

SoloChains == {SoloChain(chain) : chain \in Chain}

Account == User \cup SoloChains \cup {Treasury, BridgeAccount, Temporary, SiblingChain}

Place == SoloChains \cup {SiblingChain}

\* The pallets' accounts are no users and no locations of chains.  The committee registers no
\* other location of the native asset, and the sibling is another chain than this one.
ASSUME PlacesAssumption ==
    /\ IsFiniteSet(User) /\ IsFiniteSet(Chain)
    /\ (User \cup {BridgeAccount, Temporary}) \cap Place = {}
    /\ BridgeAccount \notin User \cup {Temporary}
    /\ ParaId # SiblingId
    /\ PHA \in Asset
    /\ Parachain(ParaId) \notin Asset
    /\ Id \in [Asset -> AssetId]

Dest == User \cup {SiblingChain, Evm}

Proposal == [nonce : 1..MaxDeposit, asset : Asset, amount : Amount, dest : Dest]

Bridge == INSTANCE Bridge WITH Account <- Relayer

\* The record of a proposal's votes is no absent record.
ASSUME ProposalsAssumption ==
    /\ ProposalLifetime \in Nat
    /\ None \notin [votes_for : Seq(Relayer), votes_against : Seq(Relayer),
                    status : {"Initiated", "Approved", "Rejected"}, left : 0..ProposalLifetime]

-----------------------------------------------------------------------------
(* Fees *)

update_fee(chain, option) ==
    /\ option[2] <= 1000
    /\ BridgeFee' = [BridgeFee EXCEPT ![chain] = option]
    /\ UNCHANGED <<registryVars, bridgeVars, ledgerVars, deposits>>

estimate_fee_in_pha(chain, amount) ==
    LET option == IF BridgeFee[chain] = None THEN <<0, 0>> ELSE BridgeFee[chain]
    IN  Max({option[1], (amount * option[2]) \div 1000})

\* 10u128.saturating_pow(n).
pow10[n \in Nat] == IF n = 0 THEN 1 ELSE 10 * pow10[n - 1]

to_e12(amount, decimals) ==
    IF decimals > 12 THEN amount \div pow10[decimals - 12] ELSE amount * pow10[12 - decimals]

from_e12(amount, decimals) ==
    IF decimals > 12 THEN amount * pow10[decimals - 12] ELSE amount \div pow10[12 - decimals]

convert_fee_from_pha(fee, price, decimals) ==
    from_e12((fee * price) \div NativeExecutionPrice, decimals)

\* The fee in the asset itself, or None.
get_fee(chain, asset, amount) ==
    IF ~registered(asset) THEN None
    ELSE LET fee == estimate_fee_in_pha(chain, to_e12(amount, decimals_of(asset)))
         IN  IF is_native_asset_id(asset) THEN fee
             ELSE IF asset \in DOMAIN Price
             THEN convert_fee_from_pha(fee, Price[asset], decimals_of(asset))
             ELSE None

-----------------------------------------------------------------------------
(* A ledger is a record of the two tables, with a result. *)

Ledger == [balance |-> balance, held |-> held, ok |-> TRUE]

deposit(ledger, asset, who, amount) ==
    [balance |-> [ledger.balance EXCEPT ![asset][who] = @ + amount],
     held |-> ledger.held, ok |-> ledger.ok]

withdraw(ledger, asset, who, amount) ==
    [balance |-> [ledger.balance EXCEPT ![asset][who] = @ - amount],
     held |-> ledger.held, ok |-> ledger.ok]

move(ledger, asset, from, to, amount) ==
    deposit(withdraw(ledger, asset, from, amount), asset, to, amount)

credit(ledger, asset, place, amount) ==
    [balance |-> ledger.balance,
     held |-> [ledger.held EXCEPT ![place][asset] = @ + amount], ok |-> ledger.ok]

debit(ledger, asset, place, amount) ==
    [balance |-> ledger.balance,
     held |-> [ledger.held EXCEPT ![place][asset] = @ - amount], ok |-> ledger.ok]

failed(ledger) == [balance |-> ledger.balance, held |-> ledger.held, ok |-> FALSE]

Commit(ledger) == balance' = ledger.balance /\ held' = ledger.held

-----------------------------------------------------------------------------
(* Transfers out by users, through the bridge *)

transfer_assets(who, asset, chain, amount) ==
    LET fee == get_fee(chain, asset, amount)
        rest == amount - fee
        paid == move(Ledger, asset, who, Treasury, fee)
    IN  /\ asset # PHA
        /\ Bridge!chain_whitelisted(chain)
        /\ BridgeFee[chain] # None
        /\ registered(asset)
        /\ lookup_by_resource_id(into_rid(asset, chain)) # None
        /\ balance[asset][who] >= amount
        /\ fee # None
        /\ amount > fee
        /\ Commit(credit(IF reserve_location(asset) = SoloChain(chain)
                         THEN withdraw(paid, asset, who, rest)
                         ELSE move(paid, asset, who, SoloChain(chain), rest),
                         asset, SoloChain(chain), rest))
        /\ Bridge!transfer(chain)
        /\ UNCHANGED <<registryVars, BridgeFee, deposits>>

\* The fee is on top of the amount.
transfer_native(who, chain, amount) ==
    LET fee == estimate_fee_in_pha(chain, amount)
    IN  /\ Bridge!chain_whitelisted(chain)
        /\ BridgeFee[chain] # None
        /\ balance[PHA][who] >= amount + fee
        /\ Commit(credit(move(move(Ledger, PHA, who, Treasury, fee), PHA, who, BridgeAccount, amount),
                         PHA, SoloChain(chain), amount))
        /\ Bridge!transfer(chain)
        /\ UNCHANGED <<registryVars, BridgeFee, deposits>>

-----------------------------------------------------------------------------
(* XCM *)

\* Mutant of matches_fungibles: any location is taken for an asset.
matches_fungibles_Any(asset) == TRUE

\* The assets the adapter can find: the native one, and those registered.
matches_fungibles(asset) == is_native_asset_id(asset) \/ registered(asset)

kind(asset, dest) ==
    IF origin(asset) = None THEN None
    ELSE IF is_native_asset_id(origin(asset)) THEN "FromNative"
    ELSE IF origin(asset) = dest THEN "ToReserve" ELSE "ToNonReserve"

\* "what" leaves in the message that moves the asset.
leave(ledger, who, asset, dest, what, amount) ==
    CASE kind(asset, dest) = "FromNative" ->
            credit(move(ledger, what, who, dest, amount), what, dest, amount)
      [] kind(asset, dest) # "FromNative" /\ what # asset -> withdraw(ledger, what, who, amount)
      [] OTHER -> credit(withdraw(ledger, what, who, amount), what, dest, amount)

\* An asset leaves by XCM.  When it cannot pay for its execution at the destination, DefaultFee
\* of PHA goes with it; towards the asset's reserve chain, which is not that of PHA, this is
\* burnt.  A message that cannot be built or executed changes nothing: PHA comes first among the
\* assets to withdraw.
do_transfer_multiasset(ledger, who, asset, amount, dest) ==
    LET fee == IF asset \in FeeAssets \/ is_native_asset_id(asset) THEN 0 ELSE DefaultFee
    IN  IF /\ kind(asset, dest) # None
           /\ matches_fungibles(asset)
           /\ ledger.balance[asset][who] >= amount
           /\ ledger.balance[PHA][who] >= fee
        THEN leave(leave(ledger, who, asset, dest, asset, amount), who, asset, dest, PHA, fee)
        ELSE failed(ledger)

\* transfer_asset and transfer_native of the XCM transfer pallet, which are transactional.
xcm_transfer(who, asset, amount) ==
    LET after == do_transfer_multiasset(Ledger, who, asset, amount, SiblingChain)
    IN  /\ after.ok
        /\ Commit(after)
        /\ UNCHANGED <<registryVars, bridgeVars, BridgeFee, deposits>>

\* Mutant of forward: the fee is not taken out of the amount that is announced.
forward_WithFee(ledger, asset, amount, chain) ==
    LET fee == get_fee(chain, asset, amount)
        paid == deposit(ledger, asset, Treasury, fee)
        reserved == IF reserve_location(asset) = SoloChain(chain) THEN paid
                    ELSE deposit(paid, asset, SoloChain(chain), amount - fee)
    IN  IF fee = None \/ amount <= fee THEN failed(ledger)
        ELSE IF ~Bridge!chain_whitelisted(chain) THEN failed(reserved)
        ELSE credit(reserved, asset, SoloChain(chain), amount)

\* deposit_asset to an account of a bridged chain.  The bridge emits the transfer at the end;
\* when it refuses, the fee and the reserve stay where they are.
forward(ledger, asset, amount, chain) ==
    LET fee == get_fee(chain, asset, amount)
        paid == deposit(ledger, asset, Treasury, fee)
        reserved == IF reserve_location(asset) = SoloChain(chain) THEN paid
                    ELSE deposit(paid, asset, SoloChain(chain), amount - fee)
    IN  IF fee = None \/ amount <= fee THEN failed(ledger)
        ELSE IF ~Bridge!chain_whitelisted(chain) THEN failed(reserved)
        ELSE credit(reserved, asset, SoloChain(chain), amount - fee)

\* The revenue that an asset pays to the treasury; for others another asset pays.
take_revenue(asset) == IF asset \in FeeAssets THEN Revenue ELSE 0

\* What arrives from the sibling: withdrawn from its account here when it was locked there
\* (withdraw_asset), minted when the sibling is its origin (AssetOriginFilter).
Received(asset, amount) ==
    LET taken == debit(Ledger, asset, SiblingChain, amount)
    IN  deposit(IF origin(asset) = SiblingChain THEN taken
                ELSE withdraw(taken, asset, SiblingChain, amount),
                asset, Treasury, take_revenue(asset))

MayReceive(asset, amount) ==
    /\ amount > take_revenue(asset)
    /\ held[SiblingChain][asset] >= amount
    /\ matches_fungibles(asset)
    /\ origin(asset) = SiblingChain \/ balance[asset][SiblingChain] >= amount

\* deposit_asset to an account of this chain.
xcm_deposit(asset, amount, who) ==
    /\ MayReceive(asset, amount)
    /\ Commit(deposit(Received(asset, amount), asset, who, amount - take_revenue(asset)))
    /\ UNCHANGED <<registryVars, bridgeVars, BridgeFee, deposits>>

xcm_forward(asset, amount, chain) ==
    LET after == forward(Received(asset, amount), asset, amount - take_revenue(asset), chain)
    IN  /\ MayReceive(asset, amount)
        /\ Commit(after)
        /\ IF after.ok THEN Bridge!transfer(chain) ELSE UNCHANGED bridgeVars
        /\ UNCHANGED <<registryVars, BridgeFee, deposits>>

-----------------------------------------------------------------------------
(* Transfers in, through the bridge *)

\* The match on the destination.
settle(ledger, asset, amount, dest) ==
    CASE dest \in User -> deposit(ledger, asset, dest, amount)
      [] dest = SiblingChain ->
            do_transfer_multiasset(deposit(ledger, asset, Temporary, amount),
                                   Temporary, asset, amount, dest)
      [] OTHER -> failed(ledger)

\* Mutant of transfer: the reserve is left as it is.
transfer_Unreserved(chain, call) ==
    IF \/ is_native_asset_id(call.asset)
       \/ lookup_by_resource_id(into_rid(call.asset, chain)) # None /\ registered(call.asset)
    THEN settle(Ledger, call.asset, call.amount, call.dest)
    ELSE failed(Ledger)

\* The call of a proposal.  It is not transactional: what it did before an error stays.
transfer(chain, call) ==
    LET asset == call.asset
        reserve == IF asset = PHA THEN BridgeAccount ELSE SoloChain(chain)
        returns == reserve_location(asset) # SoloChain(chain)
    IN  IF \/ asset # PHA /\ (lookup_by_resource_id(into_rid(asset, chain)) = None
                              \/ ~registered(asset))
           \/ returns /\ balance[asset][reserve] < call.amount
        THEN failed(Ledger)
        ELSE settle(IF returns THEN withdraw(Ledger, asset, reserve, call.amount) ELSE Ledger,
                    asset, call.amount, call.dest)

\* Somebody deposits on a bridged chain, and asks for a transfer to this one.
EvmDeposit(chain, call) ==
    /\ call.nonce = Cardinality(deposits[chain]) + 1
    /\ held[SoloChain(chain)][call.asset] >= call.amount
    /\ held' = [held EXCEPT ![SoloChain(chain)][call.asset] = @ - call.amount]
    /\ deposits' = [deposits EXCEPT ![chain] = @ \cup {call}]
    /\ UNCHANGED <<registryVars, bridgeVars, balance, BridgeFee>>

Executed(chain, call) ==
    IF dispatched' # dispatched THEN Commit(transfer(chain, call)) ELSE UNCHANGED ledgerVars

\* Relayers vote on deposits that they have seen.
vote(who, chain, call, in_favour) ==
    /\ call \in deposits[chain]
    /\ Bridge!vote(who, chain, call, in_favour, transfer(chain, call).ok)
    /\ Executed(chain, call)
    /\ UNCHANGED <<registryVars, BridgeFee, deposits>>

eval_vote_state(chain, call) ==
    /\ call \in deposits[chain]
    /\ Bridge!eval_vote_state(chain, call, transfer(chain, call).ok)
    /\ Executed(chain, call)
    /\ UNCHANGED <<registryVars, BridgeFee, deposits>>

-----------------------------------------------------------------------------
Sum(f, S) == SumFunctionOnSet(f, S)

amount_of == [call \in Proposal |-> call.amount]

\* What was deposited of an asset on a chain, and whose proposal was not executed.
Pending(chain, asset) ==
    Sum(amount_of, {call \in deposits[chain] : call.asset = asset /\ dispatched[chain][call] = 0})

\* What there is of an asset on this chain and at its home, or on its way from there.
Total(asset) ==
    LET home == reserve_location(asset)
    IN  Sum(balance[asset], Account)
          + (IF home \in Place THEN held[home][asset] ELSE 0)
          + Sum([chain \in Chain |-> IF SoloChain(chain) = home THEN Pending(chain, asset) ELSE 0],
                Chain)

\* The committee has set up the bridge.  Users hold the native asset; the others are at home.
Init ==
    /\ ChainNonces = [chain \in Chain |-> IF chain \in Whitelisted THEN 0 ELSE None]
    /\ RelayerThreshold = DefaultThreshold
    /\ Relayers = Relayer
    /\ RelayerCount = Cardinality(Relayer)
    /\ Votes = [chain \in Chain |-> [call \in Proposal |-> None]]
    /\ BridgeEvents = <<>>
    /\ dispatched = [chain \in Chain |-> [call \in Proposal |-> 0]]
    /\ succeeded = [chain \in Chain |-> [call \in Proposal |-> 0]]
    /\ BridgeFee \in [Chain -> FeeOption \cup {None}]
    /\ \A chain \in Chain : BridgeFee[chain] = None <=> chain \notin Whitelisted
    /\ \E setup \in Setup :
          /\ RegistryInit(AssetId \ setup.free)
          /\ balance = [asset \in Asset |-> [who \in Account |->
                          IF asset = PHA /\ who \in User THEN setup.amount[asset] ELSE 0]]
          /\ held = [place \in Place |-> [asset \in Asset |->
                          IF reserve_location(asset) = place THEN setup.amount[asset] ELSE 0]]
    /\ deposits = [chain \in Chain |-> {}]

\* What the committee does with the registry.
Committee ==
    /\ \E asset \in Asset :
          \/ \E decimals \in Decimal :
                \/ force_register_asset(asset, Id[asset], decimals)
                \/ force_set_metadata(Id[asset], decimals)
          \/ force_unregister_asset(Id[asset])
          \/ \E chain \in Chain :
                \/ force_enable_chainbridge(Id[asset], chain)
                \/ force_disable_chainbridge(Id[asset], chain)
    /\ UNCHANGED <<bridgeVars, ledgerVars, BridgeFee, deposits>>

Next ==
    \/ Committee
    \/ \E asset \in Asset, amount \in Amount :
          \/ \E who \in User :
                xcm_transfer(who, asset, amount) \/ xcm_deposit(asset, amount, who)
          \/ \E chain \in Chain :
                \/ xcm_forward(asset, amount, chain)
                \/ \E who \in User : transfer_assets(who, asset, chain, amount)
    \/ \E chain \in Chain :
          \/ \E option \in FeeOption : update_fee(chain, option)
          \/ \E who \in User, amount \in Amount : transfer_native(who, chain, amount)
          \/ \E call \in Proposal : EvmDeposit(chain, call)
          \/ \E call \in deposits[chain] :
                \/ eval_vote_state(chain, call)
                \/ \E who \in Relayer, in_favour \in BOOLEAN : vote(who, chain, call, in_favour)
    \/ /\ \/ Bridge!on_initialize
          \/ \E threshold \in Thresholds : Bridge!set_threshold(threshold)
          \/ \E chain \in Chain : Bridge!whitelist_chain(chain)
       /\ UNCHANGED <<registryVars, ledgerVars, BridgeFee, deposits>>

Spec == Init /\ [][Next]_vars

-----------------------------------------------------------------------------
(* Properties *)

\* No account of this or of another chain is ever in debt.
TypeOK ==
    /\ balance \in [Asset -> [Account -> Nat]]
    /\ held \in [Place -> [Asset -> Nat]]
    /\ BridgeFee \in [Chain -> FeeOption \cup {None}]
    /\ deposits \in [Chain -> SUBSET Proposal]

\* The most there is to begin with.
Supply(asset) ==
    Max({setup.amount[asset] : setup \in Setup}) * (IF asset = PHA THEN Cardinality(User) ELSE 1)

\* "If we received asset send from its reserve chain, we just need mint the same amount": what
\* comes into being here was taken from the asset's home before, once, and PHA, whose home this
\* is, never becomes more.
NoInflation == \A asset \in Asset : Total(asset) <= Supply(asset)

\* What of an asset is on a bridged chain that is not its home, or on its way back.
Claims(chain, asset) == held[SoloChain(chain)][asset] + Pending(chain, asset)

\* "That means we had reserved the asset in a reserve account while it was transfered": whatever
\* way an asset took to a chain that is not its home, and whichever executions failed on its way
\* back, the accounts that lock it here cover what can still come back.  The claims on PHA of
\* all bridged chains are on the bridge account and the reserve accounts together.
ClaimsCovered ==
    /\ \A asset \in Asset \ {PHA}, chain \in Chain :
          reserve_location(asset) # SoloChain(chain) =>
              Claims(chain, asset) <= balance[asset][SoloChain(chain)]
    /\ Sum([chain \in Chain |-> Claims(chain, PHA)], Chain)
          <= balance[PHA][BridgeAccount]
               + Sum([chain \in Chain |-> balance[PHA][SoloChain(chain)]], Chain)
    /\ \A asset \in Asset :
          is_native_asset_id(origin(asset)) =>
              held[SiblingChain][asset] <= balance[asset][SiblingChain]

\* "xcm and bridge transfering on this asset will not success anymore": nothing moves an asset
\* that is not registered, also not a proposal or a message that was on its way.
UnregisteredFrozen ==
    [][\A asset \in Asset \ {PHA} :
          ~registered(asset) => balance'[asset] = balance[asset]]_vars
=============================================================================
