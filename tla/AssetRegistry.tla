--------------------------- MODULE AssetRegistry ---------------------------
(***************************************************************************)
(* The asset registry (pallets/xtransfer/src/assets_wrapper.rs): four maps *)
(* between the locations of assets, their ids, and the resource ids under  *)
(* which the chain bridge knows them, kept by a committee.  The assets     *)
(* themselves live in the pallet "assets", of which only the ids in use    *)
(* matter here: unregistering an asset does not destroy it.                *)
(*                                                                         *)
(* A resource id is a hash of the location whose first byte is the id of   *)
(* the chain, modelled as a pair.                                          *)
(***************************************************************************)
CONSTANTS Asset,     \* locations of assets
          AssetId,
          Chain,     \* bridged chains
          Decimal,   \* decimals that an asset may have
          None       \* an absent storage entry

ASSUME RegistryAssumption ==
    /\ None \notin Asset
    /\ None \notin AssetId
    /\ None \notin [location : Asset, decimals : Decimal, enabled_bridges : SUBSET Chain]

VARIABLES IdByAssets, AssetByIds, AssetByResourceIds, RegistryInfoByIds,
          created   \* ids in use in the pallet "assets"

registryVars == <<IdByAssets, AssetByIds, AssetByResourceIds, RegistryInfoByIds, created>>

into_rid(asset, chain) == <<chain, asset>>

ResourceId == Chain \X Asset

\* The pallet "assets" may have assets that are not registered.
RegistryInit(others) ==
    /\ IdByAssets = [asset \in Asset |-> None]
    /\ AssetByIds = [id \in AssetId |-> None]
    /\ AssetByResourceIds = [rid \in ResourceId |-> None]
    /\ RegistryInfoByIds = [id \in AssetId |-> None]
    /\ created = others

force_register_asset(asset, id, decimals) ==
    /\ IdByAssets[asset] = None
    /\ AssetByIds[id] = None
    /\ id \notin created
    /\ created' = created \cup {id}
    /\ IdByAssets' = [IdByAssets EXCEPT ![asset] = id]
    /\ AssetByIds' = [AssetByIds EXCEPT ![id] = asset]
    /\ RegistryInfoByIds' = [RegistryInfoByIds EXCEPT ![id] =
          [location |-> asset, decimals |-> decimals, enabled_bridges |-> {}]]
    /\ UNCHANGED AssetByResourceIds

\* Mutant of force_unregister_asset: the resource ids stay bound.
force_unregister_asset_Bound(id) ==
    /\ AssetByIds[id] # None
    /\ AssetByIds' = [AssetByIds EXCEPT ![id] = None]
    /\ IdByAssets' = [IdByAssets EXCEPT ![AssetByIds[id]] = None]
    /\ RegistryInfoByIds' = [RegistryInfoByIds EXCEPT ![id] = None]
    /\ UNCHANGED <<AssetByResourceIds, created>>

force_unregister_asset(id) ==
    LET asset == AssetByIds[id]
        bound == {into_rid(asset, chain) : chain \in RegistryInfoByIds[id].enabled_bridges}
    IN  /\ asset # None
        /\ RegistryInfoByIds[id] # None
        /\ AssetByIds' = [AssetByIds EXCEPT ![id] = None]
        /\ IdByAssets' = [IdByAssets EXCEPT ![asset] = None]
        /\ AssetByResourceIds' = [rid \in ResourceId |->
                                     IF rid \in bound THEN None ELSE AssetByResourceIds[rid]]
        /\ RegistryInfoByIds' = [RegistryInfoByIds EXCEPT ![id] = None]
        /\ UNCHANGED created

force_set_metadata(id, decimals) ==
    /\ RegistryInfoByIds[id] # None
    /\ RegistryInfoByIds' = [RegistryInfoByIds EXCEPT ![id] =
          [location |-> @.location, decimals |-> decimals, enabled_bridges |-> @.enabled_bridges]]
    /\ UNCHANGED <<IdByAssets, AssetByIds, AssetByResourceIds, created>>

force_enable_chainbridge(id, chain) ==
    LET asset == AssetByIds[id]
        rid == into_rid(asset, chain)
    IN  /\ asset # None
        /\ RegistryInfoByIds[id] # None
        /\ AssetByResourceIds[rid] = None
        /\ AssetByResourceIds' = [AssetByResourceIds EXCEPT ![rid] = asset]
        /\ RegistryInfoByIds' = [RegistryInfoByIds EXCEPT ![id] =
              [location |-> @.location, decimals |-> @.decimals,
               enabled_bridges |-> @.enabled_bridges \cup {chain}]]
        /\ UNCHANGED <<IdByAssets, AssetByIds, created>>

force_disable_chainbridge(id, chain) ==
    LET asset == AssetByIds[id]
        rid == into_rid(asset, chain)
    IN  /\ asset # None
        /\ RegistryInfoByIds[id] # None
        /\ AssetByResourceIds[rid] # None
        /\ AssetByResourceIds' = [AssetByResourceIds EXCEPT ![rid] = None]
        /\ RegistryInfoByIds' = [RegistryInfoByIds EXCEPT ![id] =
              [location |-> @.location, decimals |-> @.decimals,
               enabled_bridges |-> @.enabled_bridges \ {chain}]]
        /\ UNCHANGED <<IdByAssets, AssetByIds, created>>

RegistryNext ==
    \E id \in AssetId :
        \/ \E asset \in Asset, decimals \in Decimal : force_register_asset(asset, id, decimals)
        \/ force_unregister_asset(id)
        \/ \E decimals \in Decimal : force_set_metadata(id, decimals)
        \/ \E chain \in Chain :
              force_enable_chainbridge(id, chain) \/ force_disable_chainbridge(id, chain)

RegistrySpec == (\E others \in SUBSET AssetId : RegistryInit(others)) /\ [][RegistryNext]_registryVars

-----------------------------------------------------------------------------
(* What the other pallets ask (GetAssetRegistryInfo) *)

registered(asset) == IdByAssets[asset] # None

lookup_by_resource_id(rid) == AssetByResourceIds[rid]

decimals_of(asset) == RegistryInfoByIds[IdByAssets[asset]].decimals

-----------------------------------------------------------------------------
(* Properties *)

AssetRegistryInfo == [location : Asset, decimals : Decimal, enabled_bridges : SUBSET Chain]

\* The declared shape of the four maps.
RegistryTypeOK ==
    /\ IdByAssets \in [Asset -> AssetId \cup {None}]
    /\ AssetByIds \in [AssetId -> Asset \cup {None}]
    /\ AssetByResourceIds \in [ResourceId -> Asset \cup {None}]
    /\ RegistryInfoByIds \in [AssetId -> AssetRegistryInfo \cup {None}]
    /\ created \subseteq AssetId

\* Locations and ids are registered one to one, each registered id has its information, and a
\* resource id leads to an asset exactly when that asset is registered and has the bridge to
\* that chain among its enabled ones: also after an asset was unregistered and came back with
\* another id.
RegistryConsistent ==
    /\ \A asset \in Asset, id \in AssetId : IdByAssets[asset] = id <=> AssetByIds[id] = asset
    /\ \A id \in AssetId :
          /\ AssetByIds[id] = None <=> RegistryInfoByIds[id] = None
          /\ AssetByIds[id] # None => RegistryInfoByIds[id].location = AssetByIds[id]
          /\ AssetByIds[id] # None => id \in created
    /\ \A chain \in Chain, asset \in Asset :
          /\ AssetByResourceIds[into_rid(asset, chain)] \in {asset, None}
          /\ AssetByResourceIds[into_rid(asset, chain)] = asset <=>
                /\ IdByAssets[asset] # None
                /\ chain \in RegistryInfoByIds[IdByAssets[asset]].enabled_bridges
=============================================================================
