CONSTANTS
    None = None
    Asset <- MCAsset
    AssetId = {0, 1, 2}
    Chain = {"c1", "c2"}
    Decimal = {12}
    User = {alice}
    Relayer = {r1, r2}
    DefaultThreshold = 2
    Thresholds = {1}
    Treasury = Treasury
    BridgeAccount = BridgeAccount
    Temporary = Temporary
    Evm = Evm
    ParaId = "2004"
    SiblingId = "2000"
    FeeAssets <- MCFeeAssets
    Price <- MCPrice
    NativeExecutionPrice = 1
    DefaultFee = 1
    Revenue = 1
    Setup <- MCSetup
    Id <- MCId
    Amount = {2, 3}
    FeeOption <- MCFeeOption
    Whitelisted = {"c1"}
    MaxNonce = 1
    MaxDeposit = 1
    ProposalLifetime = 1
SPECIFICATION Spec
SYMMETRY MCSymmetry
INVARIANTS
    NoInflation
    ClaimsCovered
    RegistryConsistent
PROPERTIES
    UnregisteredFrozen
