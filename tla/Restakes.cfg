\* Restakes, withdrawals with fees, payouts of the fees and claims; the vault holds
\* nothing but deposits, one jar can be claimed at a time, and a product is disabled.
SPECIFICATION Spec
CONSTANTS
    alice = alice
    bob = bob
    vault = vault
    treasury = treasury
    s1 = s1
    s2 = s2
    RateScale = 2
    MsInDay = 1
    MsInYear = 2
    MaxScore = 3
    ProductIds = {"locked", "flexible"}
    Products <- CostlyProducts
    Timezones <- NoTimezones
    InvalidTimezone <- Unset
    AccountIds = {alice}
    FeeAccount = treasury
    Vault = vault
    Slots = {s1, s2}
    Genesis = 3
    MaxTime = 5
    InitialTokens <- PoorVault
    Calls = {"restake", "restake_all", "withdraw", "withdraw_fee", "claim_total"}
    Amounts = {2}
    MaxJarsPerClaim = 1
    MaintainerUnlocks = FALSE
    FeaturesSet <- NoFeatures
    Increments <- NoIncrements
    Boosters <- NoBoosters
    Managed = {"flexible"}
SYMMETRY SlotSymmetry
INVARIANTS
    LockOwnership
    RequestsMatchJars
PROPERTIES
    CallbacksRun
    ImplementsCustody
CHECK_DEADLOCK FALSE
