\* Withdrawals, single and bulk, and claims, next to the ledger of interest.
SPECIFICATION AuditSpec
CONSTANTS
    alice = alice
    bob = bob
    vault = vault
    treasury = treasury
    s1 = s1
    s2 = s2
    RateScale = 2
    MsInDay = 1
    MsInYear = 3
    MaxScore = 3
    ProductIds = {"locked", "flexible"}
    Products <- ThirdsProducts
    Timezones <- NoTimezones
    InvalidTimezone <- Unset
    AccountIds = {alice}
    FeeAccount = treasury
    Vault = vault
    Slots = {s1, s2}
    Genesis = 3
    MaxTime = 5
    InitialTokens <- Reserve
    Calls = {"claim_total", "withdraw", "withdraw_all"}
    Amounts = {2, 3}
    MaxJarsPerClaim = 2
    MaintainerUnlocks = FALSE
    FeaturesSet <- NoFeatures
    Increments <- NoIncrements
    Boosters <- NoBoosters
    Managed = {}
SYMMETRY SlotSymmetry
INVARIANTS
    TypeOK
    LockOwnership
    RequestsMatchJars
    InterestConserved
PROPERTIES
    ImplementsCustody
    FailedClaimKeepsInterest
CHECK_DEADLOCK FALSE
