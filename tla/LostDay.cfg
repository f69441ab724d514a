\* A claim on the day after steps were recorded.
SPECIFICATION AuditSpec
CONSTANTS
    alice = alice
    bob = bob
    vault = vault
    treasury = treasury
    s1 = s1
    s2 = s2
    RateScale = 1
    MsInDay = 1
    MsInYear = 2
    MaxScore = 3
    ProductIds = {"steps"}
    Products <- LongSteps
    Timezones <- Utc
    InvalidTimezone <- Unset
    AccountIds = {alice}
    FeeAccount = treasury
    Vault = vault
    Slots = {s1}
    Genesis = 3
    MaxTime = 6
    InitialTokens <- RichVault
    Calls = {"claim_total"}
    Amounts = {2}
    MaxJarsPerClaim = 2
    MaintainerUnlocks = FALSE
    FeaturesSet <- NoFeatures
    Increments <- StepsToday
    Boosters <- NoBoosters
    Managed = {}
SYMMETRY SlotSymmetry
INVARIANTS
    ScoreOfYesterday
CHECK_DEADLOCK FALSE
