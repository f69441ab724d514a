\* A deposit and a record of steps on the same day.
SPECIFICATION AuditSpec
CONSTANTS
    alice = alice
    bob = bob
    vault = vault
    treasury = treasury
    s1 = s1
    s2 = s2
    RateScale = 1
    MsInDay = 2
    MsInYear = 2
    MaxScore = 3
    ProductIds = {"steps"}
    Products <- LongSteps
    Timezones <- Utc
    InvalidTimezone <- Unset
    AccountIds = {alice}
    FeeAccount = treasury
    Vault = vault
    Slots = {s1}
    Genesis = 5
    MaxTime = 12
    InitialTokens <- Reserve
    Calls = {}
    Amounts = {2}
    MaxJarsPerClaim = 2
    MaintainerUnlocks = FALSE
    FeaturesSet <- NoFeatures
    Increments <- StepsToday
    Boosters <- NoBoosters
    Managed = {}
SYMMETRY SlotSymmetry
INVARIANTS
    BelowCeiling
CHECK_DEADLOCK FALSE
