\* Steps are recorded while a claim is in flight, and the claim fails.
SPECIFICATION Spec
CONSTANTS
    alice = alice
    bob = bob
    vault = vault
    treasury = treasury
    s1 = s1
    s2 = s2
    RateScale = 1
    MsInDay = 2
    MsInYear = 2
    MaxScore = 3
    ProductIds = {"steps"}
    Products <- LongSteps
    Timezones <- Utc
    InvalidTimezone <- Unset
    AccountIds = {alice}
    FeeAccount = treasury
    Vault = vault
    Slots = {s1, s2}
    Genesis = 5
    MaxTime = 12
    InitialTokens <- RichVault
    Calls = {"claim_total"}
    Amounts = {2}
    MaxJarsPerClaim = 2
    MaintainerUnlocks = FALSE
    FeaturesSet <- NoFeatures
    Increments <- StepsToday
    Boosters <- NoBoosters
    Managed = {}
SYMMETRY SlotSymmetry
PROPERTIES
    FailedClaimKeepsRecords
CHECK_DEADLOCK FALSE
