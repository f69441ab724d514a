\* A claim fails on a jar that a restake created.
SPECIFICATION Spec
CONSTANTS
    alice = alice
    bob = bob
    vault = vault
    treasury = treasury
    s1 = s1
    s2 = s2
    RateScale = 1
    MsInDay = 1
    MsInYear = 2
    MaxScore = 3
    ProductIds = {"locked", "flexible"}
    Products <- TermProducts
    Timezones <- NoTimezones
    InvalidTimezone <- Unset
    AccountIds = {alice}
    FeeAccount = treasury
    Vault = vault
    Slots = {s1, s2}
    Genesis = 3
    MaxTime = 5
    InitialTokens <- PoorVault
    Calls = {"restake", "claim_total"}
    Amounts = {2}
    MaxJarsPerClaim = 2
    MaintainerUnlocks = FALSE
    FeaturesSet <- NoFeatures
    Increments <- NoIncrements
    Boosters <- NoBoosters
    Managed = {}
SYMMETRY SlotSymmetry
PROPERTIES
    FailedClaimKeepsInterest
CHECK_DEADLOCK FALSE
