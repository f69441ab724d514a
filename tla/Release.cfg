\* Every lock is released, whatever the token answers and though a maintainer
\* unlocks the jar while transfers about it are in flight.
SPECIFICATION FairSpec
CONSTANTS
    alice = alice
    bob = bob
    vault = vault
    treasury = treasury
    s1 = s1
    s2 = s2
    RateScale = 1
    MsInDay = 1
    MsInYear = 2
    MaxScore = 3
    ProductIds = {"flexible"}
    Products <- FlexibleOnly
    Timezones <- NoTimezones
    InvalidTimezone <- Unset
    AccountIds = {alice}
    FeeAccount = treasury
    Vault = vault
    Slots = {s1, s2}
    Genesis = 3
    MaxTime = 4
    InitialTokens <- RichVault
    Calls = {"restake", "withdraw", "claim_total"}
    Amounts = {2}
    MaxJarsPerClaim = 2
    MaintainerUnlocks = TRUE
    FeaturesSet <- NoFeatures
    Increments <- NoIncrements
    Boosters <- NoBoosters
    Managed = {}
PROPERTIES
    FailureKeepsDeposits
    LocksReleased
CHECK_DEADLOCK FALSE
