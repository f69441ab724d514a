\* The calls of the oracle and claims, in a timezone whose days are not those of UTC.
SPECIFICATION Spec
CONSTANTS
    alice = alice
    bob = bob
    vault = vault
    treasury = treasury
    s1 = s1
    s2 = s2
    RateScale = 2
    MsInDay = 2
    MsInYear = 2
    MaxScore = 1
    ProductIds = {"steps", "flexible"}
    Products <- StepProducts
    Timezones <- East
    InvalidTimezone <- Unset
    AccountIds = {alice}
    FeeAccount = treasury
    Vault = vault
    Slots = {s1}
    Genesis = 5
    MaxTime = 8
    InitialTokens <- OneDeposit
    Calls = {"claim_total"}
    Amounts = {2}
    MaxJarsPerClaim = 2
    MaintainerUnlocks = FALSE
    FeaturesSet <- PremiumOnly
    Increments <- StepsToday
    Boosters <- OneBooster
    Managed = {}
INVARIANTS
    TypeOK
PROPERTIES
    OracleCallsKeepInterest

CHECK_DEADLOCK FALSE
