\* Protected batches for two receivers in different states, among deposits, withdrawals,
\* recorded steps and changes of timezone.
SPECIFICATION AirdropSpec
CONSTANTS
    alice = alice
    bob = bob
    vault = vault
    treasury = treasury
    s1 = s1
    s2 = s2
    RateScale = 1
    MsInDay = 1
    MsInYear = 2
    MaxScore = 1
    ProductIds = {"steps"}
    Products <- StepProduct
    Timezones <- East
    InvalidTimezone <- Unset
    AccountIds = {alice, bob}
    FeeAccount = treasury
    Vault = vault
    Slots = {s1}
    Genesis = 3
    MaxTime = 5
    InitialTokens <- OracleTokens
    Calls = {"withdraw"}
    Amounts = {2}
    MaxJarsPerClaim = 2
    MaintainerUnlocks = FALSE
    FeaturesSet <- NoFeatures
    Increments <- StepsToday
    Boosters <- NoBoosters
    Managed = {}
    InitialKeys <- StepsKey
    Oracle = alice
    ReceiverLists <- TwoReceivers
    AirdropAmounts = {3, 4}
    AirdropBoosters = {0, 1}
    BoosterTimes = {4}
    k1 = k1
    k2 = k2
    PublicKeys = {k1}
    MaxTicketLifetime = 2
    Expiries = {5}
    MaxNonce = 1
PROPERTIES
    OracleCallsKeepInterest
    AirdropsKeepInterest
    AirdropImplementsCustody
CHECK_DEADLOCK FALSE
