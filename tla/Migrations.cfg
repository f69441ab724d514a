\* Accounts of all layouts move in while their owner deposits with tickets, is paid
\* out, is set up by the oracle and receives airdrops.
SPECIFICATION MigrationSpec
CONSTANTS
    alice = alice
    bob = bob
    vault = vault
    treasury = treasury
    s1 = s1
    s2 = s2
    RateScale = 1
    MsInDay = 1
    MsInYear = 3
    MaxScore = 3
    ProductIds = {"locked"}
    Products <- LockedOnly
    Timezones <- Utc
    InvalidTimezone <- Unset
    AccountIds = {alice, legacy}
    FeeAccount = treasury
    Vault = vault
    Slots = {s1}
    Genesis = 3
    MaxTime = 4
    InitialTokens <- MovingTokens
    Calls = {"withdraw", "withdraw_all", "claim_total"}
    Amounts = {2}
    MaxJarsPerClaim = 2
    MaintainerUnlocks = FALSE
    FeaturesSet <- OneFeature
    Increments <- NoIncrements
    Boosters <- NoBoosters
    Managed = {}
    k1 = k1
    k2 = k2
    PublicKeys = {k1}
    MaxTicketLifetime = 2
    Expiries = {4}
    MaxNonce = 2
    InitialKeys <- LockedKey
    Oracle = alice
    ReceiverLists <- ToAlice
    AirdropAmounts = {2}
    AirdropBoosters = {0}
    BoosterTimes = {0}
    legacy = legacy
    system = system
    System = system
    PreviousVersion = legacy
    InitialProducts = {}
    Images <- ImagesOfAlice
    ImportAmounts = {2, 3}
INVARIANTS
    LockOwnership
    RequestsMatchJars
    TicketUsedOnce
PROPERTIES
    MigrationImplementsCustody
CHECK_DEADLOCK FALSE
