\* Two jars are restaked on one ticket.
SPECIFICATION TicketsSpec
CONSTANTS
    alice = alice
    bob = bob
    vault = vault
    treasury = treasury
    s1 = s1
    s2 = s2
    RateScale = 1
    MsInDay = 1
    MsInYear = 2
    MaxScore = 3
    ProductIds = {"locked", "flexible", "spare"}
    Products <- TwoSources
    Timezones <- NoTimezones
    InvalidTimezone <- Unset
    AccountIds = {alice}
    FeeAccount = treasury
    Vault = vault
    Slots = {s1, s2}
    Genesis = 3
    MaxTime = 3
    InitialTokens <- SixTokens
    Calls = {"restake"}
    Amounts = {2, 3}
    MaxJarsPerClaim = 2
    MaintainerUnlocks = FALSE
    FeaturesSet <- NoFeatures
    Increments <- NoIncrements
    Boosters <- NoBoosters
    Managed = {}
    k1 = k1
    k2 = k2
    PublicKeys = {k1}
    InitialKeys <- LockedKey
    MaxTicketLifetime = 2
    Expiries = {4}
    MaxNonce = 4
SYMMETRY SlotSymmetry
INVARIANTS
    TicketUsedOnce
CHECK_DEADLOCK FALSE
