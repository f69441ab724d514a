\* Deposits and restakes into a protected product whose key changes. Tickets
\* expire at 4 or are too far ahead at first; no second jar can be restaked
\* while a restake is in flight.
SPECIFICATION TicketsSpec
CONSTANTS
    alice = alice
    bob = bob
    vault = vault
    treasury = treasury
    s1 = s1
    s2 = s2
    RateScale = 1
    MsInDay = 1
    MsInYear = 2
    MaxScore = 3
    ProductIds = {"locked", "flexible"}
    Products <- GuardedProducts
    Timezones <- NoTimezones
    InvalidTimezone <- Unset
    AccountIds = {alice}
    FeeAccount = treasury
    Vault = vault
    Slots = {s1, s2}
    Genesis = 3
    MaxTime = 5
    InitialTokens <- FourTokens
    Calls = {"restake", "restake_all", "withdraw"}
    Amounts = {2, 3}
    MaxJarsPerClaim = 2
    MaintainerUnlocks = FALSE
    FeaturesSet <- NoFeatures
    Increments <- NoIncrements
    Boosters <- NoBoosters
    Managed = {"locked"}
    k1 = k1
    k2 = k2
    PublicKeys = {k1, k2}
    InitialKeys <- LockedKey
    MaxTicketLifetime = 2
    Expiries = {4, 6}
    MaxNonce = 3
SYMMETRY SlotSymmetry
INVARIANTS
    TicketUsedOnce
    SignedPrincipal
CHECK_DEADLOCK FALSE
