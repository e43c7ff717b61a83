SPECIFICATION Spec
CONSTANTS
    Requests = {r1, r2, r3}
    None = None
    Ttl = 2
    StaleIfError = 1
    RetryInterval = 2
    Skew = 1
    HttpTimeout = 1
    InstantMax = 20
    MaxTime = 5
    ExpiresIn <- MCExpiresIn
    HttpErrors <- MCTwoErrors
    UnlockErrors <- MCUnlockErrors
SYMMETRY Symmetry
INVARIANTS
    TypeOK
    SingleFlight
    OneUnlockTask
    NeverMissingSync
    StalenessBound
PROPERTIES
    CacheNeverRegresses
    ImplementsRegister
    StaleOnlyAfterTransient
    CooldownRespected
