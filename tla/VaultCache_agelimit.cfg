SPECIFICATION Spec
CONSTANTS
    Requests = {r1, r2}
    None = None
    Ttl = 1
    StaleIfError = 1
    RetryInterval = 1
    Skew = 1
    HttpTimeout = 1
    InstantMax = 20
    MaxTime = 4
    ExpiresIn <- MCExpiresIn
    HttpErrors <- MCTwoErrors
    UnlockErrors <- MCUnlockErrors
SYMMETRY Symmetry
PROPERTIES
    NeverServedPastAgeLimit
