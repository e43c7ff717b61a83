SPECIFICATION Spec
CONSTANTS
    Requests = {r1, r2}
    None = None
    Ttl = 1
    StaleIfError = 0
    RetryInterval = 2
    Skew = 1
    HttpTimeout = 1
    InstantMax = 20
    MaxTime = 3
    ExpiresIn <- MCExpiresIn
    HttpErrors <- MCTwoErrors
    UnlockErrors <- MCUnlockErrors
SYMMETRY Symmetry
PROPERTIES
    LoginPressureBounded
