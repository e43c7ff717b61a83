SPECIFICATION Spec
CONSTANTS
    Requests = {r1, r2, r3}
    None = None
    Ttl = 0
    StaleIfError = 0
    RetryInterval = 9
    Skew = 1
    HttpTimeout = 1
    InstantMax = 8
    MaxTime = 3
    ExpiresIn <- MCNoExpiry
    HttpErrors <- MCHttpErrors
    UnlockErrors <- MCUnlockErrors
SYMMETRY Symmetry
INVARIANTS
    StalenessBound
