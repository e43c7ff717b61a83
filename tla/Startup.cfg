SPECIFICATION Spec
CONSTANTS
    None = None
    Cases <- MCCases
    FileStates <- MCFileStates
    Replies <- MCReplies
    MaxSwaps = 1
    MaxFaults = 1
INVARIANTS
    ServesOnlyAcceptable
    RefusesOnlyUnacceptable
    CredentialsCurrent
    RequestsReachApi
    GrantsOnlyWhatIsWritten
    DerivationBounded
    UnlocksExactly
PROPERTIES
    ComesUp
