SPECIFICATION Spec
CONSTANTS
    None = None
    Calls = {"first", "second", "third"}
    Kinds <- MCKinds
    After <- MCAfter
    Outcomes <- MCOutcomes
    Policies = {"selector"}
    WallStart = 19995
    Delays <- MCDelays
    SetBack = 2000
    SetForward = 2000
    MaxEvents = 2
INVARIANTS
    RegistryMatchesCalls
    FamiliesAgree
    AgesExplained
PROPERTIES
    ScrapesMonotone
