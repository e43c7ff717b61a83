SPECIFICATION Spec
CONSTANTS
    Tasks = {"selector", "auth"}
    None = None
    Files <- MCFiles
    Inline <- MCNoInline
    Contents <- MCContents
    MaxSwaps = 2
INVARIANTS
    LastGoodPolicy
    GaugesMatchPolicy
    NoLostShutdown
PROPERTIES
    ShutdownStopsTasks
    UpdateTakesEffect
