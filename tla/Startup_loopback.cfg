SPECIFICATION Spec
CONSTANTS
    None = None
    Cases <- MCCases
    FileStates <- MCFileStates
    Replies <- MCReplies
    MaxSwaps = 1
    MaxFaults = 1
INVARIANT
    AcceptsLoopback
