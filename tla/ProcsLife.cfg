\* Three processes, no pipes.
SPECIFICATION FairSpec
CONSTANTS
    MaxProcs = 3
    NPipes = 0
    MaxFds = 0
    MaxBytes = 0
    ExitCodes = {256}
    RootExecs = TRUE
    CloexecUsed = FALSE
INVARIANTS
    VforkSuspends DeadlockIsReal
PROPERTIES
    LivesAsPromised NobodyIsForgotten
