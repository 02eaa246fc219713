\* Two processes and a pipe.
SPECIFICATION FairSpec
CONSTANTS
    MaxProcs = 2
    NPipes = 1
    MaxFds = 2
    MaxBytes = 1
    ExitCodes = {0}
    RootExecs = FALSE
    CloexecUsed = TRUE
INVARIANTS
    PipesEnd
PROPERTIES
    ReaderSeesEof
