\* Three threads, joining and sleeping: no starvation.
SPECIFICATION FairSpec
CONSTANTS
    Event = Event
    AutoEvent = AutoEvent
    Mutex = Mutex
    Semaphore = Semaphore
    Kind <- MCKind
    ManualReset <- MCManualReset
    InitialCount <- MCInitialCount
    MaxRecursion = 1
    TicksPerMs = 2
    Quantum = 2
    MaxThreads = 3
    Objects = {}
    WaitLists <- NoLists
    Timeouts = {1}
PROPERTIES
    EveryThreadGoesOn JoinCompletes
