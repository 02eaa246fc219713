\* Two threads and a mutex.
SPECIFICATION Spec
CONSTANTS
    Event = Event
    AutoEvent = AutoEvent
    Mutex = Mutex
    Semaphore = Semaphore
    MaxThreads = 2
    Objects = {Mutex}
    Kind <- MCKind
    ManualReset <- MCManualReset
    InitialCount <- MCInitialCount
    MaxRecursion = 1
    WaitLists <- NoLists
    Timeouts = {}
    TicksPerMs = 2
    Quantum = 2
INVARIANTS
    MutexHasOneHolder
