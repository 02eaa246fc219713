\* Two threads, a mutex, an event, a semaphore, every kind of wait, sleeps; to save
\* and resume, a page of the guest's own and one of a file.
SPECIFICATION ThreadsSpec
CONSTANTS
    Event = Event
    AutoEvent = AutoEvent
    Mutex = Mutex
    Semaphore = Semaphore
    Kind <- MCKind
    ManualReset <- MCManualReset
    InitialCount <- MCInitialCount
    MaxRecursion = 1
    TicksPerMs = 2
    Quantum = 2
    MaxThreads = 2
    Objects = {Mutex, AutoEvent, Semaphore}
    WaitLists <- EventOrSemaphore
    Timeouts = {1}
    Tids = {1, 2}
    Main = 1
    Pages = {"anonymous", "mapped"}
    FilePages = {"mapped"}
    MaxWork = 2
INVARIANTS
    GrantsConserved DeadlockIsReal WaitsAreSound ContextIntegrity JoinSound
    ResumedIsSaved
VIEW View
\* Guests end.
CHECK_DEADLOCK FALSE
