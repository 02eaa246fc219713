\* Three threads, an SRW lock, a critical section and a condition variable; four
\* processes and their spawns; four Linux threads.
SPECIFICATION WaitsSpec
CONSTANTS
    L = L
    S = S
    CV = CV
    N = 3
    Srw = {L}
    Sections = {S}
    CondVars = {CV}
    MaxDepth = 2
    SleepModes = {"exclusive"}
    MaxProcs = 4
    MaxFrames = 2
    ExitCodes = {3}
    Spawners = {1, 2}
    Terminators = {2, 3}
    MaxThreads = 4
    Bits = {32, 64}
INVARIANTS
    BooksAreTrue WhatIsToldIsSo ThreadsAreTold
PROPERTIES
    LocksImplementRwLock FreeLockIsTaken WaitsEnd JoinsComplete
\* A guest's program ends.
CHECK_DEADLOCK FALSE
