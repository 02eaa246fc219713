\* The cache: two pages, an address on each, in one slot of every table.  The x87
\* stack: three registers, two of them in use.
SPECIFICATION CodeSpec
CONSTANTS
    Pages = {1, 2}
    Pcs = {1, 2}
    PageOf <- MCPageOf
    TlbSlot <- MCTlbSlot
    TableSlot <- MCTableSlot
    MaxBlocks = 2
    MaxDepth = 2
    ReclaimAt = 2
    BanAfter = 1
    ArenaBlocks = 1
    NativeOn = TRUE
    Contiguous = TRUE
    Slots = 3
    Modulus = 3
    MaxHeight = 2
INVARIANTS
    IntegerExact RegistersCohere PackedAgree X87IsAStack
    RunsWhatMemoryHolds WhatIsReachedIsCurrent RunsAsInterpreted
VIEW View
\* A program ends, and most samples have no step.
CHECK_DEADLOCK FALSE
