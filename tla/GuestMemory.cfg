\* Pages that are mapped one by one, in spans and both; two values.
SPECIFICATION Spec
CONSTANTS
    f1 = f1
    f2 = f2
    f3 = f3
    f4 = f4
    Pages <- MCPages
    Slots = {0, 1}
    SlotOf <- MCSlotOf
    Frames <- MCFrames
    Values = {0, 1}
    Zero = 0
    Absent = Absent
    Reserved = Reserved
    None = None
    Ranges <- MCRanges
INVARIANTS
    CachesCohere VerdictIsExact
PROPERTIES
    MemoryIsFlat
SYMMETRY AnyFrames
\* A difference stops the program.
CHECK_DEADLOCK FALSE
