\* The allocators: the image, a break of one page, a window of three, a page far
\* up.  The kinds of program whose areas do not overlap.
SPECIFICATION GuestsSpec
CONSTANTS
    Systems = {"Linux", "Windows"}
    LastPage = 6
    HeapBase = 1
    HeapLimit = 2
    MmapLimit = 5
    Sizes = {1, 2}
    Granule = 2
    Placed = {6}
    Explored = {"pages", "space", "elf", "pe", "output", "frames", "unwinding", "modules"}
    Kinds = {"win64", "linux64", "pie64", "linux32"}
    ImageSizes = {16, 512}
    FixedBases = {393216}
    Requests = {1, 2560, 12288, 200000}
    MaxLibraries = 3
    MaxRequests = 3
    Processes = {1, 2}
    Root = 1
    Terminal = FALSE
    BufferLines = 2
    Targets = {"text", "binary"}
    MaxLines = 2
    MaxFrames = 3
    MaxLoops = 2
    Libs = {"x", "y", "z"}
    WithTls = {"x", "y"}
    Graphs <- MCGraphs
    Handlers = {"f"}
    MaxThreads = 2
INVARIANTS
    AreasApart StartIsRead ChildHears NothingIsLost
    WalkFindsCallers ExceptionsFindTheirWay ModulesAreKept
PROPERTIES
    FreshIsFresh
VIEW View
\* Programs end.
CHECK_DEADLOCK FALSE
