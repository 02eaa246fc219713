\* A spawned process that spawns in turn.
SPECIFICATION SpawnSpec
CONSTANTS
    MaxProcs = 3
    MaxFrames = 3
    ExitCodes = {3}
    Spawners = {1, 2}
    Terminators = {}
INVARIANTS
    PausedIsNotScheduled
