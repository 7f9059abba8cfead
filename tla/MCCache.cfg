SPECIFICATION FairSpec
CONSTANTS
    Paths <- MCPaths
    Initial <- MCInitial
    Volatile <- MCInside
    Recached <- MCInside
    RecacheBusy = FALSE
    Commands <- MCCommands
    Failing = {"list", "mkdir", "remove", "rename", "open", "size", "close", "stamp"}
    Junk <- MCJunk
    Details = {}
    Room = 4
    MaxQueue = 1
    MaxEvents = 1
    Heap = {1, 2, 3, 4}
    Handles = {1}
INVARIANTS CacheOK Coherent OutcomesOK
PROPERTY OpEnds
