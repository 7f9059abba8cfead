SPECIFICATION Spec
CONSTANTS
    Paths <- MCPaths
    Initial <- MCInitial
    Volatile = {}
    Recached <- MCNext
    RecacheBusy = FALSE
    Commands <- MCCommands
    Failing = {}
    Junk <- MCJunk
    Details = {}
    Room = 4
    MaxQueue = 1
    MaxEvents = 1
    Heap = {1, 2, 3, 4}
    Handles = {1}
INVARIANT ObjectsFound
