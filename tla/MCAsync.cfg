SPECIFICATION FairSpec
CONSTANTS
    Ids = {1, 2, 3, 4, 5}
    Kinds = {"shutdown", "restart", "read", "write", "backup", "write_start", "install"}
    MaxRoots = 1
    Tasks = 1
    Blocks = 1
    Drives = 2
    Chunks = 1
    MaxGrow = 1
    Listing <- MCListing
    Previous <- MCPrevious
    Scrap = TRUE
INVARIANTS AsyncOK OutcomesOK BackupComplete LiveCallbacks
PROPERTY EndedIsFreed
