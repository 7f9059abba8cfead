SPECIFICATION FairSpec
CONSTANTS
    Ids = {1, 2, 3, 4, 5}
    Kinds = {"write_start"}
    MaxRoots = 1
    Tasks = 1
    Blocks = 1
    Drives = 2
    Chunks = 1
    MaxGrow = 1
    Listing <- MCListing
    Previous <- MCPrevious
    Scrap = TRUE
INVARIANT EndedCalls
