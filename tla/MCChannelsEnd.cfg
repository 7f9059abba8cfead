SPECIFICATION Spec
CONSTANTS
    InboxMax = 2
    EndAfterInfo = FALSE
INVARIANT EndedOK
