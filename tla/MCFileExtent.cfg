SPECIFICATION FileSpec
CONSTANTS
    Values = {"a"}
    Buffer = 2
    Piece = 1
    MaxSize = 4
    Lengths = {2}
    Sizes = {3}
INVARIANTS Extended
CHECK_DEADLOCK FALSE
