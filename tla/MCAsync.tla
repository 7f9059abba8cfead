------------------------------ MODULE MCAsync ------------------------------
(* Async with a small remote file system and all its operations.           *)
EXTENDS Async
MCListing == << [files |-> {"a", "b"}, subs |-> 1], [files |-> {"c"}, subs |-> 0] >>
MCPrevious == << [file |-> "a", age |-> "same"], [file |-> "b", age |-> "newer"] >>
=============================================================================
