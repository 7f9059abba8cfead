------------------------------ MODULE MCCache ------------------------------
(* Cache with a directory that holds a file, and with objects that are     *)
(* made, renamed, opened and removed.                                      *)
EXTENDS Cache
MCPaths == {<<>>, <<1>>, <<1, 1>>, <<2>>, <<3>>}
MCInitial == (<<>> :> "dir") @@ (<<1>> :> "dir") @@ (<<1, 1>> :> "file")
             @@ (<<2>> :> "file") @@ (<<3>> :> "none")
MCNext == {<<2>>}
MCInside == {<<1, 1>>}
MCJunk == {[name |-> 1, type |-> "file"]}
MCMode(op, path, mode) == [Command(op, path) EXCEPT !.mode = mode]
MCCommands ==
    {Command("mkdir", <<3>>), Command("remove", <<2>>),
     Command("enumerate", <<>>),
     [Command("rename", <<2>>) EXCEPT !.to = <<3>>],
     MCMode("open", <<2>>, "up"), MCMode("open", <<2>>, "out")}
=============================================================================
