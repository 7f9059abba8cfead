-------------------------------- MODULE MCData --------------------------------
(* The parts that have their own users, above and beside the layers of        *)
(* MCRequests: the control of the link, the entry points of the filing        *)
(* system, the clipboard, the Wimp filter, printing and backups, with small   *)
(* constants, checked one after another in one run; and, in the same run, the *)
(* channels of the multiplexor. part is what is running.                      *)
EXTENDS Channels, LinkControl, Clipboard, Entry, Printing

VARIABLES
    part,
    claimed, icept, bounced, refs, files, got, chosen, stray, \* Intercept
    away, tree, disc, tar, work, reader, mishap             \* Archive

MCDrivers == {[ports |-> 1, speeds |-> <<9600, 19200, 115200>>]}
MCSettings == [driver : MCDrivers, port : {0, 1}, baud : {9600, 300}, autobaud : BOOLEAN]
MCRecommended == {19200, 115200}
MCDevices == {"d1", "d2"}
MCMasks == {{"load", "save", "run_all"}, {"transfer", "run_unclaimed"}}
MCKeys == {<<FALSE, FALSE>>, <<TRUE, FALSE>>, <<FALSE, TRUE>>}
MCParent == <<0, 1, 0>>     \* a directory with a file in it, and a file
MCBlocks == <<0, 2, 1>>

I == INSTANCE Intercept WITH
    queue <- bounced, Clients <- {"client"}, Masks <- MCMasks, Transfers <- {1},
    Kinds <- {"load", "save", "transfer", "run"}, Slots <- {1, 2}, Keys <- MCKeys,
    Releases <- FALSE
A == INSTANCE Archive WITH
    remote <- away, Parent <- MCParent, Blocks <- MCBlocks, Selections <- {{1, 2}},
    StepMax <- 1, VersionMax <- 2, ChangeMax <- 1, BackupMax <- 2, FaultMax <- 1, Rough <- FALSE

ASSUME MCDataAssumption ==
    /\ EntryParameters /\ LinkParameters
    /\ ClipboardParameters /\ I!InterceptParameters
    /\ PrintingParameters /\ A!ArchiveParameters

ivars == <<claimed, icept, bounced, refs, files, got, chosen, stray>>
avars == <<away, tree, disc, tar, work, reader, mishap>>
svars == <<evars, lvars, cvars, ivars, pvars, avars>>

MCInit ==
    /\ part \in {"channels", "entries", "link", "clipboard", "filter", "printing", "backups"}
    /\ Init /\ EntryInit /\ LinkInit /\ ClipboardInit /\ I!InterceptInit
    /\ PrintingInit /\ A!ArchiveInit
    /\ part # "link" => config = CHOOSE c \in MCSettings : TRUE

\* All but the channels may stop.
MCNext ==
    \/ part = "channels" /\ Next /\ UNCHANGED <<part, svars>>
    \/ /\ part # "channels" /\ UNCHANGED <<part, vars>>
       /\ \/ part = "entries" /\ EntryNext /\ UNCHANGED <<lvars, cvars, ivars, pvars, avars>>
          \/ part = "link" /\ LinkNext /\ UNCHANGED <<evars, cvars, ivars, pvars, avars>>
          \/ part = "clipboard" /\ ClipboardNext /\ UNCHANGED <<evars, lvars, ivars, pvars, avars>>
          \/ part = "filter" /\ I!InterceptNext /\ UNCHANGED <<evars, lvars, cvars, pvars, avars>>
          \/ part = "printing" /\ PrintingNext /\ UNCHANGED <<evars, lvars, cvars, ivars, avars>>
          \/ part = "backups" /\ A!ArchiveNext /\ UNCHANGED <<evars, lvars, cvars, ivars, pvars>>
          \/ UNCHANGED svars

MCSpec == MCInit /\ [][MCNext]_<<part, vars, svars>>

\* What a channel that nobody owns or waits for leaves behind is not read
\* again: ChanCreate sets it before the next use.
Lasting(u) == u \in mux.open \/ u \in mux.uploads \/ Contains(mux.regs, u)
DataView ==
    << [mux EXCEPT !.num = [u \in User |-> IF Lasting(u) THEN mux.num[u] ELSE 0],
                   !.retried = {u \in @ : Lasting(u)},
                   !.era = mux.up /\ @,
                   !.ctrl = IF mux.up \/ mux.ending THEN @ ELSE <<>>],
       phase, inbox, [remote EXCEPT !.era = mux.up /\ @], part, svars >>

\* The tasks exchange the right files and notice nothing (wimpfilt.c).
InterceptOK == I!InterceptOK

\* A backup that succeeds leaves an archive with all that was listed, and what is
\* extracted is what was stored (tar.c, backtree.c, async.c).
ArchiveOK == A!ArchiveOK
===============================================================================
