-------------------------------- MODULE Archive --------------------------------
(* Backing up a directory tree to an archive: tar.c reads and writes archives   *)
(* block by block, backtree.c holds what is to be copied, and the backup        *)
(* operations of async.c compare the previous archive with the tree, keep what  *)
(* is unchanged, move the rest to a scrap archive and copy the other files.     *)
EXTENDS Integers, Sequences, FiniteSetsExt

CONSTANTS
    Parent,     \* of each path, a number in the order of the tree; 0 is the root
    Blocks,     \* of data of each path; 0 for a directory
    StepMax,    \* most blocks that are moved in one step
    VersionMax, \* bound of the versions of a file
    Selections, \* paths that the command may extract
    ChangeMax,  \* bound of the changes of remote files
    BackupMax,  \* bound of the backups
    FaultMax,   \* bound of the failures to write to an archive or to read a file
    Rough       \* the write of the end marker may fail as well

VARIABLES
    remote,     \* versions of the remote files, 0 for none
    tree,       \* the backup tree: versions, the paths to ignore, the next path
    disc,       \* the archives and the temporary file
    tar,        \* the handles of open archives
    work,       \* the backup operation
    reader,     \* the command that extracts files
    mishap      \* failures and backups so far

avars == <<remote, tree, disc, tar, work, reader, mishap>>

Paths == DOMAIN Parent

ArchiveParameters ==
    /\ DOMAIN Blocks = Paths /\ \A p \in Paths : Parent[p] \in 0 .. p - 1 /\ Blocks[p] \in Nat
    /\ \A p \in Paths : Parent[p] # 0 => Blocks[Parent[p]] = 0
    /\ StepMax \in Nat \ {0} /\ {VersionMax, ChangeMax, BackupMax, FaultMax} \subseteq Nat
    /\ Selections \subseteq SUBSET Paths
    /\ Rough \in BOOLEAN

\* A block is the header of an entry, the data of one, or the end marker.
Header(entry) == <<entry[1], entry[2], 0>>
DataBlocks(entry, from, n) == [k \in 1 .. n |-> <<entry[1], entry[2], from + k>>]
EndBlock == <<0, 0, -1>>
NoEntry == <<0, 0>>
NoArchive == <<<<0, 0, -2>>>>

Closed == [op |-> "closed", to |-> "none", remain |-> 0, done |-> 0, ptr |-> 0, entry |-> NoEntry]
Opened == [Closed EXCEPT !.op = "idle"]
NoTree == [version |-> <<>>, ignore |-> {}, next |-> 1]
NoWork == [stage |-> "idle", child |-> "none", response |-> "continue", quiet |-> FALSE,
           entry |-> NoEntry, skipped |-> {}, listed |-> {}, changes |-> FALSE, result |-> "none"]
NoReader == [active |-> FALSE, wanted |-> {}, out |-> <<>>, result |-> "none"]

ArchiveInit ==
    /\ remote = [p \in Paths |-> 1]
    /\ tree = NoTree
    /\ disc = [prev |-> NoArchive, dest |-> NoArchive, scrap |-> NoArchive, temp |-> NoEntry]
    /\ tar = [prev |-> Closed, dest |-> Closed, scrap |-> Closed]
    /\ work = NoWork /\ reader = NoReader
    /\ mishap = [faults |-> 0, backups |-> 0, changes |-> 0]

-----------------------------------------------------------------------------
(* tar.c: operators on the archives and their handles *)

Now == [disc |-> disc, tar |-> tar, error |-> FALSE]
Failed(t) == [t EXCEPT !.error = TRUE]

\* tar_write_block
Put(t, a, blocks, fails) == IF fails THEN Failed(t) ELSE [t EXCEPT !.disc[a] = @ \o blocks]

\* tar_next and tar_decode_header: what is neither a header nor the end marker
\* has a bad checksum.
Decode(t, a, block) ==
    [t EXCEPT !.error = block[3] > 0,
              !.tar[a] = [@ EXCEPT
                  !.ptr = @ + 1, !.done = 0,
                  !.entry = IF block[3] # 0 THEN NoEntry ELSE <<block[1], block[2]>>,
                  !.remain = IF block[3] # 0 THEN 0 ELSE Blocks[block[1]]]]
NextEntry(t, a) ==
    IF t.tar[a].ptr >= Len(t.disc[a])
    THEN Failed([t EXCEPT !.tar[a].entry = NoEntry, !.tar[a].remain = 0])
    ELSE Decode(t, a, t.disc[a][t.tar[a].ptr + 1])

\* tar_open_in
CloseIf(t, a) == IF t.error THEN [t EXCEPT !.tar[a] = Closed] ELSE t
OpenIn(t, a) == CloseIf(NextEntry([t EXCEPT !.tar[a] = Opened], a), a)

\* tar_open_out.  To append is to write over the end marker.
OpenOutAfterEnd(t, a, append) ==  \* mutant
    [t EXCEPT !.tar[a] = Opened, !.disc[a] = IF append /\ @ # NoArchive THEN @ ELSE <<>>]
OpenOut(t, a, append) ==
    LET length == Len(t.disc[a]) IN
    IF ~append \/ t.disc[a] = NoArchive THEN [t EXCEPT !.tar[a] = Opened, !.disc[a] = <<>>]
    ELSE IF length = 0 \/ t.disc[a][length] # EndBlock THEN Failed(t)
    ELSE [t EXCEPT !.tar[a] = Opened, !.disc[a] = SubSeq(@, 1, length - 1)]

\* tar_add, of the temporary file
Add(t, fails) ==
    LET written == Put(t, "dest", <<Header(t.disc.temp)>>, fails)
    IN IF written.error THEN written
       ELSE [written EXCEPT !.tar.dest = [Opened EXCEPT !.op = "add", !.entry = t.disc.temp,
                                                        !.remain = Blocks[t.disc.temp[1]]]]

\* tar_copy, of the current entry of the previous archive
Copy(t, to, fails) ==
    LET written == Put(t, to, <<Header(t.tar.prev.entry)>>, fails)
    IN IF written.error THEN written
       ELSE [written EXCEPT !.tar.prev.op = "source", !.tar.prev.to = to, !.tar.prev.done = 0,
                            !.tar[to].op = "target"]

\* tar_continue_add and tar_continue_copy with n blocks to move
MoveAdd(t, n, fails) ==
    Put([t EXCEPT !.tar.dest.remain = @ - n, !.tar.dest.done = @ + n], "dest",
        DataBlocks(t.tar.dest.entry, t.tar.dest.done, n), fails)
MoveCopy(t, n, fails) ==
    LET ptr == t.tar.prev.ptr IN
    IF ptr + n > Len(t.disc.prev) THEN Failed([t EXCEPT !.tar.prev.ptr = Len(t.disc.prev)])
    ELSE Put([t EXCEPT !.tar.prev.ptr = @ + n, !.tar.prev.remain = @ - n], t.tar.prev.to,
             SubSeq(t.disc.prev, ptr + 1, ptr + n), fails)

\* tar_continue of handle a.  An error ends the operation of this handle only.
Copies(h) == h.op \in {"source", "target"}
Left(t, a) == IF Copies(t.tar[a]) THEN t.tar.prev.remain ELSE t.tar[a].remain
Finished(t, a) ==
    IF Copies(t.tar[a])
    THEN NextEntry([t EXCEPT !.tar.prev.op = "idle", !.tar[t.tar.prev.to].op = "idle"], "prev")
    ELSE [t EXCEPT !.tar[a].op = "idle"]
Ends(t, a) == IF t.error THEN [t EXCEPT !.tar[a].op = "idle"] ELSE t
Continue(t, a, n, fails) ==
    IF t.tar[a].op \in {"idle", "closed"} THEN t
    ELSE Ends(IF Left(t, a) = 0 THEN Finished(t, a)
              ELSE IF Copies(t.tar[a]) THEN MoveCopy(t, n, fails) ELSE MoveAdd(t, n, fails), a)

\* tar_complete
Rest(t, a) == IF t.error \/ Left(t, a) > 0 THEN t ELSE Continue(t, a, 0, FALSE)
Complete(t, a, fails) == Rest(IF Left(t, a) = 0 THEN t ELSE Continue(t, a, Left(t, a), fails), a)

\* tar_close of an output.  Nobody looks at its error.
Mark(t, a, fails) == IF t.error THEN t ELSE Put(t, a, <<EndBlock>>, fails)
Close(t, a, fails) ==
    IF t.tar[a].op = "closed" THEN t
    ELSE [Mark(Complete([t EXCEPT !.error = FALSE], a, fails), a, fails)
             EXCEPT !.tar[a] = Closed, !.error = t.error]

\* tar_skip
Skip(t) ==
    LET to == t.tar.prev.ptr + t.tar.prev.remain
    IN IF to > Len(t.disc.prev) THEN Failed(t) ELSE NextEntry([t EXCEPT !.tar.prev.ptr = to], "prev")

-----------------------------------------------------------------------------
(* backtree.c *)

\* backtree_add: the enumeration starts again.
InTree(added) ==
    [tree EXCEPT !.version = [p \in DOMAIN @ \cup added |-> IF p \in added THEN remote[p] ELSE @[p]],
                 !.next = 1]

\* backtree_check
Check(entry) ==
    CASE entry[1] \notin DOMAIN tree.version -> "not found"
      [] entry[1] \in DOMAIN tree.version /\ tree.version[entry[1]] = entry[2] -> "same"
      [] entry[1] \in DOMAIN tree.version /\ tree.version[entry[1]] < entry[2] -> "newer"
      [] OTHER -> "older"

\* backtree_ignore
Ignore(p) == [tree EXCEPT !.ignore = @ \cup {p}]

\* backtree_enumerate: the next pointer never goes back.
Wanted == {p \in DOMAIN tree.version \ tree.ignore : p >= tree.next}

-----------------------------------------------------------------------------
(* async.c: the backup operations *)

MayFail == IF mishap.faults < FaultMax THEN BOOLEAN ELSE {FALSE}
Apply(t) == disc' = t.disc /\ tar' = t.tar
Blame(fails) == mishap' = [mishap EXCEPT !.faults = @ + (IF fails THEN 1 ELSE 0)]
Wipe(t, names) == [t EXCEPT !.disc = [a \in DOMAIN @ |-> IF a \in names THEN NoArchive ELSE @[a]]]

\* The stage of the previous archive, and that of the copying, when they end
EndPrev(t, success, fails) ==
    Wipe([Close(Close(t, "dest", fails), "scrap", fails) EXCEPT !.tar.prev = Closed],
         IF success THEN {} ELSE {"dest", "scrap"})
EndCopy(t, fails) == [Close(t, "dest", fails) EXCEPT !.disc.temp = NoEntry]
End(t, result, fails) ==
    /\ Apply(CASE work.stage = "list" -> t
               [] work.stage = "prev" -> EndPrev(t, FALSE, fails)
               [] work.stage = "copy" -> EndCopy(t, fails))
    /\ work' = [work EXCEPT !.stage = "idle", !.child = "none", !.result = result]

\* Either the step is taken and the work goes on, or its error ends the backup.
Step(t, next, fails) ==
    /\ IF t.error THEN End(t, "error", fails /\ Rough) ELSE Apply(t) /\ work' = next
    /\ Blame(fails)

\* async_process_backup
Begin(changes) ==
    /\ work.stage = "idle" /\ work.result = "none" /\ ~reader.active
    /\ mishap.backups < BackupMax
    /\ disc' = [Wipe(Now, {"dest", "scrap"}).disc EXCEPT !.temp = NoEntry]
    /\ tree' = NoTree
    /\ work' = [NoWork EXCEPT !.stage = "list", !.changes = changes]
    /\ mishap' = [mishap EXCEPT !.backups = @ + 1]
    /\ UNCHANGED <<remote, tar, reader>>

\* async_process_backup_list: one directory after another
Unlisted == ({0} \cup {p \in DOMAIN tree.version : Blocks[p] = 0}) \ work.listed
List ==
    /\ work.stage = "list" /\ Unlisted # {}
    /\ LET d == Min(Unlisted) IN
         IF d # 0 /\ remote[IF d = 0 THEN 1 ELSE d] = 0
         THEN End(Now, "error", FALSE) /\ UNCHANGED tree
         ELSE /\ tree' = InTree({p \in Paths : Parent[p] = d /\ remote[p] # 0})
              /\ work' = [work EXCEPT !.listed = @ \cup {d}]
              /\ UNCHANGED <<disc, tar>>
    /\ UNCHANGED <<remote, reader, mishap>>

\* Without a previous archive there is nothing to compare.
BeginPrev ==
    LET in == OpenIn(Now, "prev")
        scrap == IF in.error \/ ~work.changes THEN in ELSE OpenOut(in, "scrap", FALSE)
        out == IF scrap.error THEN scrap ELSE OpenOut(scrap, "dest", FALSE)
    IN /\ work.stage = "list" /\ Unlisted = {}
       /\ IF disc.prev = NoArchive
          THEN UNCHANGED <<disc, tar>> /\ work' = [work EXCEPT !.stage = "begin copy"]
          ELSE IF out.error
          THEN Apply(EndPrev(out, FALSE, FALSE)) /\ work' = [work EXCEPT !.stage = "idle", !.result = "error"]
          ELSE Apply(out) /\ work' = [work EXCEPT !.stage = "prev"]
       /\ UNCHANGED <<remote, tree, reader, mishap>>

\* async_process_backup_prev: an entry that is the same is kept, the others go
\* to the scrap archive.
Sort(fails) ==
    LET to == IF work.response = "skip" THEN "dest" ELSE "scrap"
        next == [work EXCEPT !.response = "continue"]
        skips == to = "scrap" /\ ~work.changes
    IN /\ work.stage = "prev" /\ work.child = "none" /\ work.response \in {"copy", "skip"}
       /\ IF skips THEN Step(Skip(Now), next, FALSE)
          ELSE Step(Copy(Now, to, fails), [next EXCEPT !.child = "tar"], fails)
       /\ tree' = IF to = "dest" THEN Ignore(work.entry[1]) ELSE tree
       /\ UNCHANGED <<remote, reader>>
Compare(fails) ==
    LET entry == tar.prev.entry
        result == Check(entry)
    IN /\ work.stage = "prev" /\ work.child = "none" /\ work.response = "continue" /\ (fails => Rough)
       /\ IF entry = NoEntry
          THEN Apply(EndPrev(Now, TRUE, fails)) /\ work' = [work EXCEPT !.stage = "begin copy"]
          ELSE /\ ~fails
               /\ work' = [work EXCEPT !.entry = entry, !.response =
                             CASE result = "same" -> "skip"
                               [] result = "newer" /\ ~work.quiet -> "wait"
                               [] OTHER -> "copy"]
               /\ UNCHANGED <<disc, tar>>
       /\ Blame(fails)
       /\ UNCHANGED <<remote, tree, reader>>

\* async_process_tar_complete
TarStep(n, fails) ==
    LET a == IF work.stage = "prev" THEN "prev" ELSE "dest"
        t == Continue(Now, a, n, fails)
    IN /\ work.child = "tar" /\ n <= (IF Left(Now, a) = 0 THEN 1 ELSE Left(Now, a))
       /\ Step(t, [work EXCEPT !.child = IF t.tar[a].op = "idle" THEN "none" ELSE @], fails)
       /\ UNCHANGED <<remote, tree, reader>>

\* async_process_backup_copy
BeginCopy ==
    /\ work.stage = "begin copy"
    /\ LET out == OpenOut(Now, "dest", TRUE) IN
         IF out.error THEN UNCHANGED <<disc, tar>> /\ work' = [work EXCEPT !.stage = "idle", !.result = "error"]
         ELSE Apply(out) /\ work' = [work EXCEPT !.stage = "copy"]
    /\ UNCHANGED <<remote, tree, reader, mishap>>
CopyNext(fails) ==
    /\ work.stage = "copy" /\ work.child = "none" /\ work.response = "continue"
    /\ fails => Rough
    /\ IF Wanted = {} THEN End(Now, "success", fails) /\ UNCHANGED tree
       ELSE /\ ~fails
            /\ tree' = [tree EXCEPT !.next = Min(Wanted)]
            /\ work' = [work EXCEPT !.entry = <<Min(Wanted), tree.version[Min(Wanted)]>>, !.child = "read"]
            /\ UNCHANGED <<disc, tar>>
    /\ Blame(fails)
    /\ UNCHANGED <<remote, reader>>
ReadDone(fails) ==
    LET p == work.entry[1] IN
    /\ work.child = "read"
    /\ IF fails \/ remote[p] = 0
       THEN work' = [work EXCEPT !.child = "none", !.response = "wait"] /\ UNCHANGED disc
       ELSE work' = [work EXCEPT !.child = "none", !.response = "copy"]
            /\ disc' = [disc EXCEPT !.temp = <<p, remote[p]>>]
    /\ Blame(fails)
    /\ UNCHANGED <<remote, tree, tar, reader>>
CopyAdd(fails) ==
    /\ work.stage = "copy" /\ work.child = "none" /\ work.response = "copy"
    /\ tree' = Ignore(work.entry[1])
    /\ Step(Add(Now, fails), [work EXCEPT !.child = "tar", !.response = "continue"], fails)
    /\ UNCHANGED <<remote, reader>>

\* async_response: an entry of the previous archive that is newer, or a file that
\* cannot be read
Answer(response) ==
    /\ work.response = "wait"
    /\ work' = IF work.stage = "prev"
               THEN [work EXCEPT !.response = IF response = "quiet" THEN "copy" ELSE response,
                                 !.quiet = @ \/ response = "quiet"]
               ELSE IF response = "retry" THEN [work EXCEPT !.response = "continue", !.child = "read"]
               ELSE [work EXCEPT !.response = "continue", !.skipped = @ \cup {work.entry[1]}]
    /\ response \in IF work.stage = "prev" THEN {"copy", "skip", "quiet"} ELSE {"retry", "skip"}
    /\ tree' = IF work.stage = "copy" /\ response = "skip" THEN Ignore(work.entry[1]) ELSE tree
    /\ UNCHANGED <<remote, disc, tar, reader, mishap>>

\* async_abort
Abort ==
    /\ work.stage \in {"list", "prev", "copy"}
    /\ End(Now, "aborted", FALSE)
    /\ UNCHANGED <<remote, tree, reader, mishap>>

-----------------------------------------------------------------------------
(* The user of the archives, and the remote machine *)

\* The archive takes the place of the previous one (backcfg.c++).
Store ==
    /\ work.stage = "idle" /\ work.result # "none"
    /\ disc' = IF disc.dest = NoArchive THEN disc
               ELSE Wipe([Now EXCEPT !.disc.prev = disc.dest], {"dest", "scrap"}).disc
    /\ work' = NoWork /\ tree' = NoTree /\ reader' = NoReader
    /\ UNCHANGED <<remote, tar, mishap>>

\* util_read_tar
Extract(wanted) ==
    LET t == OpenIn(Now, "prev") IN
    /\ work = NoWork /\ reader = NoReader /\ disc.prev # NoArchive
    /\ Apply(t)
    /\ reader' = [NoReader EXCEPT !.active = ~t.error, !.wanted = wanted,
                                  !.result = IF t.error THEN "error" ELSE "none"]
    /\ UNCHANGED <<remote, tree, work, mishap>>
\* tar_extract and tar_continue_extract: the header of the next entry is read
\* when the file has been written.
ExtractStep ==
    LET h == tar.prev
        end == h.ptr + h.remain
        t == Skip(Now)
        out == IF h.entry[1] \in reader.wanted
               THEN [reader EXCEPT !.out = Append(@, <<Header(h.entry)>> \o SubSeq(disc.prev, h.ptr + 1, end))]
               ELSE reader
    IN /\ reader.active
       /\ IF h.entry = NoEntry \/ t.error
          THEN /\ reader' = [reader EXCEPT !.active = FALSE,
                                           !.result = IF h.entry = NoEntry THEN "success" ELSE "error"]
               /\ tar' = [tar EXCEPT !.prev = Closed]
          ELSE reader' = out /\ tar' = t.tar
       /\ UNCHANGED <<remote, tree, disc, work, mishap>>

Change(p, version) ==
    /\ version # remote[p]
    /\ version # 0 => Parent[p] = 0 \/ remote[IF Parent[p] = 0 THEN p ELSE Parent[p]] # 0
    /\ version = 0 => \A q \in Paths : Parent[q] = p => remote[q] = 0
    /\ work.stage = "idle" \/ version \in {0, VersionMax}    \* none gets older meanwhile
    /\ mishap.changes < ChangeMax
    /\ remote' = [remote EXCEPT ![p] = version]
    /\ mishap' = [mishap EXCEPT !.changes = @ + 1]
    /\ UNCHANGED <<tree, disc, tar, work, reader>>

ArchiveNext ==
    \/ \E changes \in BOOLEAN : Begin(changes)
    \/ List \/ BeginPrev \/ BeginCopy \/ Abort \/ Store
    \/ \E fails \in MayFail :
         \/ Compare(fails) \/ Sort(fails) \/ CopyNext(fails) \/ ReadDone(fails) \/ CopyAdd(fails)
         \/ \E n \in 1 .. StepMax : TarStep(n, fails)
    \/ \E response \in {"copy", "skip", "quiet", "retry"} : Answer(response)
    \/ \E wanted \in Selections : Extract(wanted)
    \/ ExtractStep
    \/ \E p \in Paths, version \in 0 .. VersionMax : Change(p, version)

ArchiveSpec == ArchiveInit /\ [][ArchiveNext]_avars

-----------------------------------------------------------------------------
(* Properties *)

Entries(a) == {<<disc[a][i][1], disc[a][i][2]>> : i \in {j \in 1 .. Len(disc[a]) : disc[a][j][3] = 0}}
Whole(a, i) == SubSeq(disc[a], i + 1, i + Blocks[disc[a][i][1]])
               = DataBlocks(disc[a][i], 0, Blocks[disc[a][i][1]])

\* Headers with all their data and nothing else, then the end marker
WellFormed(a) ==
    /\ disc[a] # <<>> /\ disc[a][Len(disc[a])] = EndBlock
    /\ \A i \in 1 .. Len(disc[a]) :
         /\ disc[a][i][3] = 0 => Whole(a, i)
         /\ disc[a][i][3] > 0 => i > disc[a][i][3] /\ disc[a][i - disc[a][i][3]] = Header(disc[a][i])
         /\ disc[a][i] = EndBlock => i = Len(disc[a])

\* The archive has each listed file once, as it was listed or newer, except
\* those that could not be read; what it does not keep of the previous archive
\* is in the scrap archive.
HasAll ==
    LET dest == Entries("dest") IN
    /\ \A p \in DOMAIN tree.version \ work.skipped :
         Cardinality({e \in dest : e[1] = p}) = 1 /\ \A e \in dest : e[1] = p => e[2] >= tree.version[p]
    /\ Cardinality({i \in 1 .. Len(disc.dest) : disc.dest[i][3] = 0}) = Cardinality(dest)
    /\ work.changes /\ disc.prev # NoArchive =>
         WellFormed("scrap") /\ Entries("prev") \subseteq dest \cup Entries("scrap")

Stored == {e \in Entries("prev") : e[1] \in reader.wanted}
Extracted == \A i \in 1 .. Len(reader.out) :
                LET entry == <<reader.out[i][1][1], reader.out[i][1][2]>> IN
                /\ entry \in Stored
                /\ reader.out[i] = <<Header(entry)>> \o DataBlocks(entry, 0, Blocks[entry[1]])

\* A backup that succeeds or is aborted leaves a good archive, which after a
\* success is complete, and files that are extracted are what was stored
\* (tar.c, backtree.c, async_process_backup_prev, async_process_backup_copy).
ArchiveOK ==
    /\ work.result = "success" => WellFormed("dest") /\ HasAll
    /\ work.result = "aborted" => disc.dest = NoArchive \/ WellFormed("dest")
    /\ reader.result = "success" => Extracted /\ Len(reader.out) = Cardinality(Stored)
================================================================================
