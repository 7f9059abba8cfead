------------------------------- MODULE Async -------------------------------
(***************************************************************************)
(* Asynchronous operations (src/async.c): the tree of operations, how one  *)
(* is created, processed, paused, queried, aborted, finished and freed,    *)
(* and the twelve operations themselves, each written as the script of its *)
(* handler.                                                                *)
(*                                                                         *)
(* The module code is single threaded, so an event (a SWI, a completed     *)
(* request, an expired timer) runs to the end before the next one.  Within *)
(* an event the functions call each other deeply: a finished child calls   *)
(* its parent, which aborts that child and starts another.  A state s is a *)
(* record of the variables, of env, the answers that the local filing      *)
(* system and the layers below give during the event, and of the stack of  *)
(* calls in progress; Step is one stretch of a C function between two      *)
(* calls, Run the whole event, and an action is one event.                 *)
(***************************************************************************)
EXTENDS Integers, FiniteSets, Sequences

CONSTANTS
    Ids,          \* operation structures that malloc can find room for
    Kinds,        \* the operations that clients start
    MaxRoots,     \* operations without a parent at a time
    Tasks,        \* tasks that are open on the remote machine
    Blocks,       \* blocks of ASYNC_COPY_SIZE in a file
    Drives,       \* drives that a search covers
    Chunks,       \* calls of tar_continue that leave something to do
    MaxGrow,      \* times that a reply does not fit the buffer
    Listing,      \* per level of directory: [files, subs]
    Previous,     \* entries of the previous backup: [file, age]
    Scrap         \* is a scrap archive kept

Ages == {"same", "newer", "other"}

ASSUME IdsAssumption == Ids \subseteq Nat \ {0} /\ IsFiniteSet(Ids)
ASSUME BoundsAssumption ==
    {MaxRoots, Tasks, Blocks, Drives, Chunks, MaxGrow} \subseteq Nat
ASSUME WorldAssumption ==
    /\ \A d \in DOMAIN Listing : Listing[d].subs \in Nat
    /\ \A n \in DOMAIN Previous : Previous[n].age \in Ages
    /\ Listing # <<>> /\ Listing[Len(Listing)].subs = 0
    /\ Scrap \in BOOLEAN

VARIABLES
    op,        \* the structures on async_head, by their address
    call,      \* requests below that will call async_callback
    open,      \* remote files that are open, by the operation that opened them
    disable,   \* cache_disable: operations that suspend the cache
    idle,      \* idle_operations: operations between idle_start and idle_end
    tree,      \* the backup tree: files that are still to be copied
    dest,      \* files in the new backup
    skipped,   \* files that the user chose to leave out
    client     \* handles that clients hold

vars == <<op, call, open, disable, idle, tree, dest, skipped, client>>

NoOp == 0
None == "none"
Errors == {"fail", "many", "empty"}

\* The answers to a request that its operation tells apart: err_ncp_too_many
\* when the buffer for the tasks is too small, err_drive_empty and
\* err_not_found when a drive is searched, the type of an object, whether the
\* command line of a task matches, whether a directory fits the buffer.
Answers(cmd) ==
    LET failed(errs) == [err : errs, reply : {None}]
        replied(replies) == [err : {None}, reply : replies]
    IN CASE cmd = "tasks" -> failed({"fail", "many"}) \cup replied({"file"})
         [] cmd = "info" -> failed({"fail", "empty"}) \cup replied({"none", "file", "dir"})
         [] cmd \in {"detail", "enumerate"} -> failed({"fail"}) \cup replied({"none", "file"})
         [] cmd = "timer" -> replied({"file"})
         [] OTHER -> failed({"fail"}) \cup replied({"file"})

-----------------------------------------------------------------------------
(* Operation structures *)

Done(o) == o.status \in {"success", "error", "aborted"}
Waiting(o) == o.status \in {"wait_restart", "wait_newer", "wait_read"}
Unused == [kind |-> "unused", abort |-> FALSE]
Live(s) == {i \in DOMAIN s.op : s.op[i].kind # "unused"}
File == UNION {Listing[d].files : d \in DOMAIN Listing}

\* What async_new fills in; level, file and src are the details of the
\* operation that its handler reads.
Fresh(kind, p, args, quiet) ==
    [kind |-> kind, parent |-> p, child |-> NoOp, status |-> "busy",
     initialised |-> FALSE, finalised |-> FALSE, abort |-> FALSE,
     pause |-> FALSE, threaded |-> FALSE, suspend |-> FALSE,
     suspended |-> FALSE, response |-> "continue", quiet |-> quiet,
     err |-> None, stored |-> None, failed |-> FALSE,
     cmd |-> "none", reply |-> "none", index |-> 0, num |-> 0, grow |-> 0,
     remote |-> FALSE, held |-> {}, args |-> args, info |-> None]

Ret(s, e) == [s |-> s, err |-> e]
Status(s, i, st) == [s EXCEPT !.op[i].status = st]
Hold(s, i, what) == [s EXCEPT !.op[i].held = @ \cup {what}]

\* async_store_error: the first error of an operation is put aside while its
\* remote file is closed
StoreError(s, i, e) ==
    LET o == s.op[i] IN
    IF o.stored # None THEN [s EXCEPT !.op[i].err = None]
    ELSE IF o.err # None THEN [s EXCEPT !.op[i].stored = o.err, !.op[i].err = None]
    ELSE [s EXCEPT !.op[i].stored = e]

RestoreNothing(s, i, e) == Ret(s, e)  \* mutant

\* async_restore_error
RestoreError(s, i, e) ==
    LET o == s.op[i] IN
    IF o.stored # None
    THEN Ret([s EXCEPT !.op[i].stored = None], o.stored)
    ELSE Ret(s, e)

SuspendWhileAsking(s, i) ==  \* mutant
    LET o == s.op[i]
        suspend == o.suspend /\ ~Done(o) /\ o.status # "paused" /\ o.child = NoOp
    IN IF suspend = o.suspended THEN s
       ELSE [s EXCEPT !.disable = @ + (IF suspend THEN 1 ELSE -1),
                      !.op[i].suspended = suspend]

\* async_suspend: whether the cache is suspended for the operation
Suspend(s, i) ==
    LET o == s.op[i]
        suspend == /\ o.suspend /\ ~Done(o) /\ o.status # "paused"
                   /\ ~Waiting(o) /\ o.child = NoOp
    IN IF suspend = o.suspended THEN s
       ELSE [s EXCEPT !.disable = @ + (IF suspend THEN 1 ELSE -1),
                      !.op[i].suspended = suspend]

\* async_free; a request or a remote file that is left behind keeps no owner,
\* and the files of a backup are followed no longer
Free(s, i) ==
    LET followed(files) == IF s.op[i].kind = "backup" THEN {} ELSE files IN
    [s EXCEPT !.op[i] = Unused,
              !.tree = followed(@), !.dest = followed(@), !.skipped = followed(@),
              !.call = {[c EXCEPT !.op = IF @ = i THEN NoOp ELSE @] : c \in @},
              !.open = {IF f = i THEN NoOp ELSE f : f \in @}]

-----------------------------------------------------------------------------
(* Requests to the layers below *)

\* A call that is to be made: the function, the operation, other parameters
Call(fn, i, arg) == [fn |-> fn, op |-> i, arg |-> arg]
Todo(s, c) == [s EXCEPT !.todo = Append(@, c)]

\* cache_back, unified_back or timer_back after the status was set.  The
\* request may be refused at once, or its callback may come during the call.
Back(s, i, cmd) ==
    LET t == [s EXCEPT !.op[i].status = "below", !.op[i].cmd = cmd]
        answer == IF s.env.answer \in Answers(cmd) THEN s.env.answer
                  ELSE [err |-> None, reply |-> "file"]
    IN CASE s.env.back = "refuse" -> Ret(t, "fail")
         [] s.env.back = "later" ->
              Ret([t EXCEPT !.call = @ \cup {[op |-> i, cmd |-> cmd]}], None)
         [] s.env.back = "now" -> Ret(Todo(t, Call("answered", i, answer)), None)

\* A handler gives a part of its work to a child
Delegate(s, i, kind, args) ==
    Ret(Todo(Status(s, i, "child"), Call("new", i, [kind |-> kind, args |-> args])),
        None)

NoArgs == [level |-> 1, file |-> None, to |-> "none", src |-> "file"]

\* Close the remote file, with the first error put aside
CloseRemote(s, i, e) ==
    Back([StoreError(s, i, e) EXCEPT !.op[i].remote = FALSE], i, "close")

\* A local filing system call that may fail
Local(s, i, r) == IF s.env.local THEN r ELSE Ret(s, "fail")
Success(s, i) == Ret(Status(s, i, "success"), None)

-----------------------------------------------------------------------------
(* The handlers: shutdown and restart *)

ShutdownInit(s, i) ==
    LET t == [s EXCEPT !.op[i].suspend = TRUE] IN
    Local(t, i, Back(Hold(t, i, "file"), i, "tasks"))

\* List the tasks, then for each: read its command line, note and stop it if
\* it matches
ShutdownProcess(s, i, e) ==
    LET o == s.op[i]
        t == CASE o.cmd = "tasks" -> [s EXCEPT !.op[i].index = 0, !.op[i].num = Tasks]
               [] o.cmd = "detail" -> [s EXCEPT !.op[i].index = @ + 1]
               [] OTHER -> s
    IN CASE e = "many" /\ o.cmd = "tasks" /\ o.grow < MaxGrow ->
              Back([s EXCEPT !.op[i].grow = @ + 1], i, "tasks")
         [] e # None -> Ret(s, e)
         [] e = None /\ o.cmd = "detail" /\ o.reply # "none" -> Back(t, i, "stop")
         [] OTHER -> IF t.op[i].index < t.op[i].num
                     THEN Back(t, i, "detail")
                     ELSE Success(t, i)

RestartInit(s, i) ==
    LET t == [s EXCEPT !.op[i].suspend = TRUE] IN
    Local(t, i, Ret([Hold(t, i, "file") EXCEPT !.op[i].response = "skip"], None))

\* Start each task of the file; the user decides about one that fails
RestartProcess(s, i, e) ==
    LET o == s.op[i] IN
    CASE e # None -> Ret(Status(s, i, "wait_restart"), None)
      [] e = None /\ o.response # "skip" ->
           Back([s EXCEPT !.op[i].response = "skip"], i, "start")
      [] OTHER -> IF o.index = Tasks
                  THEN Success(s, i)
                  ELSE Back([s EXCEPT !.op[i].index = @ + 1], i, "start")

-----------------------------------------------------------------------------
(* The handlers: read and write of a file *)

ReadInit(s, i) ==
    Back([s EXCEPT !.op[i].suspend = TRUE], i, "info")

\* One step of a read without an error: info, open, read..., close
ReadStep(s, i) ==
    LET o == s.op[i]
        t == CASE o.cmd = "open" -> [s EXCEPT !.op[i].remote = TRUE, !.op[i].index = 0]
               [] o.cmd = "read" -> [s EXCEPT !.op[i].index = @ + 1]
               [] OTHER -> s
    IN CASE o.cmd = "info" /\ o.reply = "none" -> Ret(s, "fail")
         [] o.cmd = "info" /\ o.reply = "dir" -> Local(s, i, Success(s, i))
         [] o.cmd = "info" /\ o.reply = "file" ->
              Local(s, i, Back(Hold(s, i, "file"), i, "open"))
         [] o.cmd = "close" -> Success([s EXCEPT !.op[i].remote = FALSE], i)
         [] OTHER -> Local(t, i, Back(t, i, IF t.op[i].index < Blocks
                                            THEN "read" ELSE "close"))

GuardedNot(r, i) == r  \* mutant

\* An error of a step, or the one that was put aside, closes the remote file
Guarded(r, i) ==
    IF r.err # None /\ r.s.op[i].remote THEN CloseRemote(r.s, i, r.err) ELSE r

ReadProcess(s, i, e) ==
    LET r == RestoreError(s, i, e) IN
    Guarded(IF r.err = None THEN ReadStep(r.s, i) ELSE r, i)

WriteInit(s, i) ==
    LET t == [s EXCEPT !.op[i].suspend = TRUE] IN
    Local(t, i, Back(t, i, "info"))

\* The step that follows the removal of the old object
WriteCreate(s, i) ==
    IF s.op[i].args.src = "dir"
    THEN Back(s, i, "mkdir")
    ELSE Local(s, i, Back(Hold(s, i, "file"), i, "open"))

\* The types of an object, in num: fileswitch_NOT_FOUND and so on
ObjType == [none |-> 0, file |-> 1, dir |-> 2]

\* One step of a write without an error: info, access and remove if there is
\* an object already, mkdir or open, extent, write..., close, stamp, access.
\* num is the type of the old object until it is out of the way; a step that
\* is not needed is recorded as done and the operation stays busy.
WriteStep(s, i) ==
    LET o == s.op[i]
        Skip(cmd, num) == Ret([s EXCEPT !.op[i].status = "busy",
                                        !.op[i].cmd = cmd, !.op[i].num = num], None)
        opened == [s EXCEPT !.op[i].remote = TRUE, !.op[i].index = 0]
        closed == [s EXCEPT !.op[i].remote = FALSE]
        written == IF o.cmd = "write" THEN [s EXCEPT !.op[i].index = @ + 1] ELSE s
    IN CASE o.cmd = "info" ->
              IF o.reply = "none" THEN Skip("remove", ObjType.none)
              ELSE Back([s EXCEPT !.op[i].num = ObjType[o.reply]], i, "access")
         [] o.cmd = "access" ->
              CASE o.num = ObjType.none -> Success(s, i)
                [] o.num = ObjType.dir /\ o.args.src = "dir" -> Skip("mkdir", ObjType.none)
                [] o.num = ObjType.file /\ o.args.src = "file" -> Skip("remove", ObjType.none)
                [] OTHER -> Back([s EXCEPT !.op[i].num = ObjType.none], i, "remove")
         [] o.cmd = "remove" -> WriteCreate(s, i)
         [] o.cmd = "open" -> Back(opened, i, "extent")
         [] o.cmd \in {"extent", "write"} ->
              IF written.op[i].index < Blocks
              THEN Local(written, i, Back(written, i, "write"))
              ELSE Back(written, i, "close")
         [] o.cmd \in {"mkdir", "close"} -> Back(closed, i, "stamp")
         [] o.cmd = "stamp" -> Back(s, i, "access")

WriteProcess(s, i, e) ==
    LET r == RestoreError(s, i, e) IN
    Guarded(IF r.err = None THEN WriteStep(r.s, i) ELSE r, i)

\* ASYNC_ABORT of a read or write: close the remote file first
AbortTransfer(s, i, e) ==
    LET r == RestoreError(s, i, e) IN
    IF r.s.op[i].remote THEN CloseRemote(r.s, i, r.err)
    ELSE IF r.err = None THEN Ret(Status(r.s, i, "aborted"), None) ELSE r

-----------------------------------------------------------------------------
(* The handlers: write and start, install, find *)

WriteStartInit(s, i) ==
    Delegate([s EXCEPT !.op[i].suspend = TRUE], i, "write", NoArgs)

WriteStartProcess(s, i, e) ==
    LET t == [s EXCEPT !.op[i].index = @ + 1] IN
    CASE e # None -> Ret(s, e)
      [] e = None /\ t.op[i].index = 1 -> Back(t, i, "timer")
      [] e = None /\ t.op[i].index = 2 -> Back(t, i, "start")
      [] OTHER -> Success(t, i)

InstallInit(s, i) == Delegate(s, i, "find", NoArgs)

\* The installer is written only if the search did not find it
InstallProcess(s, i, e) ==
    LET t == [s EXCEPT !.op[i].index = @ + 1]
        found == s.op[s.op[i].child].info = "found"
    IN CASE e # None -> Ret(s, e)
         [] e = None /\ t.op[i].index = 1 ->
              IF found THEN Ret(t, None) ELSE Delegate(t, i, "write_start", NoArgs)
         [] e = None /\ t.op[i].index = 2 -> Delegate(t, i, "write_start", NoArgs)
         [] OTHER -> Success(t, i)

FindInit(s, i) == Ret([s EXCEPT !.op[i].num = Drives], None)

FindProcess(s, i, e) ==
    LET o == s.op[i] IN
    CASE e = None /\ o.index > 0 /\ o.reply # "none" ->
           Success([s EXCEPT !.op[i].info = "found"], i)
      [] e \notin {None, "empty"} -> Ret(s, e)
      [] OTHER -> IF o.index < o.num
                  THEN Back([s EXCEPT !.op[i].index = @ + 1], i, "info")
                  ELSE Success([s EXCEPT !.op[i].info = "all"], i)

-----------------------------------------------------------------------------
(* The handlers: backup and its parts *)

BackupInit(s, i) ==
    LET t == [s EXCEPT !.tree = {}, !.dest = {}, !.skipped = {}] IN
    Local(t, i, Delegate(Hold(t, i, "tree"), i, "backup_list", NoArgs))

\* The tree has been listed, then the previous backup sorted, then the rest
\* copied
BackupProcess(s, i, e) ==
    LET t == [s EXCEPT !.op[i].index = @ + 1] IN
    CASE e # None -> Ret(s, e)
      [] e = None /\ t.op[i].index = 1 -> Delegate(t, i, "backup_prev", NoArgs)
      [] e = None /\ t.op[i].index = 2 -> Delegate(t, i, "backup_copy", NoArgs)
      [] OTHER -> Success(t, i)

ListInit(s, i) == Local(s, i, Back(Hold(s, i, "tree"), i, "enumerate"))

ListNextButLast(s, i) ==  \* mutant
    LET o == s.op[i] IN
    IF o.index + 1 < o.num
    THEN Delegate([s EXCEPT !.op[i].index = @ + 1], i, "backup_list",
                  [NoArgs EXCEPT !.level = o.args.level + 1])
    ELSE Success(s, i)

\* The next sub-directory, if there is one
ListNext(s, i) ==
    LET o == s.op[i] IN
    IF o.index < o.num
    THEN Delegate([s EXCEPT !.op[i].index = @ + 1], i, "backup_list",
                  [NoArgs EXCEPT !.level = o.args.level + 1])
    ELSE Success(s, i)

\* Read the directory with a buffer that is large enough, add its files to
\* the tree, then list its sub-directories one after the other
ListProcess(s, i, e) ==
    LET o == s.op[i]
        here == Listing[o.args.level]
        listed == [s EXCEPT !.tree = @ \cup here.files, !.op[i].num = here.subs]
    IN CASE e # None -> Ret(s, e)
         [] e = None /\ o.num = 0 /\ o.reply = "none" /\ o.grow < MaxGrow ->
              Back([s EXCEPT !.op[i].grow = @ + 1], i, "enumerate")
         [] e = None /\ o.num = 0 /\ (o.reply # "none" \/ o.grow = MaxGrow) ->
              Local(s, i, ListNext(listed, i))
         [] OTHER -> ListNext(s, i)

\* Without a previous backup there is nothing to do
PrevInit(s, i) ==
    IF Previous = <<>> THEN Success(s, i)
    ELSE Local(s, i, Ret(Hold(s, i, "tars"), None))

\* The entry of the previous archive goes to another archive
PrevCopy(s, i, to) ==
    Local(s, i, Delegate([s EXCEPT !.op[i].index = @ + 1], i, "tar_complete",
                         [NoArgs EXCEPT !.file = s.op[i].info, !.to = to]))

\* Compare the next entry with the tree: an entry that is the same is kept,
\* the user is asked about a newer one, others go to the scrap archive
PrevEntry(s, i) ==
    LET o == s.op[i]
        entry == Previous[o.index + 1]
        t == [s EXCEPT !.op[i].info = entry.file]
    IN CASE o.index = Len(Previous) -> Success(s, i)
         [] o.index < Len(Previous) /\ entry.age = "same" ->
              Ret([t EXCEPT !.op[i].response = "skip"], None)
         [] o.index < Len(Previous) /\ entry.age = "newer" /\ ~o.quiet ->
              Ret(Status(t, i, "wait_newer"), None)
         [] OTHER -> Ret([t EXCEPT !.op[i].response = "copy"], None)

PrevProcess(s, i, e) ==
    LET o == s.op[i]
        quiet == [s EXCEPT !.op[i].quiet = @ \/ o.response = "quiet"]
        next == [quiet EXCEPT !.op[i].response = "continue"]
    IN CASE e # None -> Ret(s, e)
         [] e = None /\ o.response \in {"quiet", "copy"} ->
              IF Scrap THEN PrevCopy(next, i, "scrap")
              ELSE Local(next, i, Ret([next EXCEPT !.op[i].index = @ + 1], None))
         [] e = None /\ o.response = "skip" ->
              PrevCopy([next EXCEPT !.tree = @ \ {o.info}], i, "dest")
         [] OTHER -> Local(s, i, PrevEntry(s, i))

CopyInit(s, i) ==
    Local(s, i, Ret(Hold(Hold(s, i, "tree"), i, "tars"), None))

\* The file that was read goes from the temporary file to the archive
CopyAdd(s, i) ==
    LET t == Todo([s EXCEPT !.tree = @ \ {s.op[i].info}],
                  Call("abort", s.op[i].child, None))
    IN Local(t, i, Delegate(t, i, "tar_complete",
                            [NoArgs EXCEPT !.file = s.op[i].info, !.to = "dest"]))

\* The next file of the tree
CopyNext(s, i) ==
    IF s.tree = {} THEN Success(s, i)
    ELSE LET f == CHOOSE f \in s.tree : TRUE
         IN Delegate([s EXCEPT !.op[i].info = f, !.op[i].response = "copy"], i,
                     "read", [NoArgs EXCEPT !.file = f])

CopyProcess(s, i, e) ==
    LET o == s.op[i]
        next == [s EXCEPT !.op[i].response = "continue"]
        readFailed == o.child # NoOp /\ s.op[o.child].kind = "read"
    IN CASE e # None -> IF readFailed
                        THEN Ret(Status(s, i, "wait_read"), None) ELSE Ret(s, e)
         [] e = None /\ o.response = "skip" ->
              Ret([next EXCEPT !.tree = @ \ {o.info},
                               !.skipped = @ \cup {o.info}], None)
         [] e = None /\ o.response = "retry" ->
              Delegate([s EXCEPT !.op[i].response = "copy"], i, "read",
                       s.op[o.child].args)
         [] e = None /\ o.response = "copy" -> CopyAdd(next, i)
         [] OTHER -> CopyNext(s, i)

TarInit(s, i) == Local(s, i, Ret(Hold(s, i, "tars"), None))

\* tar_continue does a part of the work; a timer spreads the parts
TarProcess(s, i, e) ==
    LET o == s.op[i] IN
    CASE e # None -> Ret(s, e)
      [] e = None /\ o.index < Chunks ->
           Local(s, i, Back([s EXCEPT !.op[i].index = @ + 1], i, "timer"))
      [] OTHER ->
           Local(s, i, Success([s EXCEPT !.dest = IF o.args.to = "dest"
                                                  THEN @ \cup {o.args.file}
                                                  ELSE @], i))

-----------------------------------------------------------------------------
(* The stages of an operation *)

Initialise(s, i) ==
    LET kind == s.op[i].kind IN
    CASE kind = "shutdown" -> ShutdownInit(s, i)
      [] kind = "restart" -> RestartInit(s, i)
      [] kind = "read" -> ReadInit(s, i)
      [] kind = "write" -> WriteInit(s, i)
      [] kind = "backup" -> BackupInit(s, i)
      [] kind = "write_start" -> WriteStartInit(s, i)
      [] kind = "install" -> InstallInit(s, i)
      [] kind = "backup_list" -> ListInit(s, i)
      [] kind = "backup_prev" -> PrevInit(s, i)
      [] kind = "backup_copy" -> CopyInit(s, i)
      [] kind = "tar_complete" -> TarInit(s, i)
      [] kind = "find" -> FindInit(s, i)

Progress(s, i, e) ==
    LET kind == s.op[i].kind IN
    CASE kind = "shutdown" -> ShutdownProcess(s, i, e)
      [] kind = "restart" -> RestartProcess(s, i, e)
      [] kind = "read" -> ReadProcess(s, i, e)
      [] kind = "write" -> WriteProcess(s, i, e)
      [] kind = "backup" -> BackupProcess(s, i, e)
      [] kind = "write_start" -> WriteStartProcess(s, i, e)
      [] kind = "install" -> InstallProcess(s, i, e)
      [] kind = "backup_list" -> ListProcess(s, i, e)
      [] kind = "backup_prev" -> PrevProcess(s, i, e)
      [] kind = "backup_copy" -> CopyProcess(s, i, e)
      [] kind = "tar_complete" -> TarProcess(s, i, e)
      [] kind = "find" -> FindProcess(s, i, e)

AbortStage(s, i, e) ==
    IF s.op[i].kind \in {"read", "write"} THEN AbortTransfer(s, i, e)
    ELSE IF e = None THEN Ret(Status(s, i, "aborted"), None) ELSE Ret(s, e)

\* Files and archives are closed and the children ended, except by
\* backup_prev, which wipes the new archive instead unless it succeeded; a
\* read also sets the catalogue information of the local file
PreFinalise(s, i, e) ==
    LET o == s.op[i]
        ends == o.child # NoOp /\ o.kind # "backup_prev"
        t == IF ends THEN Todo(s, Call("abort", o.child, None)) ELSE s
        wipes == o.kind = "backup_prev" /\ "tars" \in o.held /\ o.status # "success"
        u == [t EXCEPT !.op[i].held = {}, !.dest = IF wipes THEN {} ELSE @]
    IN IF o.kind = "read" /\ e = None /\ ~o.abort THEN Local(u, i, Ret(u, None))
       ELSE Ret(u, e)

Stage(s, i, e, stage) ==
    CASE stage = "initialise" -> Initialise(s, i)
      [] stage = "process" -> Progress(s, i, e)
      [] stage = "abort" -> AbortStage(s, i, e)
      [] stage = "pre_finalise" -> PreFinalise(s, i, e)
      [] stage = "post_finalise" -> Ret(s, e)

-----------------------------------------------------------------------------
(* The calls of an event *)

\* Make the calls cs, then whatever the caller still has to do
Push(s, cs) == [s EXCEPT !.stack = cs \o @]

\* async_process_op: the handler gets the error of the operation; the calls
\* that it makes come before the rest of the function
ProcessOp(s, i, stage) ==
    LET o == s.op[i]
        r == Stage([s EXCEPT !.op[i].err = None], i, o.err, stage)
    IN IF o.pause THEN Suspend(Status(s, i, "paused"), i)
       ELSE Push([r.s EXCEPT !.todo = <<>>],
                 Append(r.s.todo, Call("processed", i, r.err)))

\* The rest of it: an error ends the operation
Processed(s, i, e) ==
    LET err == IF s.returned = None THEN e ELSE s.returned
        t == [s EXCEPT !.returned = None]
    IN Suspend(IF err = None THEN t
               ELSE [t EXCEPT !.op[i].status = "error", !.op[i].err = err], i)

\* async_process; within it the operation is threaded, so that a call that
\* comes back to it only changes its status
Process(s, i) ==
    IF s.op[i].threaded THEN s
    ELSE Push([s EXCEPT !.op[i].threaded = TRUE],
              << Call("loop", i, None), Call("finish", i, None),
                 Call("delete", i, None) >>)

\* Its loop: stages are processed as long as the operation is idle
Loop(s, i) ==
    LET o == s.op[i]
        again == Push(s, << Call("loop", i, None) >>)
    IN CASE o.status # "busy" -> s
         [] o.status = "busy" /\ ~o.initialised ->
              ProcessOp([again EXCEPT !.op[i].initialised = TRUE, !.idle = @ + 1],
                        i, "initialise")
         [] OTHER -> ProcessOp(again, i, IF o.abort THEN "abort" ELSE "process")

\* The operation has just finished: tidy up, then tell the parent
Finish(s, i) ==
    IF Done(s.op[i]) /\ ~s.op[i].finalised
    THEN ProcessOp([Push(s, << Call("notify", i, None) >>) EXCEPT
                        !.op[i].finalised = TRUE, !.idle = @ - 1], i, "pre_finalise")
    ELSE s

Notify(s, i) ==
    LET o == s.op[i] IN
    IF o.parent = NoOp THEN s ELSE Push(s, << Call("callback", o.parent, o.err) >>)

DeleteFinished(s, i) ==  \* mutant
    IF Done(s.op[i])
    THEN ProcessOp(Push(s, << Call("free", i, None) >>), i, "post_finalise")
    ELSE [s EXCEPT !.op[i].threaded = FALSE]

\* An aborted operation is deleted at its end
Delete(s, i) ==
    IF s.op[i].abort /\ Done(s.op[i])
    THEN ProcessOp(Push(s, << Call("free", i, None) >>), i, "post_finalise")
    ELSE [s EXCEPT !.op[i].threaded = FALSE]

CallbackUnlessPausing(s, i, e) ==  \* mutant
    LET o == s.op[i] IN
    IF Done(o) \/ o.status = "busy" \/ o.pause THEN s
    ELSE Process([s EXCEPT !.op[i].status = "busy",
                           !.op[i].err = IF @ = None THEN e ELSE @,
                           !.op[i].failed = @ \/ e # None], i)

\* async_callback: ignored unless the operation waits; the first error counts
Callback(s, i, e) ==
    LET o == s.op[i] IN
    IF Done(o) \/ o.status = "busy" THEN s
    ELSE Process([s EXCEPT !.op[i].status = "busy",
                           !.op[i].err = IF @ = None THEN e ELSE @,
                           !.op[i].failed = @ \/ e # None], i)

\* The layer below has carried out a request and calls async_callback
Answered(s, i, answer) ==
    LET cmd == s.op[i].cmd IN
    Callback([s EXCEPT !.open = CASE cmd = "open" /\ answer.err = None -> @ \cup {i}
                                  [] cmd = "close" -> @ \ {i}
                                  [] OTHER -> @,
                       !.op[i].reply = answer.reply], i, answer.err)

\* async_new: any other child of the parent is aborted first
New(s, p, arg) ==
    IF p # NoOp /\ s.op[p].child # NoOp
    THEN Push(s, << Call("abort", s.op[p].child, None), Call("create", p, arg) >>)
    ELSE Push(s, << Call("create", p, arg) >>)

\* The rest of it, unless there is no memory
Create(s, p, arg) ==
    LET free == DOMAIN s.op \ Live(s)
        i == CHOOSE i \in free : \A j \in free : i <= j
        fresh == Fresh(arg.kind, p, arg.args, p # NoOp /\ s.op[p].quiet)
        allocated == [s EXCEPT !.op[i] = fresh]
        linked == IF p = NoOp THEN [allocated EXCEPT !.new = i]
                  ELSE [allocated EXCEPT !.op[p].child = i]
    IN IF free = {} THEN [s EXCEPT !.returned = "fail"] ELSE Process(linked, i)

AbortKeepsLink(s, i) ==  \* mutant
    LET o == s.op[i]
        asked == Waiting(o)
        t == [s EXCEPT
            !.op[i].abort = TRUE, !.op[i].pause = FALSE, !.op[i].parent = NoOp,
            !.op[i].status = IF o.status = "paused" \/ asked THEN "busy" ELSE @,
            !.op[i].response = IF asked THEN "continue" ELSE @]
        interrupted == [t EXCEPT !.op[i].status = IF Done(o) THEN @ ELSE "busy"]
    IN IF o.child = NoOp THEN Process(t, i)
       ELSE Push(interrupted, << Call("abort", o.child, None), Call("process", i, None) >>)

AbortNow(s, i) ==  \* mutant
    LET o == s.op[i]
        cancelled == [s EXCEPT
            !.op[i].abort = TRUE, !.op[i].pause = FALSE, !.op[i].parent = NoOp,
            !.op[i].status = IF Done(o) THEN @ ELSE "busy"]
        t == IF o.parent = NoOp THEN cancelled
             ELSE [cancelled EXCEPT !.op[o.parent].child = NoOp]
    IN IF o.child = NoOp THEN Process(t, i)
       ELSE Push(t, << Call("abort", o.child, None), Call("process", i, None) >>)

AbortLeavesFinished(s, i) ==  \* mutant
    LET o == s.op[i]
        cancelled == [s EXCEPT
            !.op[i].abort = TRUE, !.op[i].pause = FALSE, !.op[i].parent = NoOp,
            !.op[i].status = IF o.status = "paused" \/ Waiting(o) THEN "busy" ELSE @]
        t == IF o.parent = NoOp THEN cancelled
             ELSE [cancelled EXCEPT !.op[o.parent].child = NoOp]
        interrupted == [t EXCEPT !.op[i].status = IF Done(o) THEN @ ELSE "busy"]
    IN IF Done(o) /\ o.parent # NoOp THEN t
       ELSE IF o.child = NoOp THEN Process(t, i)
       ELSE Push(interrupted, << Call("abort", o.child, None), Call("process", i, None) >>)

\* async_abort: the operation and its children end as soon as they can
Abort(s, i) ==
    LET o == s.op[i]
        asked == Waiting(o)
        cancelled == [s EXCEPT
            !.op[i].abort = TRUE, !.op[i].pause = FALSE, !.op[i].parent = NoOp,
            !.op[i].status = IF o.status = "paused" \/ asked THEN "busy" ELSE @,
            !.op[i].response = IF asked THEN "continue" ELSE @]
        t == IF o.parent = NoOp THEN cancelled
             ELSE [cancelled EXCEPT !.op[o.parent].child = NoOp]
        interrupted == [t EXCEPT !.op[i].status = IF Done(o) THEN @ ELSE "busy"]
    IN IF o.child = NoOp THEN Process(t, i)
       ELSE Push(interrupted, << Call("abort", o.child, None), Call("process", i, None) >>)

\* Carry on with the innermost call
Step(s) ==
    LET c == Head(s.stack)
        t == [s EXCEPT !.stack = Tail(@)]
    IN CASE c.fn = "process" -> Process(t, c.op)
         [] c.fn = "loop" -> Loop(t, c.op)
         [] c.fn = "processed" -> Processed(t, c.op, c.arg)
         [] c.fn = "finish" -> Finish(t, c.op)
         [] c.fn = "notify" -> Notify(t, c.op)
         [] c.fn = "delete" -> Delete(t, c.op)
         [] c.fn = "free" -> Free(t, c.op)
         [] c.fn = "callback" -> Callback(t, c.op, c.arg)
         [] c.fn = "answered" -> Answered(t, c.op, c.arg)
         [] c.fn = "new" -> New(t, c.op, c.arg)
         [] c.fn = "create" -> Create(t, c.op, c.arg)
         [] c.fn = "abort" -> Abort(t, c.op)

\* The whole event
RECURSIVE Run(_)
Run(s) == IF s.stack = <<>> THEN s ELSE Run(Step(s))

-----------------------------------------------------------------------------
(* Events *)

\* What the layers below do during an event: local files and memory may fail,
\* a request may be refused, wait, or be answered at once
Env == [local : {TRUE}, back : {"refuse", "later"}, answer : {None}]
       \cup [local : {FALSE}, back : {"later"}, answer : {None}]
       \cup [local : {TRUE}, back : {"now"}, answer : Answers("info")]

State(env) ==
    [op |-> op, call |-> call, open |-> open, disable |-> disable,
     idle |-> idle, tree |-> tree, dest |-> dest, skipped |-> skipped,
     env |-> env, stack |-> <<>>, todo |-> <<>>, returned |-> None, new |-> NoOp]

\* The state after an event that begins with a call
After(s, c) == Run([s EXCEPT !.stack = <<c>>])

Become(s) ==
    /\ op' = s.op /\ call' = s.call /\ open' = s.open
    /\ disable' = s.disable /\ idle' = s.idle
    /\ tree' = s.tree /\ dest' = s.dest /\ skipped' = s.skipped

Init ==
    /\ op = [i \in Ids |-> Unused] /\ call = {} /\ open = {}
    /\ disable = 0 /\ idle = 0
    /\ tree = {} /\ dest = {} /\ skipped = {}
    /\ client = {}

\* async_start.  One backup at a time: tree, dest and skipped are its own.
Start(kind) ==
    /\ Cardinality({i \in Ids : op[i].kind # "unused" /\ op[i].parent = NoOp})
         + Cardinality({c \in call : c.op = NoOp}) < MaxRoots
    /\ kind = "backup" => \A i \in Ids : op[i].kind # "backup"
    /\ \E env \in Env, src \in {"file", "dir"} :
         LET args == [NoArgs EXCEPT !.src = src]
             s == After(State(env), Call("new", NoOp, [kind |-> kind, args |-> args]))
         IN /\ Become(s)
            /\ client' = client \cup ({s.new} \ {NoOp})

\* async_end; the client forgets the handle
End(i) ==
    /\ i \in client
    /\ \E env \in Env : Become(After(State(env), Call("abort", i, None)))
    /\ client' = client \ {i}

\* The operations from i down to the last child
Chain(i) ==
    LET chain[n \in 1 .. Cardinality(Ids)] ==
            IF n = 1 THEN <<i>>
            ELSE LET up == chain[n - 1]
                     child == op[up[Len(up)]].child
                 IN IF child = NoOp THEN up ELSE Append(up, child)
    IN chain[Cardinality(Ids)]

\* async_pause: it takes effect when an operation is next processed
Pause(i) ==
    /\ i \in client
    /\ LET all == {Chain(i)[n] : n \in 1 .. Len(Chain(i))}
       IN op' = [j \in Ids |-> IF j \in all THEN [op[j] EXCEPT !.pause = TRUE] ELSE op[j]]
    /\ UNCHANGED <<call, open, disable, idle, tree, dest, skipped, client>>

\* async_resume: down to the first operation that is paused
Resume(i) ==
    /\ i \in client
    /\ \E env \in Env :
         LET chain == Chain(i)
             before(n) == \A m \in 1 .. n - 1 : op[chain[m]].status # "paused"
             passed == {chain[n] : n \in {m \in 1 .. Len(chain) : before(m)}}
             paused == {j \in passed : op[j].status = "paused"}
             s == [State(env) EXCEPT !.op =
                     [j \in Ids |-> IF j \notin passed THEN @[j]
                                    ELSE [@[j] EXCEPT !.pause = FALSE,
                                            !.status = IF @ = "paused" THEN "busy" ELSE @]]]
         IN Become(IF paused = {} THEN s
                   ELSE After(s, Call("process", CHOOSE j \in paused : TRUE, None)))
    /\ UNCHANGED client

Buttons == [wait_restart |-> {"skip", "retry"},
            wait_newer |-> {"skip", "copy", "quiet"},
            wait_read |-> {"skip", "retry"}]

\* async_response: the first operation of the chain that asks gets the answer
Respond(i) ==
    /\ i \in client
    /\ LET chain == Chain(i)
           asks == {n \in 1 .. Len(chain) : Waiting(op[chain[n]])}
           j == chain[CHOOSE n \in asks : \A m \in asks : n <= m]
       IN /\ asks # {}
          /\ \E env \in Env, response \in Buttons[op[j].status] :
               Become(After([State(env) EXCEPT !.op[j].response = response,
                                               !.op[j].status = "busy"],
                            Call("process", j, None)))
    /\ UNCHANGED client

\* A layer below calls async_callback.  When the operation is gone the code
\* reads freed memory; of what may follow, that nothing happens.
Answer(c) ==
    /\ \E env \in Env, answer \in Answers(c.cmd) :
         LET s == [State(env) EXCEPT !.call = @ \ {c}] IN
         Become(IF c.op = NoOp THEN s ELSE After(s, Call("answered", c.op, answer)))
    /\ UNCHANGED client

Next ==
    \/ \E kind \in Kinds : Start(kind)
    \/ \E i \in Ids : End(i) \/ Pause(i) \/ Resume(i) \/ Respond(i)
    \/ \E c \in call : Answer(c)

Spec == Init /\ [][Next]_vars

\* Every request is answered in the end: WF_vars(Answering(i)) for each i, with
\* what enables the action written out.
Answering(i) == \E c \in call : c.op = i /\ Answer(c)
Waits(i) == \E c \in call : c.op = i
Fairness == \A i \in Ids : []<>(~Waits(i)) \/ []<><<Answering(i)>>_vars
FairSpec == Spec /\ Fairness

-----------------------------------------------------------------------------
(* Properties *)

Alive == {i \in Ids : op[i].kind # "unused"}

\* The variables have their types.
TypeOK ==
    /\ \A i \in Alive : /\ op[i].parent \in Ids \cup {NoOp}
                        /\ op[i].child \in Ids \cup {NoOp}
                        /\ op[i].err \in {None} \cup Errors
                        /\ op[i].stored \in {None} \cup Errors
    /\ open \subseteq Ids \cup {NoOp}
    /\ disable \in Int /\ idle \in Int
    /\ tree \subseteq File /\ dest \subseteq File /\ skipped \subseteq File
    /\ client \subseteq Alive

\* No operation is stuck (async_process, async_callback): between events each
\* one has finished, is paused or asks the user, or has exactly one event to
\* come, a request below or a child that has not finished; none is threaded
\* or idle.
Progressing ==
    \A i \in Alive :
        LET o == op[i]
            calls == {c \in call : c.op = i}
        IN /\ ~o.threaded /\ o.status # "busy"
           /\ o.status = "below" => Cardinality(calls) = 1
           /\ o.status # "below" => calls = {}
           /\ o.status = "child" => o.child # NoOp /\ ~Done(op[o.child])

\* Every operation can be reached by whoever must end it (async_new,
\* async_abort): parent and child point at each other, and an operation
\* without a parent is in the hands of a client or is being aborted.
Reachable ==
    \A i \in Alive :
        LET o == op[i] IN
        /\ o.parent # NoOp => o.parent \in Alive /\ op[o.parent].child = i
        /\ o.child # NoOp => o.child \in Alive /\ op[o.child].parent = i
        /\ o.parent = NoOp => i \in client \/ (o.abort /\ o.status = "below")

\* The cache is suspended, and the machine kept busy, exactly for the
\* operations that are at work (async_suspend, idle_start, idle_end): the
\* counters come back to zero whatever order operations end in.
CountersOK ==
    /\ disable = Cardinality({i \in Alive : /\ op[i].suspend /\ op[i].status = "below"
                                            /\ op[i].child = NoOp})
    /\ idle = Cardinality({i \in Alive : ~Done(op[i])})

\* An operation that finished holds nothing (ASYNC_PRE_FINALISE and the close
\* of the remote file after an error): no local file, archive or tree, and no
\* remote file unless there was no memory for the request to close it.
FinishedClean ==
    \A i \in Alive : Done(op[i]) => /\ op[i].held = {}
                                  /\ (i \in open => op[i].cmd = "close")

\* An error is never lost (async_store_error, async_restore_error): a read,
\* a write or an operation made of them that had a request fail does not
\* succeed, although the close that follows the error does.
ErrorKept ==
    \A i \in Alive :
        /\ op[i].failed
        /\ op[i].kind \in {"read", "write", "write_start", "install", "backup",
                           "backup_list", "backup_prev", "tar_complete"}
        => op[i].status # "success"

\* A backup that succeeded holds every file of the tree, kept from the
\* previous backup or copied, except those the user chose to leave out.
BackupComplete ==
    \A i \in Alive : op[i].kind = "backup" /\ op[i].status = "success"
                     => tree = {} /\ dest \cup skipped = File

\* A request calls back an operation that still exists (async_abort), except
\* one of a write and start operation, see EndedCalls.
LiveCallbacks == \A c \in call : c.op = NoOp => c.cmd \in {"timer", "start"}

\* The comment in async_callback says that a result that is not expected is
\* ignored: the operation that asked for it exists when the result comes.
EndedCalls == \A c \in call : c.op # NoOp

\* An operation that is ended is freed, once the request below that it waits
\* for is answered (async_end, ASYNC_ABORT).
EndedIsFreed ==
    \A i \in Ids : (op[i].kind # "unused" /\ op[i].abort) ~> (op[i].kind = "unused")

\* What is so of every operation between two events: it is not stuck, whoever
\* must end it can, and the counters of the layers below count it.
AsyncOK == TypeOK /\ Progressing /\ Reachable /\ CountersOK

\* What is so of every operation that has finished: it holds nothing, and it
\* told of the error that it met.
OutcomesOK == FinishedClean /\ ErrorKept
=============================================================================
