------------------------------ MODULE Unified ------------------------------
(***************************************************************************)
(* Unified remote access (src/unified.c): operations on the remote machine *)
(* that take one or more requests to the file server (RFSV32 or RFSV16) or *)
(* to the command server (NCP), and the timers (src/timer.c) that STOP and *)
(* START wait for.                                                         *)
(*                                                                         *)
(* unified_begin sends the first request of an operation and               *)
(* unified_callback is told of each reply, error or timer.  Transfers of   *)
(* data, which loop over pieces of the buffer, are in CacheFile; how a     *)
(* request reaches a server is in Share, and how the servers come and go   *)
(* in Channels.  A request that fails at once is one that is answered with *)
(* the error.                                                              *)
(***************************************************************************)
EXTENDS Integers, Sequences, FiniteSets, TLC

CONSTANTS
    Ids,        \* unified_private structures
    Era,        \* unified_era: EPOC32 rather than SIBO
    Entries,    \* the remote directory, in the order the server lists it
    BadNames,   \* entries whose names have no translation
    Block,      \* entries that fit in one reply of the file server
    Sizes,      \* sizes of the buffers for listings
    Drives,     \* drive letters, 'A' ... 'Z'
    StopTime,   \* UNIFIED_STOP_TIMEOUT
    StopDelay,  \* UNIFIED_STOP_DELAY
    StartDelay, \* UNIFIED_START_DELAY
    FaultMax    \* requests that fail, and losses of the connection

\* What the constants may be
UnifiedParameters ==
    /\ {Block, Drives, StopDelay, StartDelay} \subseteq Nat \ {0} /\ Sizes \subseteq Nat
    /\ {StopTime, FaultMax} \subseteq Nat
    /\ Entries \in Seq(Nat) /\ Era \in BOOLEAN

VARIABLES
    ops,    \* the operations, and what becomes of each
    requests,  \* requests that the servers have not answered
    timers, \* timer_active_list, with the time that is left of each
    server  \* what the remote machine knows, and whether it can be reached

uvars == <<ops, requests, timers, server>>

Nothing == "none"
\* "single" stands for every operation that takes one request
EraOnly == {"power", "rtime", "wtime"}
Commands == {"single", "drive", "list", "machine", "tasks", "stop", "start"} \cup EraOnly

\* index, delay, timeout and handle are those of unified_private; asked is the
\* last request, list the entries of a listing, err an error put by.
Unused == [cmd |-> Nothing, size |-> 0, asked |-> Nothing, index |-> 0, delay |-> FALSE,
           timeout |-> 0, list |-> <<>>, err |-> Nothing, called |-> 0, result |-> Nothing]
Running(id) == ops[id].cmd # Nothing /\ ops[id].called = 0

\* drives is how far NCP_QUERY_DRIVE has come, at how far a listing has.
UnifiedInit ==
    /\ ops = [id \in Ids |-> Unused]
    /\ requests = {} /\ timers = <<>>
    /\ server = [up |-> TRUE, dirs |-> {}, at |-> [id \in Ids |-> 0],
                 asked |-> [id \in Ids |-> {}], running |-> Ids, faults |-> 0]

-----------------------------------------------------------------------------
(* What the handler does: ask a server, set a timer or call back *)

Step(op, ask, timer) == [op |-> op, ask |-> ask, timer |-> timer]
Ask(op, request) == Step([op EXCEPT !.asked = request], TRUE, 0)
Delay(op, time) == Step([op EXCEPT !.delay = TRUE], FALSE, time)

\* unified_done
Done(op, err) == Step([op EXCEPT !.called = @ + 1, !.result = err], FALSE, 0)

\* unified_begin
FirstRequest(op) ==
    CASE op.cmd = "drive"   -> Ask(op, "volume")
      [] op.cmd = "list"    -> Ask(op, "open dir")
      [] op.cmd = "machine" -> Ask(op, "machine type")
      [] op.cmd = "tasks"   -> Ask([op EXCEPT !.index = 1], "query drive")
      [] op.cmd = "stop"    -> Ask([op EXCEPT !.delay = TRUE, !.timeout = StopTime], "stop")
      [] op.cmd = "start"   -> Ask(op, "exec")
      [] op.cmd \in EraOnly -> IF Era THEN Ask(op, "machine info") ELSE Done(op, "bad op")
      [] OTHER              -> Ask(op, op.cmd)

-----------------------------------------------------------------------------
(* unified_callback, for each operation *)

DriveReply(op, err) ==
    CASE err = Nothing /\ op.index = 0 -> Ask([op EXCEPT !.index = 1], "unique id")
      [] err \in {"empty", "not ready", "not supported"} -> Done(op, Nothing)
      [] OTHER -> Done(op, err)

CloseDirAtEnd(op, err) == \* mutant: an error leaves the directory open
    IF err = "eof" THEN Ask([op EXCEPT !.err = Nothing], "close") ELSE Done(op, err)

\* The end of a listing: the directory is closed, and an error kept for later.
CloseDir(op, err) == Ask([op EXCEPT !.err = IF err = "eof" THEN Nothing ELSE err], "close")

\* qsort, when a listing is complete
Sorted(list) == SortSeq(list, <)

\* Entries are translated up to the first that has no translation.
Translated(entries) ==
    LET bad == {n \in 1 .. Len(entries) : entries[n] \in BadNames}
    IN IF bad = {} THEN entries
       ELSE SubSeq(entries, 1, (CHOOSE n \in bad : \A m \in bad : n <= m) - 1)

ReadDirReply(op, err, entries) ==
    LET got == [op EXCEPT !.list = @ \o Translated(entries)]
    IN CASE err # Nothing -> CloseDir(op, err)
         [] err = Nothing /\ Translated(entries) # entries -> CloseDir(got, "bad name")
         [] OTHER -> Ask(got, "read dir")

ListReply(op, err, entries) ==
    CASE op.asked = "open dir" /\ err = Nothing -> Ask(op, "read dir")
      [] op.asked = "read dir" -> ReadDirReply(op, err, entries)
      [] op.asked = "close" /\ err = Nothing ->
           Done(IF op.err = Nothing THEN [op EXCEPT !.list = Sorted(@)] ELSE op, op.err)
      [] OTHER -> Done(op, err)

MachineReply(op, err) ==
    IF err = Nothing /\ Era /\ op.asked = "machine type" THEN Ask(op, "machine info")
    ELSE Done(op, err)

TasksReply(op, err) ==
    IF err = Nothing /\ ~Era /\ op.index < Drives
    THEN Ask([op EXCEPT !.index = @ + 1], "query drive") ELSE Done(op, err)

StopReplyImpatient(op, err, running) == \* mutant: the state of the task is not asked for
    Done(op, err)

StopReply(op, err, running) ==
    CASE err = Nothing /\ op.timeout > 0 /\ op.delay -> Ask([op EXCEPT !.delay = FALSE], "running")
      [] err = Nothing /\ op.timeout > 0 /\ ~op.delay /\ running -> Delay(op, StopDelay)
      [] OTHER -> Done(op, err)

StartReply(op, err) ==
    IF err = Nothing /\ ~op.delay THEN Delay(op, StartDelay) ELSE Done(op, err)

WTimeReply(op, err) ==
    IF err = Nothing /\ op.asked = "machine info" THEN Ask(op, "set time") ELSE Done(op, err)

Callback(op, reply) ==
    CASE op.cmd = "drive"   -> DriveReply(op, reply.err)
      [] op.cmd = "list"    -> ListReply(op, reply.err, reply.entries)
      [] op.cmd = "machine" -> MachineReply(op, reply.err)
      [] op.cmd = "tasks"   -> TasksReply(op, reply.err)
      [] op.cmd = "stop"    -> StopReply(op, reply.err, reply.running)
      [] op.cmd = "start"   -> StartReply(op, reply.err)
      [] op.cmd = "wtime"   -> WTimeReply(op, reply.err)
      [] OTHER              -> Done(op, reply.err)

-----------------------------------------------------------------------------
(* The servers (external) *)

Reply(id, err, entries) ==
    [err |-> err, entries |-> entries, running |-> id \in server.running]

\* The next entries of a directory, for a buffer with room for size of them
Listed(id) ==
    LET at == server.at[id]
        last == IF at + Block < Len(Entries) THEN at + Block ELSE Len(Entries)
        next == SubSeq(Entries, at + 1, last)
        room == ops[id].size - Len(ops[id].list)
    IN CASE next = <<>> -> Reply(id, "eof", <<>>)
         [] next # <<>> /\ Len(next) > room -> Reply(id, "many", <<>>)
         [] OTHER -> Reply(id, Nothing, next)

Replies(id) ==
    LET asked == ops[id].asked IN
    IF ~server.up THEN {Reply(id, "lost", <<>>)}
    ELSE {IF asked = "read dir" THEN Listed(id) ELSE Reply(id, Nothing, <<>>)}
         \cup (IF server.faults < FaultMax /\ asked # "close" THEN {Reply(id, "failed", <<>>)} ELSE {})
         \cup (IF asked \in {"volume", "unique id"}
               THEN {Reply(id, "empty", <<>>), Reply(id, "not supported", <<>>)} ELSE {})

Fault(yes, s) == [s EXCEPT !.faults = IF yes THEN @ + 1 ELSE @]

\* What a request does at the remote machine
Served(id, reply) ==
    LET asked == ops[id].asked
        s == Fault(reply.err = "failed", server)
    IN CASE asked = "open dir" /\ reply.err = Nothing ->
              [s EXCEPT !.dirs = @ \cup {id}, !.at[id] = 0]
         [] asked = "read dir" -> [s EXCEPT !.at[id] = @ + Len(reply.entries)]
         [] asked = "close" -> [s EXCEPT !.dirs = @ \ {id}]
         [] asked = "query drive" /\ reply.err = Nothing ->
              [s EXCEPT !.asked[id] = @ \cup {ops[id].index}]
         [] OTHER -> s

-----------------------------------------------------------------------------
(* Timers *)

\* timer_back puts the new timer at the head of the list.
Set(list, id, time) == <<[id |-> id, left |-> time]>> \o list

Become(id, step) ==
    /\ ops' = [ops EXCEPT ![id] = step.op]
    /\ requests' = IF step.ask THEN requests \cup {id} ELSE requests \ {id}

ExpiredNever(list) == \* mutant: a timer that is due is left
    Cardinality({n \in 1 .. Len(list) : \A m \in 1 .. n : list[m].left < 0})

\* timer_poll expires timers from the head of the list, and only from there.
Expired(list) ==
    Cardinality({n \in 1 .. Len(list) : \A m \in 1 .. n : list[m].left = 0})

-----------------------------------------------------------------------------
(* Events *)

\* unified_back
UnifiedBack(id) ==
    /\ ~Running(id)
    /\ \E cmd \in Commands : \E size \in IF cmd = "list" THEN Sizes ELSE {0} :
         LET op == [Unused EXCEPT !.cmd = cmd, !.size = size]
         IN /\ Become(id, IF server.up THEN FirstRequest(op) ELSE Done(op, "no server"))
            /\ server' = [server EXCEPT !.asked[id] = {}, !.running = @ \cup {id}, !.at[id] = 0]
    /\ UNCHANGED timers

\* The reply to a request
Answer(id) ==
    /\ id \in requests
    /\ \E reply \in Replies(id) :
         LET step == Callback(ops[id], reply) IN
         /\ Become(id, step)
         /\ timers' = IF step.timer > 0 THEN Set(timers, id, step.timer) ELSE timers
         /\ server' = Served(id, reply)

\* unified_poll: the timers at the head of the list that are due, or all of
\* them because the layer ends.
Expire ==
    LET last == IF server.up THEN Expired(timers) ELSE Len(timers)
        due == {timers[n].id : n \in 1 .. last}
        next == [id \in due |-> Callback(ops[id], Reply(id, Nothing, <<>>))]
    IN /\ last > 0
       /\ ops' = [id \in Ids |-> IF id \in due THEN next[id].op ELSE ops[id]]
       /\ requests' = requests \cup {id \in due : next[id].ask}
       /\ timers' = SubSeq(timers, last + 1, Len(timers))
       /\ UNCHANGED server

\* Time passes.
TimePasses ==
    /\ \E id \in Ids : Running(id)
    /\ ops' = [id \in Ids |-> IF Running(id) /\ ops[id].timeout > 0
                              THEN [ops[id] EXCEPT !.timeout = @ - 1] ELSE ops[id]]
    /\ timers' = [n \in 1 .. Len(timers) |->
                     IF timers[n].left > 0 THEN [timers[n] EXCEPT !.left = @ - 1] ELSE timers[n]]
    /\ <<ops, timers>>' # <<ops, timers>>
    /\ UNCHANGED <<requests, server>>

\* A task that was told to stop does so when it likes.
TaskStops(id) ==
    /\ id \in server.running /\ Running(id) /\ ops[id].cmd = "stop"
    /\ server' = [server EXCEPT !.running = @ \ {id}]
    /\ UNCHANGED <<ops, requests, timers>>

\* The connection is lost, and with it what the server had open, or is made.
Lose ==
    /\ server.up /\ server.faults < FaultMax
    /\ server' = Fault(TRUE, [server EXCEPT !.up = FALSE, !.dirs = {}])
    /\ UNCHANGED <<ops, requests, timers>>
Connect ==
    /\ ~server.up /\ requests = {} /\ timers = <<>>
    /\ server' = [server EXCEPT !.up = TRUE]
    /\ UNCHANGED <<ops, requests, timers>>

UnifiedNext ==
    \/ \E id \in Ids : UnifiedBack(id) \/ Answer(id) \/ TaskStops(id)
    \/ Expire \/ TimePasses \/ Lose \/ Connect
UnifiedSpec == UnifiedInit /\ [][UnifiedNext]_uvars

\* The layers below answer every request, time passes and timers are polled.
UnifiedFairness ==
    /\ \A id \in Ids : WF_uvars(Answer(id))
    /\ WF_uvars(Expire) /\ WF_uvars(TimePasses)

-----------------------------------------------------------------------------
(* Properties *)

\* An operation that runs waits for one reply or for one timer, one that has
\* ended for nothing, and it was called back once (unified_done); a directory
\* that was opened to be listed is closed however the listing ended.
OnceAndClean ==
    \A id \in Ids :
        LET waiting == {n \in 1 .. Len(timers) : timers[n].id = id} IN
        /\ ops[id].called <= 1
        /\ Running(id) => (id \in requests <=> waiting = {}) /\ \A m, n \in waiting : m = n
        /\ ~Running(id) => id \notin requests \cup server.dirs /\ waiting = {}

\* What an operation reports is so: a listing is complete and sorted or there
\* was no room for it, all drives were asked for tasks, and a task that was
\* stopped has stopped or was given all the time it may take.
Reports ==
    \A id \in Ids :
        LET op == ops[id] IN
        /\ op.cmd = "list" /\ op.result = Nothing /\ op.called = 1 =>
             op.list = Sorted(Entries)
        /\ op.cmd = "list" /\ op.result = "many" => Len(Entries) > op.size
        /\ op.cmd = "tasks" /\ op.result = Nothing /\ op.called = 1 =>
             server.asked[id] = 1 .. (IF Era THEN 1 ELSE Drives)
        /\ op.cmd = "stop" /\ op.result = Nothing /\ op.called = 1 =>
             id \notin server.running \/ op.timeout = 0

\* Both: an operation of unified.c is called back once, leaves nothing behind and
\* reports what is so.
UnifiedOK == OnceAndClean /\ Reports

\* Every operation is called back (unified_begin, unified_callback,
\* timer_poll), whatever else is under way.
OpsEnd == \A id \in Ids : Running(id) ~> ops[id].called = 1
=============================================================================
