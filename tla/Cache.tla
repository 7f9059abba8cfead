------------------------------- MODULE Cache -------------------------------
(***************************************************************************)
(* The cache of the remote file system (src/cache.c): the tree of the      *)
(* directory entries that are known, the queue of operations, each the     *)
(* script of its handler, and the choice of the next detail to read.       *)
(*                                                                         *)
(* All requests to the layer below go through one record, cache_next_cmd,  *)
(* so one is outstanding at a time, either for the operation at the head   *)
(* of the queue or for the cache itself.  The code is single threaded: an  *)
(* action is one event (an operation is queued, a poll, a reply, the layer *)
(* starts or ends), and within it a state s is a record of the variables   *)
(* and of env, what unified_back does with a request.                      *)
(*                                                                         *)
(* One drive stands for the 26.  Entries are nodes of a heap with the      *)
(* links of the C structures, so that the list handling of cache_dir_add   *)
(* and cache_dir_remove is what is checked.  Sizes, dates and the contents *)
(* of files are the subject of the module CacheFile.                       *)
(***************************************************************************)
EXTENDS Integers, FiniteSets, Sequences, TLC

CONSTANTS
    Paths,       \* objects of the remote file system, as sequences of names
    Initial,     \* what is at each path at the start
    Volatile,    \* paths that the remote user changes
    Recached,    \* paths that cache_recache is called for
    RecacheBusy, \* may it be called while an operation waits for its reply
    Commands,    \* operations that clients queue, other than those on open files
    Failing,     \* requests that may fail for no reason the model knows
    Junk,        \* what cache_next_reply may hold when a request fails
    Details,     \* single facts that are cached: "machine", "owner", "power", "sync"
    Room,        \* initial size of the buffer for listings
    MaxQueue,    \* operations queued at a time
    MaxEvents,   \* disturbances: failures, remote changes, cache_recache, ends
    Heap,        \* structures for directory entries
    Handles      \* structures for open files

Root == 0
Nil == -1
NoHandle == 0
None == "none"

ASSUME PathsAssumption ==
    /\ <<>> \in Paths /\ Volatile \subseteq Paths /\ Recached \subseteq Paths
    /\ DOMAIN Initial = Paths /\ Initial[<<>>] = "dir"
ASSUME HeapAssumption ==
    /\ IsFiniteSet(Heap) /\ Heap \subseteq Nat \ {0}
    /\ Handles \subseteq Nat \ {0}
ASSUME BoundsAssumption ==
    /\ {MaxQueue, MaxEvents} \subseteq Nat /\ Room \in Nat \ {0}
    /\ RecacheBusy \in BOOLEAN

VARIABLES
    heap,      \* directory entries, Root is that of the drive
    present,   \* drive->info.present: is there a disc in the drive
    known,     \* details that are valid
    room,      \* cache_buffer_size
    queue,     \* cache_pending_head ... cache_pending_tail
    next,      \* cache_next_active, cache_next_cmd: the request outstanding
    pending,   \* cache_pending_cmd: it is for the head of the queue
    result,    \* cache_pending_err, cache_pending_reply: its reply, until used
    handle,    \* cache_file structures
    active,    \* cache_active
    connected, \* cache_connected
    remote,    \* the remote file system
    opened,    \* paths of the files that it has open for us
    stale,     \* paths changed behind the cache's back since their directory was listed
    orphans,   \* files that the remote end has open for an open that failed
    done,      \* outcomes of the operations that the last event completed
    events     \* events that MaxEvents bounds, so far

vars == <<heap, present, known, room, queue, next, pending, result, handle,
          active, connected, remote, opened, stale, orphans, done, events>>

\* The state within an event; link is how unified_back treats a request:
\* "later" its callback comes with the reply, "now" at once with an error.
State(link) ==
    [heap |-> heap, present |-> present, known |-> known, room |-> room,
     queue |-> queue, next |-> next, pending |-> pending, result |-> result,
     handle |-> handle, active |-> active, connected |-> connected,
     done |-> <<>>, link |-> link]

Become(s) ==
    /\ heap' = s.heap /\ present' = s.present /\ known' = s.known
    /\ room' = s.room /\ queue' = s.queue /\ next' = s.next
    /\ pending' = s.pending /\ result' = s.result /\ handle' = s.handle
    /\ active' = s.active /\ connected' = s.connected /\ done' = s.done

-----------------------------------------------------------------------------
(* Data *)

Unused == [name |-> 0, parent |-> Nil, next |-> Nil, prev |-> Nil, first |-> Nil,
           required |-> FALSE, valid |-> FALSE, err |-> None, type |-> "none",
           open |-> NoHandle, listed |-> FALSE, wanted |-> FALSE,
           current |-> FALSE, failed |-> None]

\* listed, wanted, current and failed are dir.active, dir.required, dir.valid
\* and dir.err.
Entry(name, parent, type) ==
    [Unused EXCEPT !.name = name, !.parent = parent, !.valid = TRUE, !.type = type]

\* file is the remote handle: the path it was opened for; over says that the
\* client has asked to close it, and knows it no longer.
Free == [used |-> FALSE, dir |-> Nil, file |-> None, write |-> FALSE,
         folder |-> FALSE, stamp |-> FALSE, access |-> None, over |-> FALSE]

Command(op, path) ==
    [op |-> op, path |-> path, to |-> <<>>, mode |-> None, handle |-> NoHandle]
Pending(cmd) == [cmd |-> cmd, state |-> "initial", handle |-> NoHandle, sized |-> FALSE]
Request(by, op, path) == [by |-> by, op |-> op, path |-> path, to |-> <<>>, mode |-> None]
NoRequest == Request("none", "none", <<>>)
NoResult == [err |-> None, reply |-> FALSE]

Parent(path) == SubSeq(path, 1, Len(path) - 1)
Leaf(path) == path[Len(path)]

-----------------------------------------------------------------------------
(* The tree of entries *)

\* The children of an entry, along the next pointers
Children(s, d) ==
    LET walk[n \in 0 .. Cardinality(Heap)] ==
            IF n = 0 THEN <<>>
            ELSE LET up == walk[n - 1]
                     e == IF up = <<>> THEN s.heap[d].first ELSE s.heap[up[Len(up)]].next
                 IN IF e = Nil THEN up ELSE Append(up, e)
    IN walk[Cardinality(Heap)]

Members(list) == {list[n] : n \in 1 .. Len(list)}
Kids(s, d) == Members(Children(s, d))

\* cache_dir_name
PathOf(s, d) ==
    LET up[n \in 0 .. Cardinality(Heap)] ==
            IF n = 0 THEN [at |-> d, path |-> <<>>]
            ELSE LET u == up[n - 1] IN
                 IF u.at \in {Root, Nil} THEN u
                 ELSE [at |-> s.heap[u.at].parent,
                       path |-> <<s.heap[u.at].name>> \o u.path]
    IN up[Cardinality(Heap)].path

\* An entry with everything below it
Subtree(s, d) ==
    LET grow[n \in 0 .. Cardinality(Heap)] ==
            IF n = 0 THEN {d}
            ELSE LET g == grow[n - 1] IN g \cup UNION {Kids(s, e) : e \in g}
    IN grow[Cardinality(Heap)]

\* Files lose the entries that are freed.
Unlinked(s, gone) ==
    [h \in {h \in Handles : s.handle[h].dir \in gone} |-> [s.handle[h] EXCEPT !.dir = Nil]]
    @@ s.handle

DirRemoveOneWay(s, d) == \* mutant: the next entry is not relinked
    LET gone == Subtree(s, d)
        e == s.heap[d]
        linked(x) == [s.heap[x] EXCEPT
            !.next = IF x = e.prev THEN e.next ELSE @,
            !.first = IF e.prev = Nil /\ x = e.parent THEN e.next ELSE @]
    IN [s EXCEPT !.heap = [x \in gone |-> Unused]
                          @@ [x \in {e.prev, e.parent} \ {Nil} |-> linked(x)]
                          @@ s.heap,
                 !.handle = Unlinked(s, gone)]

\* cache_dir_remove: the whole subtree is freed.
DirRemove(s, d) ==
    LET gone == Subtree(s, d)
        e == s.heap[d]
        linked(x) == [s.heap[x] EXCEPT
            !.prev = IF x = e.next THEN e.prev ELSE @,
            !.next = IF x = e.prev THEN e.next ELSE @,
            !.first = IF e.prev = Nil /\ x = e.parent THEN e.next ELSE @]
    IN [s EXCEPT !.heap = [x \in gone |-> Unused]
                          @@ [x \in {e.next, e.prev, e.parent} \ {Nil} |-> linked(x)]
                          @@ s.heap,
                 !.handle = Unlinked(s, gone)]

NewAddress(s) ==
    CHOOSE x \in Heap : s.heap[x] = Unused /\ \A y \in Heap : s.heap[y] = Unused => x <= y

\* cache_dir_prev: the last entry that is not after the name
DirPrev(s, d, name) ==
    LET last(before) ==
            IF before = {} THEN Nil
            ELSE CHOOSE e \in before : \A f \in before : s.heap[f].name <= s.heap[e].name
    IN last({e \in Kids(s, d) : s.heap[e].name <= name})

\* cache_dir_add.  At the head of the list the entry that was first keeps its
\* prev pointer.
DirLink(s, d, x, prev, after, new) ==
    LET linked(y) == [s.heap[y] EXCEPT
            !.first = IF prev = Nil /\ y = d THEN x ELSE @,
            !.next = IF y = prev THEN x ELSE @,
            !.prev = IF prev # Nil /\ y = after THEN x ELSE @]
    IN [s EXCEPT !.heap = [y \in {d, prev, after} \ {Nil} |-> linked(y)]
                          @@ (x :> [new EXCEPT !.prev = prev, !.next = after]) @@ @]

DirInsert(s, d, x, prev, new) ==
    DirLink(s, d, x, prev, IF prev = Nil THEN s.heap[d].first ELSE s.heap[prev].next, new)

DirAdd(s, d, name, type) ==
    DirInsert(s, d, NewAddress(s), DirPrev(s, d, name), Entry(name, d, type))

Child(s, d, name) ==
    LET named(kids) == {n \in 1 .. Len(kids) : s.heap[kids[n]].name = name}
        first(kids, at) == IF at = {} THEN Nil ELSE kids[CHOOSE n \in at : \A m \in at : n <= m]
        choose(kids) == first(kids, named(kids))
    IN choose(Children(s, d))

\* cache_invalidate_all
InvalidateAll(s) ==
    LET kids == UNION {Subtree(s, e) : e \in Kids(s, Root)} IN
    [s EXCEPT !.known = {},
              !.heap = [x \in kids |-> Unused]
                       @@ [@ EXCEPT ![Root] =
                              [@ EXCEPT !.required = FALSE, !.valid = FALSE, !.listed = FALSE,
                                        !.wanted = FALSE, !.current = FALSE, !.first = Nil]],
              !.handle = Unlinked(s, kids \cup {Root})]

-----------------------------------------------------------------------------
(* Looking up a path *)

\* The result of a search: the entry or Nil, whether it is valid, an error
Found(s, dir, valid, err) == [s |-> s, dir |-> dir, valid |-> valid, err |-> err]

\* The end of cache_find_dir_entry; entry says whether the parent is valid
CheckEntry(s, dir, entry, required) ==
    CASE ~entry -> Found(s, IF required THEN Nil ELSE dir, FALSE, None)
      [] entry /\ dir = Nil -> Found(s, Nil, FALSE, IF required THEN "missing" ELSE None)
      [] OTHER ->
           LET e == s.heap[dir] IN
           IF ~e.valid \/ e.required
           THEN Found([s EXCEPT !.heap[dir].required = @ \/ required], dir, FALSE, None)
           ELSE Found(s, dir, TRUE, IF required THEN e.err ELSE None)

\* cache_find_drive
FindDrive(s, required) ==
    LET r == s.heap[Root] IN
    IF r.valid THEN Found(s, Root, TRUE, IF required THEN r.err ELSE None)
    ELSE Found([s EXCEPT !.heap[Root].required = @ \/ required], Root, FALSE, None)

\* The special case of the root directory
RootEntry(s, required) ==
    LET f == FindDrive(s, required)
        err == CASE f.err # None -> f.err
                 [] f.err = None /\ required /\ ~s.present -> "empty"
                 [] OTHER -> None
    IN IF err # None THEN Found(f.s, Root, FALSE, err)
       ELSE CheckEntry(f.s, Root, f.valid, required)

LeafEntry(f, name, required) ==
    IF f.err # None THEN Found(f.s, Nil, FALSE, f.err)
    ELSE CheckEntry(f.s, IF f.dir = Nil THEN Nil ELSE Child(f.s, f.dir, name),
                    f.valid, required)

\* cache_find_dir, from the entry of the directory
DirEntry(f, required) ==
    LET s == f.s
        d == f.dir
        e == s.heap[d]
        kids == Kids(s, d)
        sound(k) == s.heap[k].valid /\ ~s.heap[k].required
        ask(k) == LET y == s.heap[k] IN
            CASE ~sound(k) -> [y EXCEPT !.required = TRUE]
              [] sound(k) /\ y.type = "dir" /\ ~y.listed ->
                   [y EXCEPT !.listed = TRUE, !.wanted = FALSE, !.current = FALSE]
              [] OTHER -> y
    IN CASE f.err # None \/ d = Nil -> Found(s, d, FALSE, f.err)
         [] OTHER ->
       CASE ~f.valid \/ e.type # "dir" ->
              IF required THEN Found(s, Nil, FALSE, "missing") ELSE Found(s, d, FALSE, None)
         [] f.valid /\ e.type = "dir" /\ ~e.listed ->
              Found(IF required
                    THEN [s EXCEPT !.heap[d] = [@ EXCEPT !.listed = TRUE, !.wanted = TRUE,
                                                         !.current = FALSE]]
                    ELSE s, d, FALSE, None)
         [] f.valid /\ e.type = "dir" /\ e.listed /\ ~e.current ->
              Found([s EXCEPT !.heap[d].wanted = @ \/ required], d, FALSE, None)
         [] OTHER ->
              IF e.failed # None
              THEN Found(s, d, TRUE, IF required THEN e.failed ELSE None)
              ELSE Found(IF required THEN [s EXCEPT !.heap = [k \in kids |-> ask(k)] @@ @] ELSE s, d,
                         \A k \in kids : sound(k), None)

\* cache_find_dir_entry: from the root down
FindEntry(s, path, required) ==
    LET find[n \in 0 .. Len(path)] ==
            IF n = 0 THEN RootEntry(s, required)
            ELSE LeafEntry(DirEntry(find[n - 1], required), path[n], required)
    IN find[Len(path)]

FindDir(s, path, required) == DirEntry(FindEntry(s, path, required), required)

-----------------------------------------------------------------------------
(* Requests for an operation *)

\* cache_op_back.  The handlers call it only when the cache is active and no
\* request is outstanding.
Send(s, request) ==
    IF s.link = "now" /\ request.op \in Failing
    THEN [s EXCEPT !.result = [err |-> "link", reply |-> TRUE]]
    ELSE [s EXCEPT !.next = request, !.pending = TRUE,
                   !.result = [err |-> None, reply |-> TRUE]]

Ask(s, op, path) == Send(s, Request("op", op, path))

\* What a handler returns: its error, and done
Outcome(s, err, finished) == [s |-> s, err |-> err, done |-> finished]
Done(s) == Outcome(s, None, TRUE)
Wait(s) == Outcome(s, None, FALSE)
Fail(s, err) == Outcome(s, err, TRUE)

Enter(s, state) == [s EXCEPT !.queue[1].state = state]
Idle(s) == s.next = NoRequest

\* The start of most handlers: wait for the details f of an object
Once(s, err, f, Then(_)) ==
    IF err # None THEN Fail(s, err)
    ELSE IF f.err # None THEN Fail(f.s, f.err)
    ELSE IF ~f.valid THEN Wait(f.s)
    ELSE Then(f)

\* The details of the parent of an object, with its entry if there is one
Target(f, path) ==
    [s |-> f.s, dir |-> f.dir, valid |-> f.valid, err |-> f.err,
     info |-> IF path = <<>> THEN f.dir ELSE FindEntry(f.s, path, FALSE).dir]
FindTarget(s, path) == Target(FindDir(s, Parent(path), TRUE), path)

-----------------------------------------------------------------------------
(* Operations on objects *)

OpDrive(s, cmd, err, reply) ==
    Once(s, err, FindDrive(s, TRUE), LAMBDA f : Done(f.s))

OpName(s, cmd, err, reply) ==
    Once(s, err, FindDrive(s, TRUE), LAMBDA f :
        IF ~f.s.present THEN Fail(f.s, "empty")
        ELSE IF reply THEN Done([f.s EXCEPT !.heap[Root].valid = FALSE])
        ELSE Wait(IF Idle(s) THEN Ask(f.s, "name", <<>>) ELSE f.s))

OpEnumerate(s, cmd, err, reply) ==
    Once(s, err, FindDir(s, cmd.path, TRUE), LAMBDA f : Done(f.s))

MissingIsDone(o, yes) == IF o.err = "missing" /\ yes THEN Done(o.s) ELSE o

OpInfo(s, cmd, err, reply) ==
    MissingIsDone(Once(s, err, FindEntry(s, cmd.path, TRUE), LAMBDA f : Done(f.s)), TRUE)

OpMkdir(s, cmd, err, reply) ==
    Once(s, err, FindTarget(s, cmd.path), LAMBDA f :
        LET t == f.s IN
        IF f.info # Nil
        THEN IF t.heap[f.info].type = "dir" THEN Done(t) ELSE Fail(t, "exists")
        ELSE IF reply
        THEN Wait([DirAdd(t, f.dir, Leaf(cmd.path), "dir")
                       EXCEPT !.heap[NewAddress(t)].valid = FALSE])
        ELSE IF t.queue[1].state = "done" THEN Fail(t, "missing")
        ELSE IF Idle(t) THEN Wait(Enter(Ask(t, "mkdir", cmd.path), "done"))
        ELSE Wait(t))

\* A directory is looked up again with what it contains.
WithContents(f, path) ==
    IF f.err = None /\ f.valid /\ f.s.heap[f.dir].type = "dir"
    THEN FindDir(f.s, path, TRUE) ELSE f

OpRemove(s, cmd, err, reply) ==
    MissingIsDone(
        Once(s, err, WithContents(FindEntry(s, cmd.path, TRUE), cmd.path), LAMBDA g :
            LET t == g.s
                e == t.heap[g.dir]
            IN IF e.first # Nil THEN Fail(t, "not empty")
               ELSE IF e.open # NoHandle THEN Fail(t, "open")
               ELSE IF t.queue[1].state = "done" THEN Fail(t, "locked")
               ELSE IF Idle(t)
               THEN Wait([Enter(Ask(t, IF e.type = "dir" THEN "rmdir" ELSE "remove", cmd.path),
                                "done") EXCEPT !.heap[g.dir].valid = FALSE])
               ELSE Wait(t)),
        ~reply)

\* The entry of a renamed object takes over what was open and cached.
MoveEntry(t, src, x) ==
    LET e == t.heap[src]
        clear == [e EXCEPT !.open = NoHandle, !.listed = FALSE, !.wanted = FALSE,
                           !.current = FALSE, !.first = Nil]
        u == [t EXCEPT !.heap[src] = clear,
                       !.heap[x] = [@ EXCEPT !.open = e.open, !.listed = e.listed,
                                             !.wanted = e.wanted, !.current = e.current,
                                             !.failed = e.failed, !.first = e.first],
                       !.heap = [k \in Kids(t, src) |-> [t.heap[k] EXCEPT !.parent = x]] @@ @]
    IN IF e.open = NoHandle THEN u ELSE [u EXCEPT !.handle[e.open].dir = x]

Renamed(s, cmd, src, f, new) ==
    IF src # Nil /\ f.info = Nil
    THEN MoveEntry(DirAdd(s, f.dir, Leaf(cmd.to), s.heap[src].type), src, new) ELSE s

\* The reply to the request: both entries are to be read again.
RenameReply(s, cmd, src, f) ==
    LET new == IF src # Nil /\ f.info = Nil THEN NewAddress(s) ELSE f.info
        doubted(u) == [u EXCEPT !.heap = [y \in {src, new} \ {Nil} |->
                                              [u.heap[y] EXCEPT !.valid = FALSE]] @@ @]
    IN doubted(Renamed(s, cmd, src, f, new))

RenameFrom(s, cmd, err, reply, src) ==
    Once(s, err, FindTarget(s, cmd.to), LAMBDA f :
        LET t == f.s
            dest == f.info
        IN IF reply THEN Wait(RenameReply(t, cmd, src, f))
           ELSE IF t.queue[1].state = "done"
           THEN IF dest = Nil \/ src \notin {Nil, dest} THEN Fail(t, "bad rename") ELSE Done(t)
           ELSE IF src = Nil THEN Fail(t, "missing")
           ELSE IF dest \notin {Nil, src} THEN Fail(t, "exists")
           ELSE IF Idle(t)
           THEN Wait(Enter(Send(t, [Request("op", "rename", cmd.path) EXCEPT !.to = cmd.to]),
                           "done"))
           ELSE Wait(t))

OpRename(s, cmd, err, reply) ==
    IF err = None /\ <<>> \in {cmd.path, cmd.to} THEN Fail(s, "bad rename")
    ELSE RenameFrom(s, cmd, err, reply, FindEntry(s, cmd.path, FALSE).dir)

OpAccess(s, cmd, err, reply) ==
    Once(s, err, FindEntry(s, cmd.path, TRUE), LAMBDA f :
        LET t == f.s
            e == t.heap[f.dir]
        IN IF e.open # NoHandle THEN Done([t EXCEPT !.handle[e.open].access = cmd.mode])
           ELSE IF e.type \in {"dir", cmd.mode} THEN Done(t)
           ELSE IF reply THEN Done([t EXCEPT !.heap[f.dir].valid = FALSE])
           ELSE Wait(IF Idle(t)
                     THEN Send(t, [Request("op", "access", cmd.path) EXCEPT !.mode = cmd.mode])
                     ELSE t))

OpStamp(s, cmd, err, reply) ==
    Once(s, err, FindEntry(s, cmd.path, TRUE), LAMBDA f :
        LET t == f.s
            e == t.heap[f.dir]
        IN IF e.open # NoHandle THEN Done([t EXCEPT !.handle[e.open].stamp = TRUE])
           ELSE IF reply THEN Done([t EXCEPT !.heap[f.dir].valid = FALSE])
           ELSE Wait(IF Idle(t) THEN Ask(t, "stamp", cmd.path) ELSE t))

-----------------------------------------------------------------------------
(* Open files *)

NewHandle(s) == CHOOSE h \in Handles : ~s.handle[h].used

\* cache_op_open when neither the object nor the mode rules it out.  A reply
\* that has been lost leaves the handle of the remote file unset.
OpenNext(s, cmd, reply, dir, info) ==
    LET h == s.queue[1].handle
        state == s.queue[1].state
        exists == info # Nil
        mode == IF cmd.mode = "up" /\ exists /\ s.heap[info].type = "locked"
                THEN "in" ELSE cmd.mode
        opening == Send([s EXCEPT !.handle[h].write = @ \/ mode # "in"],
                        [Request("op", "open", cmd.path) EXCEPT !.mode = mode])
        new == IF exists THEN info ELSE NewAddress(s)
        created == [IF exists THEN s ELSE DirAdd(s, dir, Leaf(cmd.path), "none")
                       EXCEPT !.heap[new].valid = FALSE, !.handle[h].file = cmd.path]
    IN CASE state = "delete" /\ exists /\ cmd.mode = "out" ->
              Wait(Enter([Ask(s, "remove", cmd.path) EXCEPT !.queue[1].sized = TRUE], "open"))
         [] state = "open" \/ (state = "delete" /\ ~(exists /\ cmd.mode = "out")) ->
              Wait(Enter(opening, "resize"))
         [] state = "resize" /\ reply /\ cmd.mode = "out" ->
              Wait(Enter(IF s.queue[1].sized THEN Ask(created, "size", cmd.path) ELSE created,
                         "done"))
         [] state = "resize" /\ reply /\ cmd.mode # "out" ->
              Done(Enter([s EXCEPT !.handle[h].file = cmd.path], "done"))
         [] OTHER -> Done(s)

\* The end of cache_op_open: link the handle to the entry or free it
OpenEnd(o, info) ==
    LET h == o.s.queue[1].handle IN
    IF h = NoHandle \/ (o.err = None /\ ~o.done) THEN o
    ELSE IF o.err = None
    THEN LET t == [o.s EXCEPT !.handle[h].dir = info] IN
         Done(IF info = Nil THEN t ELSE [t EXCEPT !.heap[info].open = h])
    ELSE LET freed == [o.s EXCEPT !.handle[h] = Free, !.queue[1].handle = NoHandle]
         IN IF o.err = "missing" THEN Done(freed) ELSE Fail(freed, o.err)

OpenFrom(t, cmd, err, reply, f) ==
    OpenEnd(
        Once(t, err, f, LAMBDA g :
            LET u == g.s
                state == u.queue[1].state
                exists == g.info # Nil
            IN IF ~exists /\ (cmd.mode # "out" \/ state = "done") THEN Fail(u, "missing")
               ELSE IF state = "delete" /\ exists /\ u.heap[g.info].open # NoHandle
               THEN Fail(u, "open")
               ELSE IF exists /\ u.heap[g.info].type = "dir"
               THEN IF cmd.mode = "in"
                    THEN Done([u EXCEPT !.handle[u.queue[1].handle].folder = TRUE])
                    ELSE Fail(u, "missing")
               ELSE IF Idle(u) THEN OpenNext(u, cmd, reply, g.dir, g.info)
               ELSE Wait(u)),
        f.info)

OpOpen(s, cmd, err, reply) ==
    LET t == IF err = None /\ s.queue[1].state = "initial"
             THEN Enter([s EXCEPT !.handle[NewHandle(s)].used = TRUE,
                                  !.queue[1].handle = NewHandle(s)], "delete")
             ELSE s
    IN OpenFrom(t, cmd, err, reply, FindTarget(t, cmd.path))

\* cache_op_close: the request of each stage is sent if there is need of it.
OpClose(s, cmd, err, reply) ==
    LET h == cmd.handle
        x == s.handle[h]
        state == s.queue[1].state
        path == PathOf(s, x.dir)
        from(stages) == state \in stages
        send(request, to) == Wait(Enter(Send(s, request), to))
        dirty == x.stamp \/ x.access # None \/ x.write
    IN IF err # None THEN Fail(s, err)
       ELSE IF x.dir = Nil THEN Fail(s, "channel")
       ELSE IF ~Idle(s) THEN Wait(s)
       ELSE IF from({"initial"}) /\ x.write
       THEN send(Request("op", "size", x.file), "close")
       ELSE IF from({"initial", "close"}) /\ ~x.folder
       THEN send(Request("op", "close", x.file), "stamp")
       ELSE IF from({"initial", "close", "stamp"}) /\ (x.stamp \/ x.write)
       THEN send(Request("op", "stamp", path), "access")
       ELSE IF ~from({"done"}) /\ x.access \notin {None, s.heap[x.dir].type}
       THEN send([Request("op", "access", path) EXCEPT !.mode = x.access], "done")
       ELSE Done([s EXCEPT !.heap[x.dir].open = NoHandle,
                           !.heap[x.dir].valid = @ /\ ~dirty,
                           !.handle[h] = Free])

\* cache_op_args; cache_op_flush and the part of cache_op_sequential that
\* sends nothing differ in the details of the file only.
OpArgs(s, cmd, err, reply) ==
    IF err # None THEN Fail(s, err)
    ELSE IF s.handle[cmd.handle].dir = Nil THEN Fail(s, "channel")
    ELSE Done(s)

Handler(s, err, reply) ==
    LET cmd == s.queue[1].cmd IN
    CASE cmd.op = "drive"     -> OpDrive(s, cmd, err, reply)
      [] cmd.op = "name"      -> OpName(s, cmd, err, reply)
      [] cmd.op = "enumerate" -> OpEnumerate(s, cmd, err, reply)
      [] cmd.op = "info"      -> OpInfo(s, cmd, err, reply)
      [] cmd.op = "mkdir"     -> OpMkdir(s, cmd, err, reply)
      [] cmd.op = "remove"    -> OpRemove(s, cmd, err, reply)
      [] cmd.op = "rename"    -> OpRename(s, cmd, err, reply)
      [] cmd.op = "access"    -> OpAccess(s, cmd, err, reply)
      [] cmd.op = "stamp"     -> OpStamp(s, cmd, err, reply)
      [] cmd.op = "open"      -> OpOpen(s, cmd, err, reply)
      [] cmd.op = "close"     -> OpClose(s, cmd, err, reply)
      [] cmd.op = "args"      -> OpArgs(s, cmd, err, reply)

-----------------------------------------------------------------------------
(* Choosing the next detail to read *)

\* The directory entries that cache_next_dir_recurse comes to
Visited(s) ==
    LET top == IF s.heap[Root].valid /\ s.heap[Root].err = None /\ s.present
               THEN {Root} ELSE {}
        below(d) == LET e == s.heap[d] IN
                    IF e.type = "dir" /\ e.listed /\ e.current /\ e.failed = None
                    THEN Kids(s, d) ELSE {}
        visit[n \in 0 .. Cardinality(Heap)] ==
            IF n = 0 THEN top
            ELSE LET v == visit[n - 1] IN v \cup UNION {below(d) : d \in v}
    IN visit[Cardinality(Heap)]

Required == 3
Invalid == 2
Refresh == 1

Priority(required, valid) ==
    IF required THEN Required ELSE IF valid THEN Refresh ELSE Invalid

\* cache_next_sync, _drive, _machine, _power, _owner and _dir
Candidates(s) ==
    LET unknown == Details \ s.known
        detail(d, p) == [request |-> Request("cache", d, <<>>), priority |-> p]
        dirs == Visited(s)
        info(d) == [request |-> Request("cache", "info", PathOf(s, d)),
                    priority |-> Priority(s.heap[d].required, FALSE)]
        list(d) == [request |-> Request("cache", "list", PathOf(s, d)),
                    priority |-> Priority(s.heap[d].wanted, s.heap[d].current)]
    IN {detail("drive", Priority(s.heap[Root].required, s.heap[Root].valid))}
         \cup {detail(d, Required) : d \in unknown \cap {"machine", "sync"}}
         \cup {detail(d, Invalid) : d \in unknown \cap {"owner"}}
         \cup {detail(d, Priority(FALSE, d \in s.known)) : d \in Details \cap {"power"}}
         \cup {info(d) : d \in {e \in dirs \ {Root} : s.heap[e].required \/ ~s.heap[e].valid}}
         \cup {list(d) : d \in {e \in dirs : s.heap[e].type = "dir" /\ s.heap[e].listed}}

\* cache_next_compare.  Among equals the times of the last refresh decide.
Best(s) ==
    LET all == Candidates(s) IN
    IF ~s.active \/ ~Idle(s) THEN {}
    ELSE {c.request : c \in {c \in all : \A d \in all : d.priority <= c.priority}}

-----------------------------------------------------------------------------
(* The reply to a request of the cache itself *)

\* cache_next_dir_update; an object of a new type loses its entry.
DirUpdate(s, x, err, name, type) ==
    LET e == s.heap[x]
        kind(t) == IF t = "locked" THEN "file" ELSE t
        changed == /\ err = None
                   /\ \/ e.listed /\ type # "dir"
                      \/ e.valid /\ e.err = None /\ kind(e.type) # kind(type)
    IN IF changed THEN DirAdd(DirRemove(s, x), e.parent, name, type)
       ELSE [s EXCEPT !.heap[x] = [@ EXCEPT !.required = FALSE, !.valid = s.active,
                                            !.err = err, !.name = name, !.type = type]]

MergeNoTail(s, d, listing) == \* mutant: stops at the end of the listing
    LET step(m) ==
            LET from == IF m.from = <<>> THEN [name |-> 0, type |-> None] ELSE m.from[1]
                to == IF m.to = Nil THEN Unused ELSE m.s.heap[m.to]
            IN IF m.from # <<>> /\ (m.to = Nil \/ from.name < to.name)
               THEN [m EXCEPT !.s = DirAdd(m.s, d, from.name, from.type), !.from = Tail(@)]
               ELSE IF m.to # Nil /\ m.from # <<>> /\ to.name < from.name
               THEN [m EXCEPT !.s = DirRemove(m.s, m.to), !.to = to.next]
               ELSE IF m.to # Nil /\ m.from # <<>>
               THEN [s |-> DirUpdate(m.s, m.to, None, from.name, from.type),
                     to |-> to.next, from |-> Tail(m.from)]
               ELSE m
        merge[n \in 0 .. Len(listing) + Cardinality(Heap)] ==
            IF n = 0 THEN [s |-> s, to |-> s.heap[d].first, from |-> listing]
            ELSE step(merge[n - 1])
    IN merge[Len(listing) + Cardinality(Heap)].s

\* The merge of a listing with the children of a directory, both in order
Merge(s, d, listing) ==
    LET step(m) ==
            LET from == IF m.from = <<>> THEN [name |-> 0, type |-> None] ELSE m.from[1]
                to == IF m.to = Nil THEN Unused ELSE m.s.heap[m.to]
            IN IF m.from # <<>> /\ (m.to = Nil \/ from.name < to.name)
               THEN [m EXCEPT !.s = DirAdd(m.s, d, from.name, from.type), !.from = Tail(@)]
               ELSE IF m.to # Nil /\ (m.from = <<>> \/ to.name < from.name)
               THEN [m EXCEPT !.s = DirRemove(m.s, m.to), !.to = to.next]
               ELSE IF m.to # Nil
               THEN [s |-> DirUpdate(m.s, m.to, None, from.name, from.type),
                     to |-> to.next, from |-> Tail(m.from)]
               ELSE m
        merge[n \in 0 .. Len(listing) + Cardinality(Heap)] ==
            IF n = 0 THEN [s |-> s, to |-> s.heap[d].first, from |-> listing]
            ELSE step(merge[n - 1])
    IN merge[Len(listing) + Cardinality(Heap)].s

NextDrive(s, err, there) ==
    LET r == s.heap[Root]
        up == err = None /\ s.active /\ there
        t == [s EXCEPT !.present = IF err = None THEN there ELSE @,
                       !.heap[Root] = [@ EXCEPT !.required = FALSE, !.valid = s.active,
                                                !.err = err]]
    IN IF s.active /\ err = None /\ there
       THEN IF r.listed THEN t
            ELSE [t EXCEPT !.heap[Root] = [@ EXCEPT !.type = "dir", !.listed = TRUE,
                                                    !.wanted = FALSE, !.current = FALSE]]
       ELSE LET kids == IF err = None THEN Children(t, Root) ELSE <<>>
                gone[n \in 0 .. Len(kids)] == IF n = 0 THEN t ELSE DirRemove(gone[n - 1], kids[n])
            IN [gone[Len(kids)] EXCEPT
                   !.heap[Root] = [@ EXCEPT !.type = "none", !.listed = FALSE, !.wanted = FALSE,
                                            !.current = FALSE]]

ListReadNotValid(s, d, err, listing) == \* mutant: the listing is not marked as valid
    LET read == [s EXCEPT !.heap[d] = [@ EXCEPT !.wanted = FALSE, !.failed = err,
                                                !.valid = @ /\ err = None]]
    IN IF d = Nil THEN s ELSE IF err # None THEN read ELSE Merge(read, d, listing)

ListRead(s, d, err, listing) ==
    LET read == [s EXCEPT !.heap[d] = [@ EXCEPT !.wanted = FALSE, !.current = s.active,
                                                !.failed = err, !.valid = @ /\ err = None]]
    IN IF d = Nil THEN s ELSE IF err # None THEN read ELSE Merge(read, d, listing)

NextList(s, path, err, listing) == ListRead(s, FindDir(s, path, FALSE).dir, err, listing)

InfoRead(s, d, err, info) ==
    LET p == s.heap[d].parent
        doubted == IF err # None /\ p # Nil THEN [s EXCEPT !.heap[p].valid = FALSE] ELSE s
    IN IF d = Nil THEN s
       ELSE IF err = "missing" THEN DirRemove(s, d)
       ELSE DirUpdate(doubted, d, err, info.name, info.type)

NextInfo(s, path, err, info) == InfoRead(s, FindEntry(s, path, FALSE).dir, err, info)

\* cache_next_callback: the state and the error that keeps cache_process away
NextCallback(s, request, a) ==
    LET t == [s EXCEPT !.next = NoRequest] IN
    CASE request.op = "drive" -> Outcome(NextDrive(t, a.err, a.there), a.err, TRUE)
      [] request.op = "list" /\ a.err = "many" -> Done([t EXCEPT !.room = 2 * @])
      [] request.op = "list" /\ a.err # "many" ->
           Outcome(NextList(t, request.path, a.err, a.list), a.err, TRUE)
      [] request.op = "info" ->
           Outcome(NextInfo(t, request.path, a.err, a.info),
                   IF a.err = "missing" THEN None ELSE a.err, TRUE)
      [] OTHER -> Outcome([t EXCEPT !.known = IF t.active THEN @ \cup {request.op} ELSE @],
                          a.err, TRUE)

-----------------------------------------------------------------------------
(* cache_process *)

\* cache_op_done.  The client's callback returns no error.
OpDone(s, err) ==
    LET op == s.queue[1] IN
    [s EXCEPT !.pending = FALSE, !.result = NoResult, !.queue = Tail(@),
              !.done = Append(@, [cmd |-> op.cmd, err |-> err, handle |-> op.handle,
                                 asked |-> op.state = "done", replaces |-> op.sized])]

StepDropsError(s) == \* mutant: the error of the reply is lost
    LET err == IF s.active THEN None ELSE "inactive"
        t == [s EXCEPT !.result = NoResult]
    IN IF s.pending THEN Outcome(t, err, FALSE) ELSE Handler(t, err, s.active /\ s.result.reply)

\* The handler of the operation at the head of the queue is called, unless the
\* operation waits for a reply.
Step(s) ==
    LET err == IF s.active THEN s.result.err ELSE "inactive"
        t == [s EXCEPT !.result = NoResult]
    IN IF s.pending THEN Outcome(t, err, FALSE) ELSE Handler(t, err, s.active /\ s.result.reply)

\* One turn of the loop, until an operation has to wait
TurnEnd(o) ==
    IF o.err # None \/ o.done THEN [s |-> OpDone(o.s, o.err), more |-> TRUE]
    ELSE [s |-> o.s, more |-> FALSE]
Turn(m) == IF ~m.more \/ m.s.queue = <<>> THEN m ELSE TurnEnd(Step(m.s))

Advance(s) ==
    LET turn[n \in 0 .. MaxQueue] ==
            IF n = 0 THEN [s |-> s, more |-> TRUE] ELSE Turn(turn[n - 1])
    IN turn[MaxQueue].s

\* The reply to a request that fails
Failed(err, info) ==
    [err |-> err, there |-> FALSE, list |-> <<>>, info |-> info,
     remote |-> remote, opened |-> opened]

\* cache_next_start, at once or put off: the link was busy until just now, or
\* the operating system wants to be left alone.
Start(s, request) ==
    IF s.link = "now" /\ request.op \in Failing
    THEN {NextCallback(s, request, Failed("link", info)).s : info \in Junk}
    ELSE {[s EXCEPT !.next = request]}

StartBest(t) == {t} \cup UNION {Start(t, r) : r \in Best(t)}
Process(s) == StartBest(Advance(s))

-----------------------------------------------------------------------------
(* The remote end (external): what unified_back's requests do there *)

Disc == remote[<<>>] = "dir"
Exists(path) == path \in Paths /\ remote[path] # "none"
IsDir(path) == path \in Paths /\ remote[path] = "dir"
IsFile(path) == Exists(path) /\ ~IsDir(path)
Under(path) == {p \in Paths : p # <<>> /\ Parent(p) = path}
Below(path) == {p \in Paths : Len(p) >= Len(path) /\ SubSeq(p, 1, Len(path)) = path}
Info(path) == [name |-> IF path = <<>> THEN 0 ELSE Leaf(path), type |-> remote[path]]

Listing(path) ==
    LET there == {p \in Under(path) : Exists(p)}
        at(n) == CHOOSE p \in there : Cardinality({q \in there : Leaf(q) <= Leaf(p)}) = n
    IN [n \in 1 .. Cardinality(there) |-> Info(at(n))]

\* Renaming moves the object with everything in it.
Moved(src, dest) ==
    [p \in Paths |->
        IF p \in Below(dest) /\ src \o SubSeq(p, Len(dest) + 1, Len(p)) \in Paths
        THEN remote[src \o SubSeq(p, Len(dest) + 1, Len(p))]
        ELSE IF p \in Below(src) \cup Below(dest) THEN "none" ELSE remote[p]]

Refusal(r) ==
    LET p == r.path IN
    CASE r.op \in {"drive", "owner", "power", "machine", "sync"} -> None
      [] r.op \in {"size", "close"} -> IF p \in opened THEN None ELSE "channel"
      [] r.op \notin {"size", "close"} /\ ~Disc -> "empty"
      [] r.op = "list" /\ Disc ->
           IF ~IsDir(p) THEN "missing" ELSE IF Len(Listing(p)) > room THEN "many" ELSE None
      [] r.op = "mkdir" /\ Disc ->
           IF Exists(p) THEN "exists" ELSE IF IsDir(Parent(p)) THEN None ELSE "missing"
      [] r.op = "remove" /\ Disc ->
           IF ~IsFile(p) THEN "missing" ELSE IF remote[p] = "locked" THEN "locked"
           ELSE IF p \in opened THEN "open" ELSE None
      [] r.op = "rmdir" /\ Disc ->
           IF ~IsDir(p) THEN "missing" ELSE IF Listing(p) # <<>> THEN "not empty" ELSE None
      [] r.op = "rename" /\ Disc ->
           IF ~Exists(p) \/ ~IsDir(Parent(r.to)) THEN "missing"
           ELSE IF Exists(r.to) THEN "exists"
           ELSE IF Below(p) \cap opened # {} THEN "open" ELSE None
      [] r.op = "open" /\ Disc ->
           IF p \in opened THEN "open"
           ELSE IF ~IsDir(Parent(p)) \/ IsDir(p) \/ (r.mode # "out" /\ ~Exists(p)) THEN "missing"
           ELSE IF r.mode # "in" /\ remote[p] = "locked" THEN "locked" ELSE None
      [] OTHER -> IF p = <<>> \/ Exists(p) THEN None ELSE "missing"

Effect(r) ==
    LET p == r.path IN
    CASE r.op = "mkdir" -> [remote EXCEPT ![p] = "dir"]
      [] r.op \in {"remove", "rmdir"} -> [remote EXCEPT ![p] = "none"]
      [] r.op = "rename" -> Moved(p, r.to)
      [] r.op = "access" -> [remote EXCEPT ![p] = IF IsDir(p) THEN "dir" ELSE r.mode]
      [] r.op = "open" /\ r.mode = "out" -> [remote EXCEPT ![p] = "file"]
      [] OTHER -> remote

Success(r) ==
    [err |-> None, there |-> Disc,
     list |-> IF r.op = "list" THEN Listing(r.path) ELSE <<>>,
     info |-> Info(r.path), remote |-> Effect(r),
     opened |-> CASE r.op = "open" -> opened \cup {r.path}
                  [] r.op = "close" -> opened \ {r.path}
                  [] OTHER -> opened]

\* A request that fails, carried out all the same or not: the reply may have
\* been lost or have come too late (share_poll_idle).
Unanswered(r, err, info) ==
    {Failed(err, info)} \cup
    (IF Refusal(r) = None
     THEN {[Failed(err, info) EXCEPT !.remote = Effect(r),
                                     !.opened = IF active THEN Success(r).opened ELSE opened]}
     ELSE {})

\* Once the cache has ended the layers below end and fail what they still have.
Answers(r) ==
    UNION {Unanswered(r, err, info) : info \in Junk,
              err \in IF ~active THEN {"ended"} ELSE IF r.op \in Failing THEN {"link"} ELSE {}}
    \cup (IF active /\ Refusal(r) # None THEN {Failed(Refusal(r), info) : info \in Junk}
          ELSE {})
    \cup (IF active /\ Refusal(r) = None THEN {Success(r)} ELSE {})

-----------------------------------------------------------------------------
(* Events *)

\* A request fails at once only if one may fail at all.
Links == {"later"} \cup (IF Failing = {} THEN {} ELSE {"now"})

Disturb(yes) ==
    /\ yes => events < MaxEvents
    /\ events' = IF yes THEN events + 1 ELSE events

Init ==
    /\ heap = [x \in Heap \cup {Root} |-> Unused]
    /\ present = FALSE /\ known = {} /\ room = Room
    /\ queue = <<>> /\ next = NoRequest /\ pending = FALSE /\ result = NoResult
    /\ handle = [h \in Handles |-> Free]
    /\ active = FALSE /\ connected = FALSE
    /\ remote = Initial /\ opened = {} /\ stale = {} /\ orphans = {}
    /\ done = <<>> /\ events = 0

\* What this event leaves that the cache does not know of: told is what is
\* stale for other reasons.  A file that was to be replaced is gone when only
\* its removal came off.
Unnoticed(told) ==
    LET opens == {done'[n] : n \in {n \in 1 .. Len(done') : done'[n].cmd.op = "open"}}
        failed == {o \in opens : o.handle = NoHandle}
        held == {handle'[h].file : h \in {h \in Handles : handle'[h].used /\ handle'[h].file # None}}
    IN /\ stale' = told \cup {o.cmd.path : o \in {o \in failed : /\ o.replaces
                                                                  /\ remote'[o.cmd.path] = "none"}}
       /\ orphans' = (orphans \cup {o.cmd.path : o \in failed}) \cap (opened' \ held)

\* What a request has changed that failed.  cache_op_remove marks the entry
\* when it sends the request.
Untold(a) ==
    IF a.err = None \/ ~active THEN {}
    ELSE {p \in Paths : a.remote[p] # remote[p] /\ queue[1].cmd.op # "remove"}

\* The client opens no more files than there are handles, and does nothing
\* else with a file that it closes, whatever comes of it.
QueueObject ==
    {cmd \in Commands :
        cmd.op = "open" => Cardinality({h \in Handles : ~handle[h].used}) >
                           Cardinality({n \in 1 .. Len(queue) : queue[n].cmd.op = "open"})}
QueueFile ==
    {[Command(op, <<>>) EXCEPT !.handle = h] : op \in {"args", "close"},
        h \in {h \in Handles : /\ handle[h].used /\ ~handle[h].over
                               /\ \A n \in 1 .. Len(queue) :
                                    h \notin {queue[n].handle, queue[n].cmd.handle}}}

Queued(s, cmd) ==
    [s EXCEPT !.queue = Append(@, Pending(cmd)),
              !.handle = IF cmd.op = "close" THEN [@ EXCEPT ![cmd.handle].over = TRUE] ELSE @]

\* cache_back
Queue ==
    /\ Len(queue) < MaxQueue
    /\ \E cmd \in QueueObject \cup QueueFile, link \in Links :
         /\ Disturb(link = "now")
         /\ \E t \in Process(Queued(State(link), cmd)) : Become(t)
    /\ UNCHANGED <<remote, opened>> /\ Unnoticed(stale)

Poll ==
    /\ active
    /\ \E link \in Links :
         /\ Disturb(link = "now")
         /\ \E t \in Process(State(link)) :
              Become([t EXCEPT !.connected = @ \/ t.heap[Root].valid])
    /\ UNCHANGED <<remote, opened>> /\ Unnoticed(stale)

\* cache_op_callback, cache_next_callback
Used(s, a) ==
    Outcome([s EXCEPT !.next = NoRequest, !.pending = FALSE,
                      !.result = IF s.pending THEN [err |-> a.err, reply |-> TRUE] ELSE @],
            None, TRUE)
Continue(o) == IF o.err = None THEN Process(o.s) ELSE {o.s}

Answer ==
    /\ next # NoRequest
    /\ \E a \in Answers(next), link \in Links :
         /\ Disturb(a.err = "link" \/ link = "now")
         /\ remote' = a.remote /\ opened' = a.opened
         /\ \E t \in Continue(IF next.by = "op" THEN Used(State(link), a)
                              ELSE NextCallback(State(link), next, a)) : Become(t)
         /\ Unnoticed(IF next.op = "list" /\ a.err = None THEN stale \ Under(next.path)
                      ELSE stale \cup Untold(a))

\* cache_recache, called by the clipboard
Recache ==
    \E p \in Recached :
        LET s == State("later")
            d == FindEntry(s, p, FALSE).dir
        IN /\ Disturb(TRUE)
           /\ RecacheBusy \/ ~pending
           /\ d # Nil
           /\ Become([s EXCEPT !.heap = [x \in {d, heap[d].parent} \ {Nil} |->
                                             [heap[x] EXCEPT !.required = TRUE]] @@ @])
           /\ UNCHANGED <<remote, opened, stale, orphans>>

\* cache_start
StartCache ==
    /\ ~active /\ next = NoRequest
    /\ Become([InvalidateAll(State("later")) EXCEPT !.active = TRUE])
    /\ UNCHANGED <<remote, opened, stale, orphans, events>>

\* cache_end.  The remote end closes the files of a connection that is lost.
EndCache ==
    /\ active /\ Disturb(TRUE)
    /\ \E t \in Process([InvalidateAll(State("later")) EXCEPT
                             !.connected = FALSE, !.active = FALSE]) : Become(t)
    /\ opened' = {} /\ remote' = remote /\ Unnoticed(stale)

\* The remote user puts the disc in or takes it out, or changes an object.
RemoteChange ==
    \E p \in Volatile :
        /\ Disturb(TRUE)
        /\ Below(p) \cap opened = {}
        /\ p # <<>> => Disc /\ IsDir(Parent(p)) /\ \A q \in Under(p) : ~Exists(q)
        /\ \E t \in (IF p = <<>> THEN {"none", "dir"} ELSE {"none", "file", "dir"}) \ {remote[p]} :
             remote' = [remote EXCEPT ![p] = t]
        /\ stale' = stale \cup {p} /\ done' = <<>>
        /\ UNCHANGED <<heap, present, known, room, queue, next, pending, result, handle,
                       active, connected, opened, orphans>>

Next == Queue \/ Poll \/ Answer \/ Recache \/ StartCache \/ EndCache
        \/ RemoteChange
Spec == Init /\ [][Next]_vars

\* The layers below answer every request, and cache_poll is called again and
\* again and not put off for ever: WF_vars of each, with what enables it
\* written out.
Progress(s) == s.next # NoRequest \/ s.done # <<>>
CanPoll ==
    /\ active /\ queue # <<>> /\ next = NoRequest
    /\ \E t \in Process(State("later")) : Progress(t)
PollNow == next = NoRequest /\ (next' # NoRequest \/ done' # <<>>) /\ Poll
Fairness ==
    /\ []<>(next = NoRequest) \/ []<><<Answer>>_vars
    /\ []<>(~CanPoll) \/ []<><<PollNow>>_vars
FairSpec == Spec /\ Fairness

-----------------------------------------------------------------------------
(* Properties *)

Now == State("later")
Reachable == Subtree(Now, Root)
Outcomes == {done[n] : n \in 1 .. Len(done)}
Steady(path) == \A n \in 0 .. Len(path) : SubSeq(path, 1, n) \notin Volatile

\* The variables have their types.
TypeOK ==
    /\ \A x \in Heap \cup {Root} :
         LET e == heap[x] IN
         /\ {e.parent, e.next, e.prev, e.first} \subseteq Heap \cup {Root, Nil}
         /\ e.open \in Handles \cup {NoHandle}
         /\ e.type \in {"none", "file", "locked", "dir"}
    /\ \A h \in Handles : handle[h].dir \in Heap \cup {Root, Nil}
    /\ known \subseteq Details /\ orphans \subseteq opened /\ opened \subseteq Paths
    /\ next.by \in {"none", "op", "cache"} /\ (next.by = "none" <=> next = NoRequest)
    /\ pending => next.by = "op" /\ queue # <<>>

\* The description of cache_dir_remove says that the specified entry is unlinked
\* and freed, with its children: no other is lost from the lists.
NoneLost ==
    LET reachable == Reachable IN \A x \in Heap \ reachable : heap[x] = Unused

\* The lists of children are what cache_dir_add and cache_dir_remove take them
\* for: in order, linked both ways, with the parent they are found from, and no
\* entry is lost from them.  That needs objects that are not put in a list ahead
\* of its first: cache_dir_add leaves the prev of that one as it is, and when it
\* is removed cache_dir_remove loses the one ahead of it.
TreeOK ==
    LET ordered(d, kids) ==
            \A n \in 1 .. Len(kids) :
                /\ heap[kids[n]].parent = d
                /\ heap[kids[n]].prev = (IF n = 1 THEN Nil ELSE kids[n - 1])
                /\ n > 1 => heap[kids[n - 1]].name < heap[kids[n]].name
    IN NoneLost /\ \A d \in Reachable : heap[d].first # Nil => ordered(d, Children(Now, d))

\* A file is being opened for output, after the old one has been deleted.
Replacing(path) ==
    /\ queue # <<>>
    /\ queue[1].cmd.path = path /\ queue[1].cmd.op = "open" /\ queue[1].state \in {"open", "resize"}

\* A directory that the cache takes for complete is what the remote directory
\* is (cache_find_dir, cache_next_callback and every handler that changes an
\* entry).  Excepted is what has changed since it was listed and the cache was
\* not told of: by the remote user, by a request that failed and was carried out
\* all the same (other than those of cache_op_remove), and by an open for output
\* that failed when the old file had been removed.
Coherent ==
    \A d \in Reachable :
        heap[d].listed /\ heap[d].current /\ heap[d].failed = None /\ active /\ Disc =>
            LET kids == Kids(Now, d)
                path == PathOf(Now, d)
                judged(p) == ~Replacing(p) /\ \A n \in 0 .. Len(p) : SubSeq(p, 1, n) \notin stale
                shown == {<<Append(path, heap[k].name), heap[k].type>> : k \in kids}
                there == {<<p, remote[p]>> : p \in {p \in Under(path) : Exists(p)}}
            IN (\A k \in kids : heap[k].valid /\ ~heap[k].required /\ heap[k].err = None)
               => {x \in shown : judged(x[1])} = {x \in there : judged(x[1])}

\* A handle stands for the file that the remote end has open.
Held(p) ==
    \/ queue # <<>> /\ queue[1].cmd.op = "open" /\ queue[1].cmd.path = p
    \/ \E h \in Handles : handle[h].used /\ handle[h].file # None /\ handle[h].file = p

\* An open file and its entry know each other (cache_op_open, cache_op_rename,
\* cache_op_close, cache_dir_remove), the remote end has it open until the
\* client closes it, and has nothing open that no handle stands for, except
\* what an open left that failed.
HandleLinked ==
    /\ \A h \in Handles :
         LET x == handle[h] IN
         /\ x.used /\ x.dir # Nil => heap[x.dir].open = h
         /\ x.used /\ x.dir # Nil /\ ~x.folder /\ ~x.over => x.file \in opened
    /\ \A x \in Reachable : heap[x].open # NoHandle => handle[heap[x].open].dir = x
    /\ \A p \in opened \ orphans : Held(p)

\* What an operation says it did has been done (cache_op_*): the reply to a
\* request is used for the operation that sent it, and none is left out.
Truthful ==
    \A o \in Outcomes :
        LET p == o.cmd.path IN
        o.err = None /\ Steady(p) /\ Steady(o.cmd.to) =>
            CASE o.cmd.op = "mkdir" -> remote[p] = "dir"
              [] o.cmd.op = "remove" -> o.asked => remote[p] = "none"
              [] o.cmd.op = "rename" -> remote[o.cmd.to] # "none" /\ remote[p] = "none"
              [] o.cmd.op = "open" ->
                   o.handle # NoHandle => p \in opened \/ handle[o.handle].folder
              [] OTHER -> TRUE

\* An operation that was carried out is not reported as one that was not
\* (cache_op_mkdir, cache_op_remove, cache_op_rename): the error says what is
\* wrong with the remote objects.
Honest ==
    \A o \in Outcomes :
        LET p == o.cmd.path IN
        Steady(p) /\ Steady(o.cmd.to) =>
            CASE o.err = "bad rename" -> remote[p] # "none"
              [] o.err = "exists" -> remote[IF o.cmd.op = "rename" THEN o.cmd.to ELSE p] # "none"
              [] o.err \in {"locked", "not empty"} -> remote[p] # "none"
              [] OTHER -> TRUE

\* The description of cache_find_dir says that details that are not valid are
\* marked as required: so an operation waits for them, and an object that is
\* there is not taken for missing.
ObjectsFound ==
    \A o \in Outcomes :
        LET p == o.cmd.path
            lost == o.err = "missing"
                    \/ (o.cmd.op = "open" /\ o.err = None /\ o.handle = NoHandle)
                    \/ (o.cmd.op = "remove" /\ o.err = None /\ ~o.asked)
        IN Steady(p) /\ lost => remote[p] \in {"none", "dir"}

\* Every operation is called back: as long as some are queued, one after the
\* other is completed (cache_process, cache_next_start).
OpEnds == (queue # <<>>) ~> (done # <<>>)

\* The entries form a tree with lists in order, and open files are linked to
\* theirs, through renaming, removing, merging and requests that fail or are
\* carried out although they failed.  Left out are objects that are put in a
\* list ahead of its first, which cache_dir_add can lose (TreeOK), and a failed
\* read of an entry's details, which gives it the name of an earlier reply.
CacheOK == TypeOK /\ TreeOK /\ HandleLinked

\* What an operation tells its client is what happened, good or bad.
OutcomesOK == Truthful /\ Honest
=============================================================================
