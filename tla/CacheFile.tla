----------------------------- MODULE CacheFile -----------------------------
(***************************************************************************)
(* Data of an open file: the operations of src/cache.c on file handles     *)
(* (cache_op_read ... cache_op_sequential, and cache_op_close as far as it *)
(* sets the size), and the loops of src/unified.c that transfer data in    *)
(* pieces that fit in one request.                                         *)
(*                                                                         *)
(* A handle keeps what is believed of the remote file: the size allocated  *)
(* for it, a multiple of the buffer size, the part of that which is data,  *)
(* and the position that the remote file server has reached, so that no    *)
(* request is spent on a seek that changes nothing.                        *)
(*                                                                         *)
(* Any request may fail, whatever part of it is done, and one that is      *)
(* given up may have been carried out all the same.  The code cannot tell; *)
(* doubt is the history variable that names what it takes for granted.     *)
(***************************************************************************)
EXTENDS Integers, Sequences

CONSTANTS
    Values,     \* bytes that clients write
    Buffer,     \* FS_BUFFER_SIZE
    Piece,      \* RFSV32_MAX_READ, RFSV32_MAX_WRITE and those of RFSV16
    MaxSize,    \* bound on the size of the file
    Lengths,    \* lengths of the transfers that clients ask for
    Sizes       \* sizes and positions that clients set

\* What the constants may be
CacheFileParameters ==
    /\ {Buffer, Piece, MaxSize} \subseteq Nat \ {0}
    /\ MaxSize % Buffer = 0 /\ Lengths \subseteq 1 .. MaxSize /\ Sizes \subseteq 0 .. MaxSize

VARIABLES
    file,   \* cache_file
    job,    \* the operation at the head of the queue
    sent,   \* the request that the remote end has not answered
    store,  \* the file on the remote machine
    known,  \* what clients know to be in the file
    doubt   \* "position", "size": what a request that failed may have changed

fvars == <<file, job, sent, store, known, doubt>>

Zero == "zero"      \* a byte of value 0
Junk == "junk"      \* what a file holds where nothing was written
Unknown == "unknown"
Positions == 0 .. MaxSize - 1

Minimum(m, n) == IF m < n THEN m ELSE n

\* cache_round_allocated
Round(size) == ((size + Buffer - 1) \div Buffer) * Buffer

-----------------------------------------------------------------------------
(* State *)

Shut == [open |-> FALSE, lost |-> FALSE, write |-> FALSE, extent |-> 0,
         allocated |-> 0, sequential |-> 0, simulated |-> 0]
NoJob == [cmd |-> "none", offset |-> 0, length |-> 0, value |-> Zero, state |-> "initial",
          got |-> <<>>, err |-> FALSE]
Nothing == [op |-> "none", length |-> 0, done |-> 0]

Bytes(n, v) == [i \in 1 .. n |-> v]
NothingKnown == [i \in Positions |-> Unknown]
KnownOf(data) == [i \in Positions |-> IF i < Len(data) THEN data[i + 1] ELSE Unknown]

FileInit ==
    /\ file = Shut /\ job = NoJob /\ sent = Nothing
    /\ store = [data |-> <<>>, pos |-> 0]
    /\ known = NothingKnown /\ doubt = {}

\* What a handler leaves behind
Left(f, j, request) == [file |-> f, job |-> j, sent |-> request]
Request(f, j, state, op, length) ==
    Left(f, [j EXCEPT !.state = state], [op |-> op, length |-> length, done |-> 0])
Finished(f, j, err) == Left(f, [j EXCEPT !.state = "finished", !.err = err], Nothing)

\* An operation that is over leaves only what it returned.
Returned(j) ==
    IF \/ j.state # "finished" \/ j.cmd = "close"
       \/ j.cmd \in {"read", "write", "zero"} /\ ~j.err
    THEN j ELSE [NoJob EXCEPT !.err = j.err]

-----------------------------------------------------------------------------
(* Handlers: the next step of the operation j, with reply when the request *)
(* it sent last was answered                                               *)

\* Zeros are returned for what was not there to read.
Padded(j) ==
    [j EXCEPT !.got = [i \in 1 .. j.length |-> IF i <= Len(j.got) THEN j.got[i] ELSE Zero]]

OpRead(f, j, reply) ==
    LET length == Minimum(j.length, f.extent - j.offset)
        done == [f EXCEPT !.sequential = @ + Len(j.got)]
        at == [f EXCEPT !.sequential = j.offset]
    IN IF f.extent <= j.offset \/ j.length = 0 THEN Finished(f, Padded(j), FALSE)
       ELSE CASE j.state = "initial" /\ j.offset # f.sequential -> Request(f, j, "read", "seek", j.offset)
              [] j.state = "done" -> Finished(done, Padded(j), FALSE)
              [] OTHER -> Request(at, j, "done", "read", length)

\* cache_check_sequential
Check(f) == [f EXCEPT !.sequential = Minimum(@, f.allocated), !.simulated = Minimum(@, f.extent)]

Resized(f, extent, size) == Check([f EXCEPT !.extent = extent, !.allocated = size])

WriteBytesAnywhere(f, j) == \* mutant: the position is not noted before the transfer
    Request(f, j, "done", "write", j.length)

WriteBytes(f, j) == Request([f EXCEPT !.sequential = j.offset], j, "done", "write", j.length)

\* The state CACHE_PENDING_STATE_RESIZE
Resize(f, j) ==
    IF j.offset # f.sequential THEN Request(f, j, "write", "seek", j.offset) ELSE WriteBytes(f, j)

\* cache_op_write and cache_op_zero
OpWrite(f, j, reply) ==
    LET end == j.offset + j.length
    IN IF ~f.write THEN Finished(f, j, TRUE)
       ELSE CASE j.state = "initial" /\ f.allocated < end -> Request(f, j, "resize", "size", Round(end))
              [] j.state = "resize" -> Resize(Resized(f, end, Round(end)), j)
              [] j.state = "write" -> WriteBytes(f, j)
              [] j.state = "done" -> Finished([f EXCEPT !.sequential = @ + j.length], j, FALSE)
              [] OTHER -> Resize(f, j)

\* A larger size is asked for, or done is the outcome at once.
Grow(f, j, size, reply, answered, done) ==
    CASE reply -> Finished(answered, j, FALSE)
      [] ~reply /\ f.allocated < size -> Request(f, j, "initial", "size", size)
      [] OTHER -> Finished(done, j, FALSE)

OpAllocated(f, j, reply) ==
    LET size == Round(j.length)
    IN IF f.write THEN Grow(f, j, size, reply, Resized(f, f.extent, size), f)
       ELSE Finished(f, j, TRUE)

OpExtent(f, j, reply) ==
    LET size == Round(j.length)
    IN IF f.write
       THEN Grow(f, j, size, reply, Resized(f, j.length, size), Resized(f, j.length, f.allocated))
       ELSE Finished(f, j, TRUE)

OpSequential(f, j, reply) ==
    LET size == Round(j.offset)
        moved == [f EXCEPT !.simulated = j.offset]
    IN IF j.offset <= f.extent THEN Finished(moved, j, FALSE)
       ELSE IF f.write
            THEN Grow(f, j, size, reply, Resized(moved, j.offset, size),
                      [moved EXCEPT !.extent = j.offset])
            ELSE Finished(f, j, TRUE)

\* The file is given its size before it is closed.
OpClose(f, j, reply) ==
    CASE j.state = "initial" /\ f.write -> Request(f, j, "close", "size", f.extent)
      [] j.state = "done" -> Finished([f EXCEPT !.open = FALSE], j, FALSE)
      [] OTHER -> Request(f, j, "done", "close", 0)

\* cache_process; a handle that was lost with the connection is refused.
Handle(f, j, reply) ==
    IF f.lost THEN Finished(f, j, TRUE)
    ELSE CASE j.cmd = "read" -> OpRead(f, j, reply)
           [] j.cmd \in {"write", "zero"} -> OpWrite(f, j, reply)
           [] j.cmd = "allocated" -> OpAllocated(f, j, reply)
           [] j.cmd = "extent" -> OpExtent(f, j, reply)
           [] j.cmd = "sequential" -> OpSequential(f, j, reply)
           [] OTHER -> OpClose(f, j, reply)

-----------------------------------------------------------------------------
(* The remote file server (external) *)

\* Data of the given size, extended by whatever is on the disc
Sized(data, size) ==
    [i \in 1 .. size |-> IF i <= Len(data) THEN data[i] ELSE Junk]

Written(s, values) ==
    LET end == s.pos + Len(values)
        long == Sized(s.data, IF end > Len(s.data) THEN end ELSE Len(s.data))
    IN [data |-> [i \in 1 .. Len(long) |-> IF i > s.pos /\ i <= end THEN values[i - s.pos]
                                           ELSE long[i]],
        pos |-> end]

Fetched(s, n) == SubSeq(s.data, s.pos + 1, Minimum(s.pos + n, Len(s.data)))

\* Transfers go in pieces that fit in one request (unified_op).
PieceSize == Minimum(Piece, sent.length - sent.done)

\* What the request, or the next piece of it, does to the remote file
Effect ==
    CASE sent.op = "seek" -> [store EXCEPT !.pos = sent.length]
      [] sent.op = "size" -> [store EXCEPT !.data = Sized(@, sent.length)]
      [] sent.op = "write" -> Written(store, Bytes(PieceSize, job.value))
      [] sent.op = "read" -> [store EXCEPT !.pos = @ + Len(Fetched(store, PieceSize))]
      [] OTHER -> store

\* The bound on the file also holds for bytes that are not where they should be.
InBounds == sent.op = "write" => store.pos + PieceSize <= MaxSize

-----------------------------------------------------------------------------
(* Events *)

Idle == job.state \in {"initial", "finished"} /\ sent = Nothing

Apply(next) ==
    /\ file' = next.file /\ job' = Returned(next.job) /\ sent' = next.sent

\* cache_op_open with success, of a file that is there.  For output a new file
\* takes its place, with the space that was allocated for the old one.
Open(mode) ==
    LET size == Round(Len(store.data))
        out == mode = "out"
    IN /\ ~file.open
       /\ file' = [Shut EXCEPT !.open = TRUE, !.write = mode # "in", !.allocated = size,
                               !.extent = IF out THEN 0 ELSE Len(store.data)]
       /\ job' = NoJob
       /\ store' = [data |-> IF out THEN Sized(<<>>, size) ELSE store.data, pos |-> 0]
       /\ known' = IF out THEN NothingKnown ELSE KnownOf(store.data)
       /\ doubt' = {}
       /\ UNCHANGED sent

\* A client calls cache_back, and cache_process begins.  Nobody uses a handle
\* again that was to be closed, whatever came of it.
Call(cmd, offset, length, value) ==
    /\ file.open /\ Idle /\ job.cmd # "close"
    /\ offset + length <= MaxSize
    /\ Apply(Handle(file, [NoJob EXCEPT !.cmd = cmd, !.offset = offset, !.length = length,
                                        !.value = value], FALSE))
    /\ UNCHANGED <<store, known, doubt>>

TransferCall ==
    \E offset \in Positions, length \in Lengths, value \in Values :
        \/ Call("read", offset, length, Zero)
        \/ Call("write", offset, length, value)
        \/ Call("zero", offset, length, Zero)
Arrange ==
    \/ \E length \in Sizes : Call("allocated", 0, length, Zero) \/ Call("extent", 0, length, Zero)
    \/ \E offset \in Sizes : Call("sequential", offset, 0, Zero)
    \/ Call("close", 0, 0, Zero)

\* Bytes are written, or may have been, and the remote position is in doubt:
\* they may be anywhere, also beyond what is allocated.
Astray == sent.op = "write" /\ "position" \in doubt

\* The bytes that an operation writes are known when it succeeds, and those it
\* might have written unknown when it fails.
Learn(j) ==
    known' = CASE Astray -> NothingKnown
               [] ~Astray /\ j.cmd \in {"write", "zero"} /\ j.state = "finished" ->
                    [i \in Positions |-> IF i < j.offset \/ i >= j.offset + j.length THEN known[i]
                                         ELSE IF j.err THEN Unknown ELSE j.value]
               [] OTHER -> known

\* cache_op_callback
Reply(f, j) ==
    LET next == Handle(f, j, TRUE) IN
    /\ Apply(next)
    /\ Learn(next.job)

\* unified_callback for UNIFIED_WRITE and UNIFIED_ZERO
WritePiece ==
    /\ sent.op = "write" /\ InBounds
    /\ store' = Effect
    /\ IF sent.done + PieceSize < sent.length
       THEN sent' = [sent EXCEPT !.done = @ + PieceSize] /\ UNCHANGED <<file, job>> /\ Learn(job)
       ELSE Reply(file, job)
    /\ doubt' = IF Astray THEN doubt \cup {"size"} ELSE doubt

\* unified_callback for UNIFIED_READ: it stops when there is no more.
ReadPiece ==
    LET piece == Fetched(store, PieceSize)
        j == [job EXCEPT !.got = @ \o piece]
    IN /\ sent.op = "read"
       /\ store' = Effect
       /\ IF piece # <<>> /\ sent.done + Len(piece) < sent.length
          THEN /\ sent' = [sent EXCEPT !.done = @ + Len(piece)]
               /\ job' = j
               /\ UNCHANGED <<file, known>>
          ELSE Reply(file, j)
       /\ UNCHANGED doubt

\* The other requests take one command of the file server.
Answer ==
    /\ sent.op \in {"seek", "size", "close"}
    /\ store' = Effect
    /\ Reply(file, job)
    /\ doubt' = doubt \ (CASE sent.op = "seek" -> {"position"}
                           [] sent.op = "size" -> {"size"}
                           [] OTHER -> {})

\* What the code cannot be sure of when a request has failed, and late when it
\* was carried out all the same
Unsure(late) ==
    LET moved == \/ sent.op \in {"read", "write"} /\ (late \/ sent.done > 0)
                 \/ sent.op = "seek" /\ late
        sized == Astray \/ (sent.op = "size" /\ late)
    IN (IF moved THEN {"position"} ELSE {}) \cup (IF sized THEN {"size"} ELSE {})

\* A request fails, also when some of its pieces are done, and in cache_op_close
\* when the size has been set.  One that took too long (share_poll_idle) may be
\* carried out late: before anything else, on a link that keeps the order.
Refuse ==
    \E late \in BOOLEAN :
        /\ sent # Nothing
        /\ late => InBounds
        /\ Apply(Finished(file, job, TRUE))
        /\ Learn(Finished(file, job, TRUE).job)
        /\ store' = IF late THEN Effect ELSE store
        /\ doubt' = doubt \cup Unsure(late)

\* The connection is lost: the request fails, carried out or not, and the
\* handle is of no use.
Lose ==
    /\ file.open /\ ~file.lost
    /\ LET f == [file EXCEPT !.lost = TRUE, !.open = FALSE]
           next == IF Idle THEN Left(f, NoJob, sent) ELSE Finished(f, job, TRUE)
       IN Apply(next) /\ Learn(next.job)
    /\ \E late \in BOOLEAN :
        /\ late => InBounds
        /\ store' = IF late THEN Effect ELSE store
    /\ UNCHANGED doubt

FileNext ==
    \/ \E mode \in {"in", "up", "out"} : Open(mode)
    \/ TransferCall \/ Arrange \/ WritePiece \/ ReadPiece \/ Answer \/ Refuse \/ Lose
FileSpec == FileInit /\ [][FileNext]_fvars

-----------------------------------------------------------------------------
(* Properties *)

\* A handle that a client may use, between operations
Ready == file.open /\ Idle /\ job.cmd # "close"

\* What a handle believes is so between operations: the remote position is the
\* real sequential pointer (a transfer at that place sends no seek) unless a
\* transfer failed half way or late since the last seek, the remote file is no
\* longer than what is allocated unless a change of its size failed late or
\* bytes went astray, and the client's extent and pointer lie within it.
HandleOK ==
    Ready =>
        /\ "position" \notin doubt => store.pos = file.sequential
        /\ "size" \notin doubt => Len(store.data) <= file.allocated
        /\ file.simulated <= file.extent /\ file.extent <= file.allocated

\* What a client wrote with success is in the remote file, in the place it
\* named, whatever fails afterwards, unless the position was in doubt; and a
\* read returns it, with zeros from the extent on.
DataOK ==
    /\ Ready =>
         \A i \in Positions : known[i] # Unknown => i < Len(store.data) /\ store.data[i + 1] = known[i]
    /\ job.cmd = "read" /\ job.state = "finished" /\ ~job.err =>
         \A i \in job.offset .. job.offset + job.length - 1 :
             LET byte == job.got[i - job.offset + 1] IN
             /\ i >= file.extent => byte = Zero
             /\ i < file.extent /\ known[i] # Unknown /\ "position" \notin doubt => byte = known[i]

\* A file that was closed with success has the extent that the handle had, and
\* below that holds what clients wrote.
CloseOK ==
    job.cmd = "close" /\ job.state = "finished" /\ ~job.err =>
        /\ file.write => Len(store.data) = file.extent
        /\ \A i \in Positions : i < file.extent /\ known[i] # Unknown =>
             i < Len(store.data) /\ store.data[i + 1] = known[i]

\* What a handle believes of the remote file is so, and what clients wrote is in
\* it, while it is open and when it is closed (cache_read, cache_write,
\* cache_set_extent, cache_close and the requests of unified.c), whichever
\* requests fail; what a request that failed leaves in doubt is excepted.
FileOK == HandleOK /\ DataOK /\ CloseOK

\* The description of fs_write says that it increases the extent if required:
\* what was written with success lies below it.
Extended ==
    job.cmd \in {"write", "zero"} /\ job.state = "finished" /\ ~job.err =>
        job.offset + job.length <= file.extent
=============================================================================
