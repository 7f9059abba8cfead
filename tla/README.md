# A verification project for PsiFS

PsiFS is a RISC OS filing system that gives access, over a serial line, to the
files, clipboard and printers of a Psion computer. This directory holds TLA+
modules that model it, from the connection protocol up to the entry points of the
filing system, the backups and the filter of desktop messages; TLC
configurations that check them on small instances; and TLAPS proofs of the
main properties of the communication layers for every size of their parameters.
Line numbers are those of the files in `src/src`.

## The system

Everything below runs in one relocatable module, driven by polls: `link_poll`
is called from idle and ticker events of the desktop, and in a loop by every
routine that waits. There are no threads. What makes the code hard is that one
poll goes down through all the layers and up again: a frame is received, the
connection changes state, the multiplexor is started or ended, a callback of
some operation runs and may queue another, or wait, or close the channel it
was called from; and that the other machine, the line and the user's Escape
key do what they like between two polls.

| layer | code | state | operations | hard parts |
|---|---|---|---|---|
| link control | `link.c`, `user.c`, `blockdrive.c`, `baud.c` | active, semaphore, baud table | `link_poll`, enable, disable, next baud | waits that poll; half-ended links |
| frame layer | `frame.c`, `crc.c` | byte states of transmitter and receiver | `frame_poll`, `frame_send`, start, end | resynchronisation, frames cut by a reset |
| connection manager | `connect.c` | handshake state, window, numbers, timer, retries | `connect_poll`, `connect_tx`, start, end | loss, repetition, stale frames, waits inside end |
| multiplexor | `mux.c` | channels, ring of control frames, blocked flags | `mux_poll`, channels, start, end | channels destroyed in callbacks, late answers, full ring |
| LINK channel | `lnkchan.c` | waiting list | register, reply | replies matched by name |
| shared channels | `share.c` with `rfsv32.c`, `rfsv16.c`, `ncp.c` | queue, active operation, time-out, callback depth | create, destroy, back, idle and data polls | nested callbacks, late replies, when the block is freed |
| clipboard, printing | `rclip.c`, `clipboard.c`, `wprt.c`, `printing.c` | transfer states | events of the multiplexor | local and remote updates at once |
| unified access | `unified.c` | chosen servers, versions | start, end, back | the SIBO server is uploaded first |
| operations and cache | `async.c`, `cache.c` | operation steps, buffers | file and directory operations | connection lost between two steps |
| filing system | `fs.c`, `fsentry.c`, `swi.c`, `command.c` | open files | RISC OS entry points | — |
| desktop front end | `*.c++`, `wimpfilt.c`, `backtree.c` | windows, backups | window manager events | — |
| data and support | `sis.c`, `tar.c`, `name.c`, `date.c`, `mem.c`, ... | — | pure functions | edges of conversions |

What makes each of the central layers right:

- connection manager: the window is never exceeded; an acknowledge releases
  exactly the frames the other end has; no message arrives twice or out of
  order; some timer runs in every state that waits; nothing connects an end
  that was ended;
- multiplexor, data: data goes to the channel it was sent to, or nowhere; a
  blocked channel sends nothing;
- channels: a number names one channel, a channel is connected to the server
  it asked for, a share exists exactly while its channel is connected, nobody
  waits on a service that is gone, and a session leaves nothing behind;
- shared channels: every operation is called back once, with its own reply,
  and the block lives exactly as long as somebody may look at it;
- link control: an ended link can be started again.

`PROJECT.json` lists every component with its status, and under `hazards` the
lines where a test would hardly reach.

## The modules

| module | models | form |
|---|---|---|
| `Connect` | one end of `connect.c`, the whole file | one action per branch of each handler |
| `LinkEnd` | `Connect` between two wires, with a multiplexor that sends 1, 2, 3 ... | `frame.c` and `mux.c` as `connect.c` sees them |
| `ConnectPair` | two `LinkEnd`s, the line, lost frames, early time-outs, a pulled cable | composition |
| `Channels` | the control plane of `mux.c` with the users of its channels, `lnkchan.c`, `unified.c`, `rclip.c` and the start and end of `cache.c` | one operator per routine, one action per event |
| `MuxData` | the data plane of `mux.c`: fragments, turns, XOFF and XON | one action per frame or poll |
| `Share` | `share.c` whole (but for the unused `share_fore`), with the poll routine of `rfsv32.c` | one action per event up to a callback, and one for what follows |
| `Unified` | `unified.c`: the steps of each operation; the timers of `timer.c` | one operator per operation, one action per event |
| `Cache` | `cache.c`: the tree of entries, the queue, every operation on objects | scripts of the handlers, one action per event |
| `CacheFile` | `cache.c`: data, sizes and positions of an open file, with the transfers of `unified.c` | the same |
| `Async` | `async.c`: the tree of operations and the twelve kinds | scripts of the handlers, one action per event |
| `Archive` | `tar.c`, `backtree.c` and the backup operations of `async.c` | one action per step that may fail |
| `LinkControl` | `link.c`, `user.c`, `blockdrive.c`, `baud.c`, `idle.c`, and what they use of `frame.c`, `connect.c`, `print.c` | one operator per routine: its outcomes |
| `Entry` | `fsentry.c` and `fs.c` over the queue of `cache.c` | plans of requests, one action per request |
| `Clipboard` | `clipboard.c` and the messages of `rclip.c` | one action per event |
| `Printing` | `wprt.c` and `printing.c` | one action per event |
| `Intercept` | `wimpfilt.c` | one action per message |
| `ConnectProofs`, `ChannelsProofs`, `ClipboardProofs`, `PrintingProofs` | | theorems about the module named |
| `LinkProofs` | | theorems about `LinkControl` and `MuxData` |
| `RequestsProofs` | | theorems about `Share` and `Unified` |
| `FileProofs` | | theorems about `CacheFile` and `Entry` |
| `Induction` | | lemmas that replace induction with an operator as parameter |
| `MC...` | | values for TLC; `MCConnect`, `MCRequests`, `MCData` and `MCLive` run several modules one after another |

A module extends the modules it builds on: `LinkEnd` extends `Connect`,
`ConnectPair` has two instances of `LinkEnd`. The layers above meet in
interfaces instead: what `ConnectPair` shows of the link (messages arrive once and in
order, or the session ends) is what `Channels` and `MuxData` assume of it; the
connection of a channel, made and lost in `Channels`, is `Create` and `Destroy` of
`Share`; a request that `Share` calls back is one step of `Unified`; an operation of
`Unified` is one answer in `Cache` and `CacheFile`; and those are the requests of `Async`,
`Entry` and `Clipboard`. A composition of all of them would be far beyond TLC, and nothing
that crosses two interfaces at once is claimed.

### Connect

`connect_poll` is never re-entered (`link_sema`), so an action need not be
smaller than the part of it between two points where something else can
change the state. `phase` says where it is: `"out"` between polls; after the
received frame is handled `"timer"`; then `"mux"`; then `"tx"`. The variables
are the statics of the file:

| variable | in the code |
|---|---|
| `active`, `enable`, `state`, `connected`, `era`, `retries`, `magic` | `connect_active`, ... |
| `seqTx`, `seqRx` | `connect_seq_tx`, `connect_seq_rx` |
| `timer` | `connect_timer`, and whether `connect_timeout` has passed |
| `ctrl` | `connect_ctrl_frame` while `connect_ctrl_pending` |
| `pend`, `head`, `tail`, `frames` | `connect_tx_data_pending`, `_head`, `_tail`, `_frame` |
| `rxData` | `connect_rx_data_frame` while `connect_rx_data_pending` |
| `out` | the frame that the transmitter of `frame.c` holds; `tx_idle` is `out = NoFrame` |
| `ending` | which wait of `connect_end` is in progress |

The handlers of received frames are `RxAckIdle` ... `RxDataIgnored`, the
time-outs `TimeoutIdle` ... `TimeoutDataAck`, `connect_tx` is `MuxPollTx`
(`mux_poll` sends at most one frame a poll), and `connect_end` is `EndNow`
(`connect_end(TRUE)`) or `EndBegin` followed, between polls, by `EndMux`,
`EndData`, `EndDisc` or `EndEscape`, one for each way out of its waits. A received frame
is any frame at all, at any time: what is true of `Connect` is true whatever the
remote machine does. `MuxMayFail` says whether `mux_start`, `mux_end` and
`mux_poll` may return an error.

Left out: the contents of messages (a set `Data`), statistics and pollwords,
the length of time-outs, the speed of the line, and messages longer than one
frame (`mux.c` splits them).

### LinkEnd and ConnectPair

A wire is a sequence of frames. The transmitter puts its frame on it, or loses
it (`Lossy`: the CRC makes a damaged frame a lost one). The multiplexor hands
over the numbers 1, 2, 3 ... and keeps what it is given in `got`. A poll of one
end touches the other only through the wires, so polls of the two ends are not
interleaved (`phaseB = "out"` in `StepA`).

Time is the difficulty. A time-out of `connect.c` that comes when the answer
has had the time to come is an `OnTime` step; one that comes sooner, and a
pulled cable, is a fault, and there are at most `FaultMax`.

### Channels

The handlers of `mux.c` run one at a time but nest: a frame ends a connection,
`share_destroy` fails the operations that wait on it, and a callback of one of
them ends another channel. So the state of PsiFS is one record, `mux`, each routine
(`ChanCreate`, `ChanDestroy`, `UnifiedEnd`, `RegisterFailed` ...) is an operator
from records to records, and an action composes the routines that its handler
calls. `phase` splits `mux_poll` in three: the received frame, the idle polls
and `unified_poll`, the transmission.

| field of `mux` | in the code |
|---|---|
| `up`, `era` | `mux_active`, `mux_era` |
| `ending` | `mux_end` is in `mux_wait_idle` |
| `ctrl` | the ring `mux_ctrl`, from `mux_ctrl_read` to `mux_ctrl_write` |
| `open` | `mux_channel_list`, and `lnkchan_active`, `rfsv32_active`, ... |
| `num`, `client`, `server` | `chan`, `client_chan`, `server_chan` of each channel |
| `share` | the share handles that are not `SHARE_NONE` |
| `regs`, `uploads` | who waits for `lnkchan_register`, for `upload_file` |
| `retried` | `ncp_retry`, `rclip_retry` |
| `unified`, `partial`, `connected` | `unified_active`, ... |
| `cache` | `cache_active` and `cache_connected` |

Of the data frames only one thing is kept: an operation that waits succeeds
(`Registered`, `Uploaded`) or fails. A callback that finds its channel freed
uses what is left in its record; `Registered` and `Uploaded` choose between a
connect request with the old number and nothing. `inbox` and `remote` are the
other machine: it answers or refuses connections, drops them with a
disconnection frame as `mux.c` understands it or a termination frame as
`plp.html` describes it, ends its NCP, connects to our LINK server, and may turn out to be
of the other dialect. The link delivers in order and once, which is what
`ConnectPair` shows of it, and may be lost at any time (`SessionLost`).

Left out: `wprt.c`, whose channel does less than that of `rclip.c`, errors for
lack of memory, and the wait of the user for an operation.

### Share

A callback is arbitrary code in the middle of an event. `calls` is the stack
of callbacks in progress; while it is not empty, the innermost may queue an
operation (`Back`), close the channel (`Destroy`) or return (`Return`), and
`Return` performs what the interrupted event does after the call, which is
where `share_tidy` decides whether to free the block. `closing` marks the loop of
`share_destroy`, which itself makes calls. `wire` holds the requests that the
server has not answered. `threads`, `active`, `pending`, and `timer` are the fields
of the block; `linked`, `handle` and `allocated` say whether it is on
`share_handle_list`, whether the channel's variable points to it, and whether
it has not been returned to the allocator. `Numbered` distinguishes `rfsv32.c`, whose
replies carry the request's number, from `rfsv16.c` and `ncp.c`, whose do not.

### MuxData

A message is a number of frames, and a frame knows its place in it. `chan` holds
per channel the server it is connected to, the frames in its receive buffer and
the message it is sending (`mux_channel_status`); `last` is the turn
(`mux_channel_last`), `blocked` the servers that have sent XOFF (`mux_blocked`). The frames
that the remote machine sent and that were not polled are `frames`, in one
queue, because the connection keeps their order across channels. `given` is what the poll
function of a channel was given last if it was not a whole message, so that it stays empty when
all is well. `RxData`, `RxXoff`, ... are the branches of
`mux_poll_rx`; `Tx` is `mux_poll_tx_data`. The remote side is external: a server answers a
request with a message, stops and restarts a channel, and disconnects.
`Unasked` and `Stale` name two things that a remote server might do and does not (a message
that answers nothing; a disconnection while we are stopped); with either, the code
loses a fragment or a restart, see below.

### Unified

`ops` are the structures of `unified_private`: `index`, `delay`, `timeout` and `handle` with the
request last sent. `FirstRequest` is `unified_begin`; `DriveReply`, `ListReply`, ... the cases of
`unified_callback`; each returns what the handler does next: ask a server,
set a timer, or call back. `timers` is `timer_active_list`, with the tests of `timer_poll`
as they are (only the head is looked at). `server` is what is left on the remote machine:
directories that are open, tasks that run.

### Cache and CacheFile

The state within an event is one record; `Process` runs the handlers of the
operation at the head of `queue` until it waits or ends, and `Best` picks the next
detail that is to be read. `heap` has the entries with the links of the C structures
(`next`, `prev`, `first`, `parent`), because what `cache_dir_add` and `cache_dir_remove` do
to them is one of the things that can be wrong. `next`, `pending` and `result` are the single
request below, whether it is for the head of the queue, and its reply. `remote` is
what is on the remote disc, and `opened` which files it has open; `Volatile` paths change by the hand of its user.
A request may fail and be carried out all the same (`Unanswered`), because `share_poll_idle` gives up requests that
the server still works on. Three history variables name what the cache is not told of: `stale` has the paths that
changed behind its back since they were listed (by the user, by a failed request that came off, by an
open for output that got no further than the removal), `orphans` the files that an open that failed left open at the
remote end, and `over` the handles that a client has asked to close. `RecacheBusy`, and the read of an entry's
details ("info") in `Failing`, break a property that the code keeps otherwise and are left out of the
standard run, as are objects that are put in a directory ahead of its first.

`CacheFile` has one handle: `extent`, `allocated`, `sequential` and `simulated` are its fields, `store` is the remote
file with its own position. Any request fails at any time (`Refuse`), after any of its pieces, carried out or
not, that of `cache_op_close` too. `known` is what the clients may rely on: what was in the file when it was opened, then
what they wrote with success. `doubt` is what the code takes for granted and cannot know: "position" after a transfer that
failed half way or late, until the next seek; "size" after a request for a size that failed late, or bytes that went
astray, until the next one. `FileOK` excepts only that.

### Async and Archive

An operation is a structure in the tree `op`; `Run` performs an event to its end with an
explicit stack, because a child that finishes calls its parent, which may
abort it and start another in the same C call. `status` is the status that `async.c`
reports, with the two kinds of waiting told apart (`below`, `child`). What the layers answer
is in the sets `Answers`. The handlers are translated as the script of each kind:
its stages in order, with the errors that each may meet. `held` are
local files, archives and trees; `open` the remote files. `Archive` is about
what those scripts write: an archive is a sequence of blocks (headers, data, the
end marker), the previous one is copied entry by entry to the new one or to the scrap, and the rest
of the tree follows from the remote.

### LinkControl

Each routine has a set of outcomes, records of the resulting link, of the error and of the
faults that were spent (an Escape or an error at each place where the code waits). A command or
the idle callback is one step that picks an outcome. `link` is the statics of the files with the names
in the comment of `Inactive`; `halved` notes that an end of the frame handler failed half way.

### Entry

An entry point is a plan: the requests that its handler makes of the cache, each one that
must succeed, may fail, or always follows. The plans are the paths through the handlers of
`fsentry.c`, whose conditions on data are a free choice. `fore` is the static block of `fs.c`, to which
the queue holds pointers: a request that Escape left in the queue runs with whatever is in the block then.

### Clipboard and Printing

In `Clipboard`, `here` has the flags of `clipboard.c` and of `rclip.c`, `device` is the remote machine with its
clipboard file, and a file is a sequence of blocks that carry the version they
belong to, so that a mixture of two versions shows. In `Printing`, `host.jobs` is the list of `printing.c`,
`disk` the files of the pages, and the rest is `wprt.c`; the remote server sends pages in
pieces, and the first page of each job is the same. `noted` and `upset` remember the events that excuse
a property; each is one of the shortcomings listed below.

### Intercept

The tasks and the messages between them are there with the filter: a message
goes through `wimpfilt_post`, which may hide it, change it, or send others. `icept` are the intercepts,
`claimed` the claims of clients, `files` what each file holds and `got` what the receiver
of a transfer was given.

## The runs

| run | checks | result |
|---|---|---|
| `connect` | `TypeOK WindowOK SeqOK AckOK TimerOK RetriesOK ConnectedOK NoLateConnection InOrderOnce AckedIsDelivered` | hold |
| `connect_end` | `EndOutlivesConnection` | violated: finding 1 |
| `live` | `ConnectedDelivers Settles` | hold |
| `channels_end` | `EndedOK` | violated: finding 2 |
| `requests` | `ShareOK UnifiedOK MuxOK OwnReply Progress` | hold |
| `async` | `AsyncOK OutcomesOK BackupComplete LiveCallbacks EndedIsFreed` | hold |
| `async_end` | `EndedCalls` | violated: finding 3 |
| `cache` | `CacheOK Coherent OutcomesOK OpEnds` | hold |
| `cache_missing` | `ObjectsFound` | violated: finding 4 |
| `files` | `FileOK` | holds |
| `file_extent` | `Extended` | violated: finding 5 |
| `data` | `ChannelsOK LayersOK RightServer EndedOK InterceptOK LinkOK EntryOK ClipboardOK PrintingOK ArchiveOK` | hold |

`connect`, `requests`, `data` and `live` run modules that have no variable in common one after another: `part`
is chosen at the start and says which. Each property is about one of them and holds trivially in
the states of the others, so nothing is shown by the mixture that separate runs would not show.
A mutant of the code for each property (a definition with a suffix in its name and the comment
"mutant") violates it under the same configuration; the pairs are in `PROJECT.json`.

### Bounds

- `connect`, one end: sequence numbers modulo 3 and 2 for 2048 and 8, a window of 2 and
  1 for 5 and 1, 2 retries for 4 and 8, one message, two magic numbers (the one
  we have and another; they are symmetric). The window is smaller than the
  number space, as in the code, and both wrap within a few steps; with two frames in the
  window an acknowledge can release none, one or both; two retries give a
  retry and a last one. `TransmitView` keeps of `out` only whether it is
  empty: no action of `Connect` looks at the frame being transmitted, so states that
  differ in nothing else have the same futures.
- `connect`, two ends: three messages one way, so that the numbers of the SIBO dialect
  wrap, and one the other way; two frames on a wire, one early time-out or
  pulled cable. The bound on faults matters: with two faults
  `AckedIsDelivered` fails, because an acknowledge of an earlier connection
  that is still on its way completes a handshake in `CONNECT_IDLE_REQ` (lines 349-358)
  that the other end knows nothing of. The protocol has no defence against that
  (nothing in an acknowledge names a connection), and its documentation
  claims none. `InOrderOnce` is about what arrives.
- `data`, the channels: two control frames on their way, so that a connection may be
  asked for while the information frame is unread, and two answers may cross.
  The queue `ctrl` needs no bound: requests wait for their answers. `mux_end`
  is not called again while the termination frame of an interrupted call is queued.
  With `EndAfterInfo` a session is not ended before the information frame has
  come; without it `EndedOK` fails, which is finding 2. `DataView` leaves
  out the number and the retry flag of channels that are closed and that
  nobody waits for, and the dialects and the ring while there is no session:
  all are set again before they are next read.
- `requests`: `Share` with four operations, so that one can be active, one pending
  and one queued by a callback while another is being called back, and request numbers
  modulo 4, which four operations cannot use twice (in the code it takes 65536 requests).
  `MuxData` with two channels and two servers, messages of up to two frames, a buffer that
  holds the longest message and three frames on their way: a disconnection can stand between two
  fragments, and a reconnection to the other server before the second. `Unified` with two operations,
  three entries of which two fit in a reply and buffers that hold two or three, so that a listing
  ends inside a reply, between two, and for lack of room; one failure.
- `async`: five structures, two levels of directories with two files and one, a previous
  backup with one unchanged file and one that is newer on the remote machine, one of everything else: each
  loop is taken once, and again.
- `cache`: a directory with a file in it, a file that is opened, renamed and removed, and a path with
  nothing; one operation queued and one disturbance at a time. `<<1>>` is there from the start and always the first of its
  list, so that nothing is added ahead of it, which the lists do not survive (see below). Requests of every stage of every
  operation may fail, but for the read of an entry's details.
- `files`, `file_extent`: a file of up to four bytes with a buffer of two and pieces of one, so that a
  transfer takes two requests, may fail between them, may start within the last buffer or beyond it, and
  a size may end within a buffer. Failures are not counted: any request may fail. One that is carried out late is so when
  it is given up, before the next request, as a link that keeps the order of requests makes it look.
- `data`, the other parts (which may stop, so `MCNext` lets them stutter; the channels may not): see the instances
  in `MCData`: two Escapes or errors in a link command;
  two changes and one fault of the clipboard; three jobs and one fault in printing; two backups of a
  directory with a file and a file beside it, with one change and one fault. They are what two
  actors need to meet twice.

### Fairness

- `connect_end`: polls start and run to their end, because
  `link_poll` is called from idle events and from the wait loops themselves;
  time passes; a transmitter with room drains; a wait whose condition holds
  ends, because the loop tests it after each poll. A multiplexor with room in
  the window serves its control ring first (strong: the room comes and goes).
- `live`: each end goes on while it has something to do; what is on a
  wire arrives and what is being transmitted gets onto the wire (strong, as
  both wait for polls to end); a multiplexor with a message sends it when there
  is room (strong); time passes when nothing is in flight. The entry points, the
  idle callback, the tasks of the desktop and the transfers of the clipboard go on, because
  they are called from polls. The fair actions are guarded by `part`.
- `requests`: idle polls come again and again, begun events go on, callbacks
  return, time passes. Nothing is asked of the server that answers an operation of `Share`:
  the time-out does. `MuxData` asks that a poll transmits again and again.
- `async`: requests are answered; a paused or waiting operation is not obliged to end.
- `cache`: requests are answered, and polls come as long as they have something to do (written with
  `[]<>`, because the conjunction of the enabledness of a large action is slow to evaluate).

## The findings

1. *`connect_end` may wait for ever* (`mux.c` 1156). If the connection is lost
   while `mux_end(FALSE)` waits for its control ring to drain, the same poll
   ends the multiplexor under the wait and the ring never drains. Only Escape ends it.
2. *A session that ends can restart itself* (`mux.c` 659). While `mux_end` waits
   for its last frames to be sent, an information frame of the other dialect
   starts `unified.c` again. The file service channel it creates takes number 1,
   is never destroyed, and makes the next `mux_start` fail.
3. *An operation that is ended is freed while its timer runs* (`async.c` 3503). A write and start
   operation keeps its finished child linked while it waits for a request of its own, and
   `async_abort` takes that for waiting for the child; the block is freed, and the callback reads it.
4. *Objects that are there are not found* (`cache.c` 828). While the entry of the directory
   itself is to be read again, `cache_find_dir` reports that the object does not exist instead of waiting:
   a removal then succeeds without asking the remote machine, and a file is not opened.
5. *A write that is cut off* (`cache.c` 3465). A write beyond the extent but within the allocated size does not raise the
   extent, and the close cuts the file to that.

## The proofs

Each theorem holds of its module's specification for all values of the constants that its
hypotheses allow. `tlapm` checks them to the last step.

| module | theorems | property of a run | hypotheses beyond the ASSUMEs |
|---|---|---|---|
| `ConnectProofs` | `TypeCorrect` `WindowCorrect` `NumberingCorrect` `RetriesNeverWrap` `TimerAlwaysArmed` | `TypeOK` `WindowOK` `SeqOK` `RetriesOK` `TimerOK` | |
| | `AckNeverStale` `MuxFollowsConnection` `NeverLate` | `AckOK` `ConnectedOK` `NoLateConnection` | `~MuxMayFail` |
| `RequestsProofs` | `TypeCorrect` `BlockKept` `EachCalledOnce` | parts of `ShareOK` | |
| | `ClosedEmpty` `ShareSafe` | `ShareOK` | `~CallbackMayFail` |
| | `RepliesMatch` | `OwnReply` | `Cardinality(Ops) <= IdMax + 1` |
| | `UnifiedSafe` | `UnifiedOK` | `UnifiedParameters` |
| `ChannelsProofs` | `ChannelsSafe` `LayersHold` `ServerHolds` `EndedClean` | `ChannelsOK` `LayersOK` `RightServer` `EndedOK` | `EndAfterInfo` |
| `LinkProofs` | `LinkControlled` | `LinkOK` | `LinkParameters`, `Speedy` |
| | `MessagesWhole` | part of `MuxOK` | `MuxDataParameters`, `~Unasked` |
| | `MuxSafe` | `MuxOK` | also `~Stale` |
| `ClipboardProofs` | `ClipboardSafe` | `ClipboardOK` | `ClipboardParameters` |
| `PrintingProofs` | `PrintingSafe` | `PrintingOK` | `PrintingParameters`, `~Rough` |
| `FileProofs` | `FileSafe` | `FileOK` | `CacheFileParameters` |
| | `EntrySafe` | `EntryOK` | `EntryParameters` |

The hypotheses are facts about the code or the remote machine, and each is needed:
a callback that closes its channel and returns an error leaks the block (`share.c` 218); request numbers are reused
after 65536 requests; a session that is ended before the remote's information frame came is
finding 2; a block driver that states no speed divides by zero (`link.c` 115); for `Unasked` and
`Stale` see the list below; for `Rough` see `PrintingProofs`. `MuxMayFail` is an error of `mux_start` or `mux_end`, for lack of memory.

### ConnectProofs

For every window, number space, retry count and set of messages that satisfies the ASSUMEs of
`Connect` (the window is smaller than the
number space, which is smaller for SIBO than for ERA, and the retry counts are positive).
The first five rest on `Invariance`, the induction on `IInv`, their conjunction.
They need each other: `SeqOK` is kept by `connect_tx` because `WindowOK` bounds
the frames in the ring, so the new frame is put in a slot that is not in
use; `RetriesOK` needs the equivalence between `data_ack` and a window in use;
all need the types for the arithmetic. Most of the work is the
ring: `Used` and `Sent` are differences modulo the number of slots, and the lemmas
`AtDist`, `DistAt`, `DistFromAt` ... say how positions and differences
undo each other, from `ModTwice` (the remainder of a number below twice
the modulus). Each handler then has a lemma of its own that says
which part of `IInv` it may disturb and why it does not.

The last three rest on `Handshake`, the induction on `HInv`: `ConnectedOK` and `AckOK`
strengthened with two facts. An end that is ending is not enabled (so
that the handshake cannot complete under a wait), and the supervisory
slot never holds an acknowledge in the states of the handshake (so that none
is out of date when a connection is made). Both are false of a
multiplexor that fails: if `mux_end` fails during a reset, the multiplexor goes on
running on an idle link.

### RequestsProofs: Share

`ShareOK` says that the block is not used after it is freed and that nobody is called twice. What makes it inductive
is `BlockInv`: the callback of a `share_destroy` is always the innermost one, and the channel's variable
points to the block until that loop is done; with `threads` equal to the height of the stack, the last
`Return` frees it and no earlier one. `PlacesInv` says that an operation is in
one place only, and `ClosedInv` that a closed channel has none. `RepliesMatch` counts: with `k` operations started, the
number of the request sent last is `k` modulo `IdMax + 1`, and those on the wire have smaller `k`; as
long as there are no more operations than numbers, two of them cannot share one.

### RequestsProofs: Unified

Operations meet only in the list of timers, so `FitsAll` says of each operation alone how what it is doing
fits what the servers and the timers know of it: it has a request out or a timer set and not both (`Waits`), what it has read of a directory is its
beginning, which is open only while it is read or closed (`Lists`), the drives it has asked are all up to its own (`Asks`).
For the handlers, `Moves` says the same of what a handler asks for. A handler is a function of the
operation and the reply, so its lemma is about any operation and any reply that is so
(`Good`; `RepliesFacts` shows that replies are); `OneMoves` puts it back among the others.
The timers are a sequence in which no operation occurs twice (`SetFacts`, `DropFacts`).
The hypotheses are the types in `UnifiedParameters`, with delays, a
block of entries and a number of drives that are not 0 (`unified.c` 122-124: a delay of 0 would be no
timer in the model). The order of the sorted listing is whatever `Sorted` makes of the directory.

### ChannelsProofs

The state is one record and a handler a composition of routines, so the proof has a lemma for each routine
that says what it leaves of the record it was given (`Unserved`, `Removed`, `FilesGone`, `CacheGone`,
`UnifiedGone`, `Ended` ...), and the lemma of an action puts those together. The inductive invariant
is `Good(mux)` with what is on its way (`InboxOK`, `OtherOK`, `OverOK`). `Numbered` carries the weight: channels are created in an
order that gives each the number that the remote gives its server, so that a late answer names the right server even when the number was
reused, which is all that protects `RightServer`. Inside a handler less holds: while `share_destroy` fails
the users of a service one by one, some still wait for what is gone. Hence `Sound`, which
routines keep, and `Good`, which holds between handlers.

### LinkProofs: LinkControl

A routine is a set of outcomes, each with an error or not, so its lemma is about all of them:
`Loaded`, `Started`, `Ended`, `Disabled` say what every outcome has in common and what one without
error has besides. The speeds come from a recursive function over a list (`BaudList`), for which
`Induction` gives the run. The search for a speed needs `Speedy`.

### LinkProofs: MuxData

All channels share one queue of frames, so the invariant says of each channel which frames of the queue are its
own and how they continue each other: what is in the receive buffer is the first frames of
a message (`Owned`), the frames in the queue continue it in order (`Ordered`), after a disconnection
follow none before the next connection (`Linked`), and what the server has still to send continues the last in the queue (`Peered`).
`Stops` is the same for XOFF and XON: the last one on its way, or else `blocked`, is what the server wants.
A step concerns one channel or one server, and lemmas about a queue that
loses its head or grows at its end carry the rest.

The proof found an error of the model: a channel that is not connected could be connected by two servers in
turn before it had received the first answer, because the model let the remote answer a request that
had not been made. The poll functions ask once (`rfsv32.c`, `ncp.c` and the others ask again only when
they are told that the connection ended), which is the condition `Asks` now.

### ClipboardProofs

`ClipboardOK` speaks of moments when nothing is on its way. `IInv` says what holds in between. For the file
(`ContentOK`): a transfer that is `Live`, that is, one whose result will be called synchronised, has copied the
blocks before `block`, from what the local clipboard still is or from what the remote file still is. For the channel
(`WireOK`): at most one registration and one notice are on their way, so that the reply to a notice
cannot be taken for another. And `ToldOK`: what was written is announced, or the announcement is due. A change at
the remote end during a transfer is no exception to these: it makes the transfer not `Clean`
until the server has told of it, and then `required` makes it not `Live`. Each state of `clipboard_callback` has a lemma
about any state `h` that is `Good`, which `CallbackStep` puts together with what follows when a transfer ends
(`TransferGood`, `TidyGood`).

The proof found an error in an excuse of the model: a second `clipboard_copy` that failed altogether cleared the note
that the first one had not set the type of the file (`untyped`), with which the property is false. TLC
finds it with three changes and two faults, more than the run has.

### PrintingProofs

`PrintingOK` speaks of pages that are finished. `PrintingIInv` says what holds between packets, in four parts that
need each other. `Shelf`: the jobs in the list have their pages one after another, none but the newest is still being
written, and the files on disk are exactly theirs. Hence a file is of one job, and deleting a job takes
nothing from another (`DeleteFacts`, `Descends`). `Flow`: packets are asked for while there is a job to put them in, or a client has one to accept.
`WireOK`: at most one request or answer is on its way, behind a "stop" perhaps, and a
packet has the piece that comes next (`Coming`), after which the server is where the packet leaves it (`Beyond`). `Sync`: when nothing is on its way
both ends agree on that piece (`Synced`), and the page being written has the pieces before it
(`Written`).

Cancellations are why it is long. A client may cancel while a packet is on its way, the remote while wprt.c has asked for the
next, and what wprt.c still gets of the old job must not go into the new one. As long as a cancellation is to be sent or on its
way (`Due`) packets are suppressed (`Kept`), and the answer to it ends the page, so that the
next packet is the reset of a job. This holds only while nothing is `local` or `crossed`, the two
excuses that `PrintingOK` makes for `PagesOK`; the rest of the invariant, from which `FilesOK` and `FlowOK` follow, holds regardless.

`~Rough` is two assumptions that the code makes of others: a client does not cancel a job of which it has not
read (`printing_cancel` would free the job twice), and the last packet of a cancelled job has the rest
of its page (a shorter one is an error, for which `wprt_receive` calls `printing_cancelled` although the packets are
suppressed; that cancels whatever job is the newest, if need be one that was complete).

### FileProofs: CacheFile

`FileOK` speaks of a handle between operations, and of what a read gives and a write leaves. In between an
operation is a sequence of requests of the cache, each of which is a loop of `unified.c` over transfers: seek, change the size,
read or write a piece, and so on. `FileInv` says for each state of the client's operation what the
handle believes, and for each kind of request that is sent (`Underway`) how far it has come: what is different at the
remote end from what the handle believes, and that it will be what the handle is to believe when the
answer comes (`Reading`, `Writing`, `Arranging`, `Closing`). So a write that has done `done` of its bytes has moved the position by
as much, and the file has the new bytes up to there (`Begun`) and, everywhere else, what the clients may count on (`known`).
Requests fail at any point, late or half way, and nothing is assumed of that: each fact about the remote position or
size holds as long as it is not in `doubt`, and the steps show that what fails adds to `doubt` all that it disturbs.
The case that needs care is a write while the position is in doubt (`Astray`), whose bytes may be
anywhere: after it nothing is known of the file, until a client writes again. A close that fails after its
size has cut the file leaves a handle that no client uses again. `AtRest` is what is left of an operation: for a
close, that the file has the extent and below it what was written. What `FileSafe` does not say is that the
extent covers what was written (finding 5), nor that the place of a transfer is right while it is in doubt.
Each handler has a lemma of its own for each
state in which it may be called (`ReadStarts`, `ReadSought`, `ReadFinishes`, `WriteStarts` ...), and the lemmas about
files (`WrittenFacts`, `FetchedFacts`, `SetSizeFacts`) say what is kept of the bytes that are known.

### FileProofs: Entry

`EntryOK` speaks of an entry point that has ended. While it runs (`Tracked`), if
nothing of an earlier one was queued when it began, cache_fore's operation is in the queue exactly once while the entry
point waits for it and has not been told, and else it is not (`QueuedOnce`); the command block
says what it was queued for (`Asks`), so that the queue does what was meant although it looks at
the block only when it gets there; and the plan was done up to the step before (`Done`). `ClosesAtEnd` needs that no plan goes on
after its "always" step and that this step is a close (`PlansClose`), for any lengths of the searches.
`ProcessOne` says what `cache_process` does with the one operation, wherever it
stands among those of others. Escape breaks `QueuedOnce`: the operation stays. That is why the
property is about entry points that begin clean, and the proof shows that this is all it needs.

### Induction

None of the provers can instantiate the library's induction theorems, which take an operator as a
parameter. `Least` (every nonempty set of naturals has a least element) follows without
one from the well-foundedness of the subset relation of finite sets; with it an induction is a proof by contradiction on the least
exception. `Run` uses it to show that a recursive function over `1 .. N` exists and stays in its
set.

### Only model-checked

- Everything that ends in fairness (`EndOutlivesConnection`, `ConnectedDelivers`, `Settles`, `Progress`,
  `EndedIsFreed`, `OpEnds`): TLAPS does not prove liveness here.
- `InOrderOnce` and `AckedIsDelivered`: they depend on the bound of faults and on the
  guards that say which time-outs are early, and their invariant is about
  two histories and two wires at once.
- `Async` and `Cache`: their steps are recursive operators over a stack or a heap, which TLAPS does not
  reason about; rewriting `Run` as a function over all states would not make it a provable one.
- `ArchiveOK`, `InterceptOK`: in reach, see the plan.

## Met while modelling, with no run

Each is a state that a module can be made to reach by a constant that is named, or by removing
the excuse from a property.

Connection and multiplexor. The counter of retransmissions is decremented before it is tested, so
there is one fewer than `plp.html` says (`connect.c` 791). A confirm is ignored in the state that
waits for one (`connect.c` 582). `mux.c` handles the termination frame of a server as if a
client had left (612). A second connect response overwrites a share. `ncp_start` does nothing
while `ncp_active`. A server that sends a message nobody asked for while the channel waits to
send loses us one of its frames and not the others (`mux.c` 888; `Unasked`). A server that
disconnects while it has stopped us leaves its number blocked (`mux.c` 476; `Stale`). A data frame for a channel
without a server reads an uninitialised frame number (901). A disconnection frame that
names server 0 matches an unconnected channel (676).

Shared channels and uploads. A timed-out operation frees the channel although its server still works
(`share.c` 198); `share_back` returns an error instead of calling back when the channel is closed; nothing calls
`share_fore`. A failed upload leaves a partial file on the remote machine; a callback that returns an
error for a request that failed at once makes `upload_done`, and likewise `unified_done`, run twice.

Link control. No wait sleeps; Escape in `connect_end` or `frame_wait_idle` leaves the mode at LINK with the manager
ended; a failing `link_wait_idle` in `link_disable` leaves the link active without a user; `print_start` failing
while active leaves the mode at PRINTER; `enable_print` keeps the speeds of the remote link; the error of `connect_end`
is overwritten; the wait loop at `link.c` 644 inside a poll does not end; `link_poll` calls
`escape_check` whatever its parameter says; an update of a poll word cannot fail.

Unified access and timers. A due timer behind a longer one expires late (`timer.c`); STOP reports success when
its time is over and the task still runs; ZERO uses the length of another command.

Cache. `cache_dir_add` at the head of a list leaves the `prev` of the old head as it was (`cache.c` 1024): when that is
removed, `cache_dir_remove` takes it for the first, and the new entry is lost from the tree without being freed (936; `NoneLost`
fails when `mkdir` makes an object ahead of the first of its directory). When an open for output fails after the removal the
entry of the file that is gone stays valid (2985; `stale`); when the size request after the open fails the handle is freed and
the file stays open at the remote end (3071; `orphans`). The remote position is noted before a transfer and trusted after it failed:
the next transfer at that offset sends no seek and is done where the pointer was left (3504; `doubt`).
The reply to an open is consumed while `find_dir` says to wait
when `cache_recache` comes between (`RecacheBusy`); a failed INFO copies the stale
reply (`Failing`); `if (err) err = child->err` (868) is never true; a failing stamp after the close leaves the handle linked; handles without a directory are never freed;
before the first DRIVE reads return `err_drive_empty`; the merge of a listing reads `to->next` of a freed entry; the refresh
time never inhibits a refresh. The open of an existing file takes the rounded size for allocated.

Entry points. ENSURE truncates a longer file; a close whose stamp fails leaves the file open; CREATE_FILE removes
the old file first; Escape during its open loses the handle; GBPB with a position beyond the extent underflows;
`fs_drive_info("*")` ignores errors; WRITE_CAT on a missing object reports success; after Escape
the queue still points at the static command block.

Operations and backups. An abort during CACHE_OPEN never closes the remote file, and one during the normal CACHE_CLOSE
closes it twice; an aborted restart with removal deletes the task list; a paused handle can be ended while a request is
outstanding. A write that fails leaves a malformed archive that is then the previous one; the error
of `tar_close` is ignored (`Rough`); a file that changes while it is read may be torn; `backtree.c` compares names
with wildcards. Read, not modelled: after a partial incremental backup the next one deletes the
new scrap (`backcfg.c++` 721-766); an aborted backup with one version deletes the previous complete one; an
operation goes on when the disc is changed; a shutdown that fails does not reopen the closed files.

Clipboard, printing, filter. Replies to LISTEN while a notification is active are ignored (`missed`); the
acknowledgement of an older NOTIFY clears the request for a newer (`untold`); `clipboard_settype` may fail after the
local file is replaced (`untyped`); read errors are never retried. A job that is cancelled before it is read is freed twice, a short last packet while
suppressed cancels an earlier complete job (`Rough`); a cancellation survives the reset of the next job and hits that (`crossed`); a local write failure
makes `wprt.c` lose its place (`local`). `wimpfilt.c` sends DataSaved to the receiver though its comment names the sender
(1262-1308); both keys held lose the message; a release while a restart is under way lets a false message through
(`Releases`); an intercept whose sender dies stays.

## Not modelled, and the plan

Not modelled: errors for lack of memory and errors that callbacks return (but for
`CallbackMayFail`); the bytes of frames (stuffing, CRC) and of requests; the configuration and windows of backups, conversions
and printing, which depend on a class library that is not in the repository;
`sis.c` and the other parsers; names, dates, attributes, code pages; commands and SWIs, which
decode arguments.

Still to do:

1. Theorems about `Intercept` (what an intercept is for each of the states of its message) and `Archive` (its invariant is what
   the archive holds after each block that was written).
2. `LinkAbstract`: the promise of the link to the multiplexor (a queue each way that a
   reset may empty), implemented by `ConnectPair`.
3. `Frame`: the receiver's and transmitter's states over byte classes (DLE, STX,
   ETX, SYN, other); a transmitted frame is received, whatever was received before it.
4. The eight steps of an upload and what a failure in each leaves behind.
5. Bounded checks of `wildcard.c`, `date.c` and `name.c` against definitions.
