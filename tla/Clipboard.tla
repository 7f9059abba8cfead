----------------------------- MODULE Clipboard -----------------------------
(***************************************************************************)
(* The clipboard shared with the remote device: clipboard.c keeps a local  *)
(* copy and transfers it from or to the remote clipboard file through the  *)
(* directory cache (cache_back); rclip.c talks to the remote clipboard     *)
(* server, which tells of changes and is told of them.                     *)
(*                                                                         *)
(* The two use different channels, so that what the server says and what   *)
(* the file server answers pass each other.  A file is a sequence of       *)
(* blocks, each the version of the clipboard that it belongs to.           *)
(***************************************************************************)
EXTENDS Integers, Sequences

CONSTANTS
    Blocks,         \* blocks of CLIPBOARD_MAX_BUFFER in a clipboard file
    ChangeMax,      \* bound of the changes of the clipboard, by either end
    CopyFaultMax    \* bound of errors, and of connections lost

VARIABLES
    here,           \* the state of clipboard.c and rclip.c, and the local files
    device,         \* the remote device: its clipboard file and its server
    wire,           \* messages of the server's channel on their way
    noted,          \* what the properties tell apart, below
    changes, copyFaults

cvars == <<here, device, wire, noted, changes, copyFaults>>

ClipboardParameters == Blocks \in Nat \ {0} /\ ChangeMax \in Nat /\ CopyFaultMax \in Nat

Blank == [b \in 1 .. Blocks |-> 0]
Version(v) == [b \in 1 .. Blocks |-> v]

\* What is asked of the cache: served is whether the remote has done it, and
\* failed whether that was an error.
NoRequest == [op |-> "none", served |-> FALSE, failed |-> FALSE, data |-> 0]

\* The flags of clipboard_flags, clipboard_transfer_required and _state, the
\* block that is being transferred, the operations that keep the link from
\* being idle, and the files; then the state of rclip.c, where open is
\* rclip_active.
ClipboardInit ==
    /\ here = [active |-> FALSE, remoteChanged |-> FALSE, remoteSync |-> FALSE,
               localChanged |-> FALSE, localSync |-> FALSE, required |-> FALSE,
               state |-> "idle", block |-> 0, busy |-> 0, request |-> NoRequest,
               local |-> Blank, transfer |-> Blank,
               open |-> FALSE, connected |-> FALSE, initPending |-> FALSE, initDone |-> FALSE,
               listenPending |-> FALSE, notifyPending |-> FALSE,
               notifyActive |-> FALSE, notifyRequired |-> FALSE]
    /\ device = [file |-> Blank, session |-> FALSE, listening |-> FALSE, news |-> FALSE,
                 told |-> Blank]
    /\ wire = [out |-> <<>>, in |-> <<>>]
    /\ noted = [missed |-> FALSE, untold |-> FALSE, failed |-> FALSE, untyped |-> FALSE,
                copied |-> Blank]
    /\ changes = 0
    /\ copyFaults = 0

-----------------------------------------------------------------------------
(* clipboard.c *)

\* cache_back for the next state of a transfer.
Ask(h, state, op) == [h EXCEPT !.state = state, !.request = [NoRequest EXCEPT !.op = op]]

\* rclip_notify_end
NotifyEnd(h) == [h EXCEPT !.notifyRequired = h.notifyActive, !.notifyActive = FALSE]

\* clipboard_tidy
Tidy(h) ==
    IF ~h.active /\ h.state = "idle" /\ ~h.required
    THEN [h EXCEPT !.local = Blank, !.transfer = Blank]
    ELSE h

\* clipboard_transfer, and rclip_notify_start; able is whether the local files
\* can be made.
Transfer(h, able) ==
    LET k == [h EXCEPT !.required = FALSE]
        begun == [k EXCEPT !.busy = @ + 1]
    IN IF ~h.required \/ h.state # "idle" THEN h
       ELSE IF h.remoteChanged /\ ~h.remoteSync
            THEN IF able THEN Ask([begun EXCEPT !.transfer = Blank], "read open", "open in") ELSE k
       ELSE IF h.localChanged /\ ~h.localSync /\ able
            THEN Ask([begun EXCEPT !.transfer = h.local, !.notifyActive = TRUE],
                     "write open", "open out")
       ELSE k

\* clipboard_callback for each state, with an error of the operation or of the
\* local files.  An operation that fails is followed by a close, where there is
\* something to close.
GiveUp(h) == Ask(h, "close", "close")
Ended(h) == [h EXCEPT !.state = "idle", !.request = NoRequest]

ReadOpened(h, error) == IF error THEN Ended(h) ELSE Ask(h, "read args", "args")

ReadArgs(h, error) ==
    IF error THEN GiveUp(h) ELSE Ask([h EXCEPT !.block = 1], "read transfer", "read")

ReadBlock(h, error) ==
    LET stored == [h EXCEPT !.transfer[h.block] = h.request.data] IN
    CASE error -> GiveUp(h)
      [] ~error /\ h.block < Blocks -> Ask([stored EXCEPT !.block = @ + 1], "read transfer", "read")
      [] OTHER -> Ask(stored, "read close", "close")

ReadClosedRegardless(h, error) ==   \* mutant: a local change meanwhile is forgotten
    IF error THEN Ended(h)
    ELSE Ended([h EXCEPT !.local = h.transfer, !.remoteSync = TRUE])
ReadClosed(h, error) ==
    IF error \/ h.required THEN Ended(h)
    ELSE Ended([h EXCEPT !.local = h.transfer, !.remoteSync = TRUE])

WriteOpened(h, error) ==
    IF error THEN Ended(NotifyEnd(h)) ELSE Ask(h, "write extent", "extent")

WriteNext(h, block) ==
    IF block > Blocks THEN Ask(h, "write close", "close")
    ELSE Ask([h EXCEPT !.block = block], "write transfer", "write")

WriteExtent(h, error) == IF error THEN GiveUp(NotifyEnd(h)) ELSE WriteNext(h, 1)

WriteBlock(h, error) == IF error THEN GiveUp(NotifyEnd(h)) ELSE WriteNext(h, h.block + 1)

WriteClosed(h, error) ==
    NotifyEnd(Ended(IF error \/ h.required THEN h ELSE [h EXCEPT !.localSync = TRUE]))

Called(h, error) ==
    CASE h.state = "read open" -> ReadOpened(h, error)
      [] h.state = "read args" -> ReadArgs(h, error)
      [] h.state = "read transfer" -> ReadBlock(h, error)
      [] h.state = "read close" -> ReadClosed(h, error)
      [] h.state = "write open" -> WriteOpened(h, error)
      [] h.state = "write extent" -> WriteExtent(h, error)
      [] h.state = "write transfer" -> WriteBlock(h, error)
      [] h.state = "write close" -> WriteClosed(h, error)
      [] h.state = "close" -> Ended(h)

ContinuesNever(h, error) ==     \* mutant: the end of a transfer does not start the next
    h.state = "none"

\* An error that is left when a transfer ends keeps the next one from starting:
\* that of a file which does not open for writing, or of the copy to the local
\* clipboard.
Continues(h, error) == ~(error /\ h.state = "write open")

\* clipboard_callback
Callback(error, able) ==
    /\ here.request.served
    /\ error \/ ~here.request.failed
    /\ LET k == Called(here, error)
           done == [k EXCEPT !.busy = @ - 1]
       IN /\ here' = IF k.state # "idle" THEN k
                     ELSE IF Continues(here, error) THEN Tidy(Transfer(done, able)) ELSE done
          /\ noted' = [noted EXCEPT
                !.failed = @ \/ error \/ (k.state = "idle" /\ ~able),
                !.untold = @ \/ (k.notifyRequired # here.notifyRequired /\ here.notifyPending)
                             \/ (here.state = "write close" /\ ~here.notifyActive)
                             \/ (here.state = "write close" /\ here.notifyPending)]
    /\ copyFaults' = copyFaults + (IF (error /\ ~here.request.failed) \/ ~able THEN 1 ELSE 0)
    /\ UNCHANGED <<device, wire, changes>>

\* clipboard_copy: what can go wrong is the copy of the file, or setting its
\* type.
Copy(copied, typed, able) ==
    /\ here.active /\ changes < ChangeMax
    /\ LET v == Version(changes + 1)
           cleared == [here EXCEPT !.remoteChanged = FALSE, !.remoteSync = FALSE,
                                   !.localChanged = FALSE, !.localSync = FALSE]
           stored == IF copied THEN [cleared EXCEPT !.local = v] ELSE cleared
       IN /\ here' = IF copied /\ typed
                     THEN Transfer([stored EXCEPT !.localChanged = TRUE, !.required = TRUE], able)
                     ELSE stored
          /\ noted' = [noted EXCEPT !.copied = v, !.failed = ~(copied /\ typed /\ able),
                                    !.untyped = IF copied THEN ~typed ELSE @]
    /\ changes' = changes + 1
    /\ copyFaults' = copyFaults + (IF copied /\ typed /\ able THEN 0 ELSE 1)
    /\ UNCHANGED <<device, wire>>

\* clipboard_remote_copy
RemoteCopy(h, able) ==
    IF h.active
    THEN Transfer([h EXCEPT !.remoteSync = FALSE, !.localChanged = FALSE, !.localSync = FALSE,
                            !.remoteChanged = TRUE, !.required = TRUE], able)
    ELSE h

\* clipboard_start and clipboard_end
Started(h) ==
    IF h.active THEN h
    ELSE [h EXCEPT !.active = TRUE, !.remoteChanged = FALSE, !.remoteSync = FALSE,
                   !.localChanged = FALSE, !.localSync = FALSE]
EndedClipboard(h) ==
    IF h.active
    THEN Tidy([h EXCEPT !.active = FALSE, !.remoteChanged = FALSE, !.remoteSync = FALSE,
                        !.localChanged = FALSE, !.localSync = FALSE, !.required = FALSE])
    ELSE h

-----------------------------------------------------------------------------
(* rclip.c *)

\* rclip_start, when cache_start has connected the cache again: an operation from
\* before has ended with the servers that it was for.
RclipStart ==
    /\ ~here.open
    /\ here' = [here EXCEPT !.open = TRUE,
                            !.request = IF here.state = "idle" THEN @
                                        ELSE [@ EXCEPT !.served = TRUE, !.failed = TRUE]]
    /\ UNCHANGED <<device, wire, noted, changes, copyFaults>>

\* A connection is lost: so are the messages on their way, and the server no
\* longer knows of this end.
Silent(n) ==
    /\ wire' = [out |-> <<>>, in |-> <<>>]
    /\ device' = [device EXCEPT !.session = FALSE, !.listening = FALSE, !.news = FALSE]
    /\ noted' = [n EXCEPT !.missed = @ \/ device.news \/ "init" \in {wire.in[i] : i \in 1 .. Len(wire.in)}]

\* rclip_end
RclipEnd ==
    /\ here.open /\ copyFaults < CopyFaultMax
    /\ here' = [EndedClipboard(here) EXCEPT !.open = FALSE, !.connected = FALSE,
                                            !.notifyActive = FALSE, !.notifyRequired = FALSE]
    /\ Silent(noted)
    /\ copyFaults' = copyFaults + 1
    /\ UNCHANGED changes

\* rclip_poll: MUX_EVENT_SERVER_CONNECTED and _DISCONNECTED.
ServerConnected ==
    /\ here.open /\ ~here.connected
    /\ here' = [here EXCEPT !.connected = TRUE, !.initPending = FALSE, !.initDone = FALSE,
                            !.listenPending = FALSE, !.notifyPending = FALSE]
    /\ UNCHANGED <<device, wire, noted, changes, copyFaults>>

ServerDisconnected ==
    /\ here.connected /\ copyFaults < CopyFaultMax
    /\ here' = [here EXCEPT !.connected = FALSE, !.initDone = FALSE]
    /\ Silent(noted)
    /\ copyFaults' = copyFaults + 1
    /\ UNCHANGED changes

\* rclip_idle
Send(h, message) ==
    /\ here' = h
    /\ wire' = [wire EXCEPT !.out = Append(@, message)]
    /\ UNCHANGED <<device, noted, changes, copyFaults>>

RclipIdle ==
    /\ here.connected
    /\ \/ /\ ~here.initDone /\ ~here.initPending
          /\ Send([here EXCEPT !.initPending = TRUE], "init")
       \/ /\ here.initDone /\ ~here.notifyPending /\ here.notifyRequired
          /\ Send([here EXCEPT !.notifyPending = TRUE], "notify")
       \/ /\ here.initDone /\ (here.notifyPending \/ ~here.notifyRequired)
          /\ ~here.listenPending /\ ~here.notifyActive
          /\ Send([here EXCEPT !.listenPending = TRUE], "listen")

\* rclip_receive
RclipReceive(able) ==
    /\ here.connected /\ wire.in # <<>>
    /\ wire' = [wire EXCEPT !.in = Tail(@)]
    /\ LET init == Head(wire.in) = "init"
           heard == [here EXCEPT !.listenPending = FALSE]
       IN \/ /\ init /\ here.initPending
             /\ here' = Started([here EXCEPT !.initDone = TRUE, !.initPending = FALSE])
             /\ UNCHANGED noted
          \/ /\ init /\ ~here.initPending /\ here.listenPending
             /\ here' = IF here.notifyActive THEN heard ELSE RemoteCopy(heard, able)
             /\ noted' = [noted EXCEPT !.missed = @ \/ here.notifyActive, !.failed = ~able,
                                       !.untyped = @ /\ here.notifyActive]
          \/ /\ ~init /\ here.notifyPending
             /\ here' = [here EXCEPT !.notifyPending = FALSE, !.notifyRequired = FALSE]
             /\ UNCHANGED noted
    /\ copyFaults' = copyFaults + (IF able THEN 0 ELSE 1)
    /\ UNCHANGED <<device, changes>>

-----------------------------------------------------------------------------
(* The remote device (external): its file server, its clipboard server and *)
(* its applications.                                                       *)

ServeFile(failed) ==
    /\ here.request.op # "none" /\ ~here.request.served
    /\ LET op == here.request.op
           done == [here.request EXCEPT !.served = TRUE, !.failed = failed,
                                        !.data = IF op = "read" THEN device.file[here.block] ELSE 0]
       IN /\ here' = [here EXCEPT !.request = done]
          /\ device' = CASE failed -> device
                         [] ~failed /\ op = "open out" -> [device EXCEPT !.file = Blank]
                         [] ~failed /\ op = "write" ->
                                [device EXCEPT !.file[here.block] = here.transfer[here.block]]
                         [] OTHER -> device
          /\ noted' = IF ~failed /\ op \in {"open in", "open out"}
                      THEN [noted EXCEPT !.missed = FALSE] ELSE noted
    /\ copyFaults' = copyFaults + (IF failed THEN 1 ELSE 0)
    /\ UNCHANGED <<wire, changes>>

\* The clipboard server answers a listen when there is news.
ServeClipboard ==
    \/ /\ wire.out # <<>>
       /\ LET message == Head(wire.out)
          IN /\ wire' = [out |-> Tail(wire.out),
                         in |-> IF message = "listen" THEN wire.in ELSE Append(wire.in, message)]
             /\ device' = CASE message = "init" -> [device EXCEPT !.session = TRUE]
                            [] message = "listen" -> [device EXCEPT !.listening = TRUE]
                            [] message = "notify" -> [device EXCEPT !.told = device.file]
             /\ noted' = IF message = "notify" THEN [noted EXCEPT !.untold = FALSE] ELSE noted
       /\ UNCHANGED <<here, changes, copyFaults>>
    \/ /\ device.listening /\ device.news
       /\ wire' = [wire EXCEPT !.in = Append(@, "init")]
       /\ device' = [device EXCEPT !.listening = FALSE, !.news = FALSE]
       /\ UNCHANGED <<here, noted, changes, copyFaults>>

\* An application of the remote device changes the clipboard.
DeviceCopy ==
    /\ changes < ChangeMax
    /\ device' = [device EXCEPT !.file = Version(changes + 1), !.news = device.session]
    /\ noted' = [noted EXCEPT !.missed = @ \/ ~device.session]
    /\ changes' = changes + 1
    /\ UNCHANGED <<here, wire, copyFaults>>

Able == {TRUE} \cup (IF copyFaults < CopyFaultMax THEN {FALSE} ELSE {})
Fails == {FALSE} \cup (IF copyFaults < CopyFaultMax THEN {TRUE} ELSE {})

ClipboardStep ==
    \/ \E error \in Fails \cup {here.request.failed}, able \in Able : Callback(error, able)
    \/ RclipIdle
    \/ \E able \in Able : RclipReceive(able)
    \/ \E failed \in Fails : ServeFile(failed)
    \/ ServeClipboard

ClipboardNext ==
    \/ ClipboardStep
    \/ RclipStart \/ RclipEnd \/ ServerConnected \/ ServerDisconnected
    \/ Copy(TRUE, TRUE, TRUE)
    \/ /\ copyFaults < CopyFaultMax
       /\ Copy(FALSE, FALSE, TRUE) \/ Copy(TRUE, FALSE, TRUE) \/ Copy(TRUE, TRUE, FALSE)
    \/ DeviceCopy

ClipboardSpec == ClipboardInit /\ [][ClipboardNext]_cvars

\* The multiplexor polls the channel, and the remote answers.
ClipboardFairness == WF_cvars(ClipboardStep)

-----------------------------------------------------------------------------
\* Nothing is on its way that would change the clipboard of either end.
Settled ==
    /\ here.state = "idle" /\ ~here.required /\ ~device.news
    /\ "init" \notin {wire.in[i] : i \in 1 .. Len(wire.in)}

\* A clipboard that is called synchronised is the same at both ends once all is
\* settled, unless the server could not tell of a change or what it told was
\* ignored while a local change was written, or the type of the local file could
\* not be set; a local change is not overwritten by a transfer that was already
\* running; the remote applications have been told of the clipboard that was
\* written, unless an earlier notification was still unanswered; and the link is
\* kept from being idle just while there is a transfer (clipboard.c, rclip.c).
ClipboardOK ==
    /\ here.active /\ Settled /\ ~noted.missed /\ ~noted.untyped
       /\ (here.remoteSync \/ here.localSync)
          => here.local = device.file
    /\ here.active /\ here.localChanged => here.local = noted.copied
    /\ here.active /\ Settled /\ here.localSync /\ ~here.notifyRequired /\ ~noted.missed
          => device.told = device.file \/ noted.untold
    /\ here.busy = (IF here.state = "idle" THEN 0 ELSE 1)

\* A change of the clipboard has not been carried over, and nothing went wrong.
Unsynchronised ==
    /\ here.active /\ ~noted.failed
    /\ \/ here.remoteChanged /\ ~here.remoteSync
       \/ here.localChanged /\ ~here.localSync

\* A change of the clipboard is synchronised, or something went wrong
\* (clipboard_transfer, clipboard_callback).
Synchronises == Unsynchronised ~> ~Unsynchronised
=============================================================================
