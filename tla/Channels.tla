------------------------------ MODULE Channels ------------------------------
(***************************************************************************)
(* The control plane of the multiplexor, src/src/mux.c, with the clients   *)
(* that own its channels and the layer that starts and ends them,          *)
(* unified.c: which channels exist, under which numbers, and to which      *)
(* remote servers they are connected.                                      *)
(*                                                                         *)
(* Everything here runs in one thread, and a handler returns before the    *)
(* next begins, but the handlers nest: a frame ends a connection, its      *)
(* channel fails the operations waiting for it, one of them ends another   *)
(* channel.  So each routine is an operator on the state of PsiFS, the     *)
(* record mux, and an action composes the routines that its handler calls. *)
(* mux_poll is split where something else may happen: its frame ("rx"),    *)
(* its idle polls ("idle"), and its transmission ("tx").                   *)
(*                                                                         *)
(* The link below delivers frames in order and once while a session lasts. *)
(* Data frames are left out: what matters of them here is that a waiting   *)
(* operation succeeds or fails.                                            *)
(***************************************************************************)
EXTENDS Naturals, Sequences

CONSTANTS
    InboxMax,       \* bound: control frames on their way from the remote
    EndAfterInfo    \* may a session be ended only after its NCP info came

ASSUME BoundAssumption == InboxMax \in Nat \ {0} /\ EndAfterInfo \in BOOLEAN

\* The users of channels: lnkchan.c, rfsv32.c, rfsv16.c, ncp.c and rclip.c.
User == {"link", "rfsv32", "rfsv16", "ncp", "clip"}
Files == {"rfsv32", "rfsv16"}          \* the remote file service, by dialect
Shared == User \ {"clip"}              \* those that use share.c
Uploaders == {"ncp", "clip"}           \* those that can upload their server
Num == 0 .. 5                          \* channel numbers; 0 is the control one

\* The numbers that the remote machine gives its own servers.
RemoteNum == [u \in User |-> CASE u = "link" -> 1 [] u \in Files -> 2
                               [] u = "ncp" -> 3 [] u = "clip" -> 4]

VARIABLES
    mux,            \* the state of PsiFS, described at MuxState
    phase,          \* where mux_poll is: "rx", "idle" or "tx"
    inbox,          \* the control frames on their way from the remote
    remote          \* the remote machine: its dialect, connections and client

vars == <<mux, phase, inbox, remote>>

\* The control frames, sent by either end.
Connect(c, u)    == [kind |-> "connect", src |-> c, arg |-> 0, name |-> u]
Response(n, c)   == [kind |-> "response", src |-> n, arg |-> c, name |-> "none"]
Closed(c)        == [kind |-> "closed", src |-> c, arg |-> 0, name |-> "none"]
Disconnect(c, n) == [kind |-> "disconnect", src |-> c, arg |-> n, name |-> "none"]
Info(era)        == [kind |-> IF era THEN "era" ELSE "sibo", src |-> 0, arg |-> 0,
                     name |-> "none"]
NcpEnd           == [kind |-> "end", src |-> 0, arg |-> 0, name |-> "none"]

Ctrl == [kind : {"connect", "response", "closed", "disconnect", "era", "sibo", "end"},
         src : Num, arg : Num, name : User \cup {"none"}]

\* The state of PsiFS.
MuxState ==
    [up : BOOLEAN,              \* mux_active
     ending : BOOLEAN,          \* mux_end is in mux_wait_idle
     era : BOOLEAN,             \* mux_era
     ctrl : Seq(Ctrl),          \* mux_ctrl
     open : SUBSET User,        \* the channels that exist
     num : [User -> Num],       \* chan, kept after MEM_FREE
     client : {0, 1},           \* client_chan of the LINK channel
     server : [User -> Num],    \* server_chan
     share : SUBSET Shared,     \* share handles that are not none
     regs : Seq(User \ {"link"}), \* who waits for lnkchan_register
     uploads : SUBSET Uploaders, \* who waits for upload_file
     retried : SUBSET Uploaders, \* ncp_retry, rclip_retry
     unified : BOOLEAN,         \* unified_active
     partial : BOOLEAN, connected : BOOLEAN,
     cache : {"off", "active", "connected"}]

TypeOK ==
    /\ mux \in MuxState
    /\ phase \in {"rx", "idle", "tx"}
    /\ inbox \in Seq(Ctrl) /\ Len(inbox) <= InboxMax
    /\ remote \in [era : BOOLEAN, alive : BOOLEAN,
                   conns : SUBSET (Num \X User), \* <<our number, server>>
                   client : {"none", "asked", "connected"}]

Init ==
    /\ mux = [up |-> FALSE, ending |-> FALSE, era |-> FALSE, ctrl |-> <<>>,
              open |-> {}, num |-> [u \in User |-> 0], client |-> 0,
              server |-> [u \in User |-> 0], share |-> {}, regs |-> <<>>,
              uploads |-> {}, retried |-> {}, unified |-> FALSE,
              partial |-> FALSE, connected |-> FALSE, cache |-> "off"]
    /\ phase = "rx" /\ inbox = <<>>
    /\ remote = [era |-> FALSE, alive |-> FALSE, conns |-> {}, client |-> "none"]

----------------------------------------------------------------------------
(* Creating, connecting and destroying channels.                           *)

Queue(m, f) == [m EXCEPT !.ctrl = Append(@, f)]

\* mux_chan_connect.
ChanConnect(m, u) ==
    IF m.server[u] = 0 THEN Queue(m, Connect(m.num[u], u)) ELSE m

NumbersUsed(m) == {m.num[v] : v \in m.open}
Smallest(S) == CHOOSE n \in S : \A k \in S : n <= k

NumberUnconnected(m) ==                                      \* mutant
    Smallest((Num \ {0}) \ {m.num[v] : v \in {w \in m.open : m.server[w] # 0}})
NumberNeverUsed(m) == 1 + Smallest({n \in Num : \A u \in User : m.num[u] <= n}) \* mutant
NextNumber(m) == Smallest((Num \ {0}) \ NumbersUsed(m))

\* mux_chan_create with an automatic number, and the start routine above it.
ChanCreate(m, u) ==
    IF u \in m.open THEN m
    ELSE LET n == NextNumber(m) IN
         Queue([m EXCEPT !.open = @ \cup {u}, !.num[u] = n,
                         !.server[u] = 0, !.retried = @ \ {u}],
               Connect(n, u))

LeafKeepsShare(m, u) ==                                      \* mutant
    IF u = "clip" THEN ChanConnect(m, u) ELSE m
\* The end of the server connection of a channel that nobody waits for: ncp.c
\* destroys its share, rclip.c reconnects, whatever ended the connection.
LeafDisconnected(m, u) ==
    IF u = "clip" THEN ChanConnect(m, u) ELSE [m EXCEPT !.share = @ \ {u}]

\* mux_chan_destroy, the server part: up to the event that the channel is
\* told, and from there on; after is what the channel made of the event.
ChanDisconnect(m, u, now) ==
    LET asked == IF now THEN m ELSE Queue(m, Disconnect(m.num[u], m.server[u]))
    IN  [asked EXCEPT !.server[u] = 0]

ChanDestroy(m, u, after) ==
    LET left == IF m.server[u] = 0 THEN m ELSE after
    IN  [left EXCEPT !.open = @ \ {u}]

\* ncp_end and rclip_end.
LeafEnd(m, u, now) ==
    IF u \notin m.open THEN m
    ELSE ChanDestroy(m, u, LeafDisconnected(ChanDisconnect(m, u, now), u))

\* ncp_ncpfile_callback, rclip_clipfile_callback with an error.
UploadFailed(m, u) == LeafEnd([m EXCEPT !.uploads = @ \ {u}], u, FALSE)

UploadsLeft(m, u) == [m EXCEPT !.share = @ \ {u}]            \* mutant
\* share_destroy of the file service fails the uploads in progress.
FilesDisconnected(m, u) ==
    LET left == [m EXCEPT !.share = @ \ {u}]
        Fail(k, v) == IF v \in m.uploads THEN UploadFailed(k, v) ELSE k
    IN  Fail(Fail(left, "clip"), "ncp")

\* rfsv32_end and rfsv16_end.
FilesEnd(m, u, now) ==
    IF u \notin m.open THEN m
    ELSE ChanDestroy(m, u, FilesDisconnected(ChanDisconnect(m, u, now), u))

\* ncpfile_upload and clipfile_upload: without a file service they fail at once.
Upload(m, u) ==
    IF m.share \cap Files = {} THEN UploadFailed(m, u)
    ELSE [m EXCEPT !.uploads = @ \cup {u}]

\* The callbacks of lnkchan_register with an error.  An active flag is
\* cleared before the channel of a user that has ended is looked at, but the
\* upload is started all the same.
RegisterFailed(m, u) ==
    IF u \in Files THEN FilesEnd(m, u, FALSE)
    ELSE IF u \in m.retried THEN LeafEnd(m, u, FALSE)
    ELSE Upload([m EXCEPT !.retried = @ \cup {u}], u)

\* share_destroy of the LINK channel fails the registrations that wait.
LinkDisconnected(m, u) ==
    LET left == [m EXCEPT !.share = @ \ {u}, !.regs = <<>>]
        failed[i \in 0 .. Len(m.regs)] ==
            IF i = 0 THEN left ELSE RegisterFailed(failed[i - 1], m.regs[i])
    IN  failed[Len(m.regs)]

Disconnected(m, u) ==
    IF u = "link" THEN LinkDisconnected(m, u)
    ELSE IF u \in Files THEN FilesDisconnected(m, u)
    ELSE LeafDisconnected(m, u)

\* lnkchan_end: the LINK channel is the only one with a client as well.
LinkEnd(m, now) ==
    LET told == IF m.client = 0 \/ now THEN m ELSE Queue(m, Closed(m.client))
        alone == [told EXCEPT !.client = 0]
    IN  IF "link" \notin m.open THEN m
        ELSE ChanDestroy(alone, "link",
                         LinkDisconnected(ChanDisconnect(alone, "link", now), "link"))

----------------------------------------------------------------------------
(* The layers above: unified.c, and what it starts of cache.c.             *)

CacheLeft(m, now) == [m EXCEPT !.cache = "off"]              \* mutant
\* cache_end, with cache_disconnect (unified_disconnect).
CacheEnd(m, now) ==
    IF m.cache = "off" THEN m
    ELSE [LeafEnd(m, "clip", now) EXCEPT !.cache = "off"]

UnifiedEnd(m, now) ==
    IF ~m.unified THEN m
    ELSE LET above == LeafEnd(CacheEnd(m, now), "ncp", now)
             files == FilesEnd(FilesEnd(above, "rfsv32", now), "rfsv16", now)
         IN  [files EXCEPT !.partial = FALSE, !.connected = FALSE,
                           !.unified = FALSE]

UnifiedStart(m, era) ==
    IF m.unified THEN m
    ELSE [ChanCreate(m, IF era THEN "rfsv32" ELSE "rfsv16")
             EXCEPT !.unified = TRUE]

\* unified_update.
UnifiedUpdate(m) ==
    LET partial == m.share \cap Files # {}
        connected == partial /\ "ncp" \in m.share
        stored == [m EXCEPT !.partial = partial, !.connected = connected]
    IN  IF m.partial = partial /\ m.connected = connected THEN m
        ELSE IF ~partial THEN CacheEnd(stored, TRUE)
        ELSE IF ~connected THEN ChanCreate(stored, "ncp")
        ELSE IF m.cache = "off" THEN [stored EXCEPT !.cache = "active"]
        ELSE stored

\* cache_poll: once every drive is known, an ERA machine's clipboard is started.
CachePoll(m, found) ==
    IF m.connected /\ m.cache = "active" /\ found
    THEN IF "rfsv32" \in m.share
         THEN ChanCreate([m EXCEPT !.cache = "connected"], "clip")
         ELSE [m EXCEPT !.cache = "connected"]
    ELSE m

----------------------------------------------------------------------------
(* mux_poll: a received control frame.                                     *)

Polling(where) == mux.up /\ phase = where

Found(c) == {u \in mux.open : mux.num[u] = c}          \* mux_chan_find

Receive(kind) ==
    /\ Polling("rx") /\ inbox # <<>> /\ Head(inbox).kind = kind
    /\ inbox' = Tail(inbox)
    /\ UNCHANGED remote

\* A handler that fails ends mux_poll.
Continue(m) == mux' = m /\ phase' = "idle"
Abort == UNCHANGED mux /\ phase' = "rx"

\* The LINK channel is the only server: any other name is refused.
RxConnect ==
    LET f == Head(inbox)
        free == f.name = "link" /\ "link" \in mux.open /\ mux.client = 0 IN
    /\ Receive("connect")
    /\ IF free
       THEN Continue(Queue([mux EXCEPT !.client = f.src], Response(mux.num["link"], f.src)))
       ELSE Continue(Queue(mux, Response(0, f.src)))

RxConnectedAny ==                                            \* mutant
    LET f == Head(inbox) IN
    /\ Receive("response") /\ f.src # 0
    /\ \/ mux.open = {} /\ Continue(mux)
       \/ \E u \in mux.open :
            Continue([mux EXCEPT !.server[u] = f.src,
                                 !.share = @ \cup ({u} \cap Shared)])

\* The answer is matched with a channel by its number alone.
RxConnected ==
    LET f == Head(inbox) IN
    /\ Receive("response") /\ f.src # 0
    /\ \/ Found(f.arg) = {} /\ Continue(mux)
       \/ \E u \in Found(f.arg) :
            Continue([mux EXCEPT !.server[u] = f.src,
                              !.share = @ \cup ({u} \cap Shared)])

\* A refused client registers its server, which starts it, and tries again.
RxRefused ==
    LET f == Head(inbox) IN
    /\ Receive("response") /\ f.src = 0
    /\ \/ Found(f.arg) = {} /\ Continue(mux)
       \/ \E u \in Found(f.arg) :
            IF u = "link" \/ "link" \notin mux.share THEN Abort
            ELSE Continue([mux EXCEPT !.regs = Append(@, u)])

\* mux_poll_rx_channel_closed looks for a server of ours with that number.
RxClosed ==
    /\ Receive("closed")
    /\ IF "link" \in Found(Head(inbox).src)
       THEN Continue([mux EXCEPT !.client = 0]) ELSE Continue(mux)

\* mux_poll_rx_channel_disconnect looks for a client of ours with that number.
RxDisconnect ==
    LET f == Head(inbox) IN
    /\ Receive("disconnect")
    /\ \/ /\ \A u \in Found(f.arg) : mux.server[u] # f.src
          /\ Continue(mux)
       \/ \E u \in Found(f.arg) :
            /\ mux.server[u] = f.src
            /\ Continue(Disconnected([mux EXCEPT !.server[u] = 0], u))

RxInfoOnly ==                                                \* mutant
    \E era \in BOOLEAN :
       /\ Receive(IF era THEN "era" ELSE "sibo")
       /\ Continue(UnifiedStart([mux EXCEPT !.era = era], era))

\* The first frame of the remote: its dialect may not be the one of the link.
RxInfo ==
    \E era \in BOOLEAN :
       /\ Receive(IF era THEN "era" ELSE "sibo")
       /\ IF era = mux.era THEN Continue(mux)
          ELSE Continue(UnifiedStart([UnifiedEnd(mux, TRUE) EXCEPT !.era = era], era))

EndOne(m, u) ==
    LET served == IF u = "link" THEN [m EXCEPT !.client = 0] ELSE m IN
    IF m.server[u] = 0 THEN served
    ELSE Disconnected([served EXCEPT !.server[u] = 0], u)

\* mux_poll_rx_ncp_end, from the newest channel to the oldest.
EndAll(m) ==
    LET leaves == EndOne(EndOne(m, "clip"), "ncp")
    IN  EndOne(EndOne(EndOne(leaves, "rfsv32"), "rfsv16"), "link")

RxNcpEnd == Receive("end") /\ Continue(EndAll(mux))

RxCtrl ==
    \/ RxConnect \/ RxConnected \/ RxRefused \/ RxClosed \/ RxDisconnect
    \/ RxInfo \/ RxNcpEnd

NoFrame == Polling("rx") /\ Continue(mux) /\ UNCHANGED <<inbox, remote>>

----------------------------------------------------------------------------
(* mux_poll: operations that end, unified_poll, and transmission.          *)

\* A reply on the LINK channel, or the time-out of its idle poll.  A channel
\* destroyed meanwhile is used after MEM_FREE: its record may still be intact.
Registered ==
    /\ Polling("rx") \/ Polling("idle")
    /\ mux.regs # <<>>
    /\ LET u == Head(mux.regs)
           m == [mux EXCEPT !.regs = Tail(@)] IN
       \/ Continue(RegisterFailed(m, u))
       \/ Continue(ChanConnect(m, u))
       \/ u \notin mux.open /\ Continue(m)
    /\ UNCHANGED <<inbox, remote>>

\* The last operation of upload.c ends, with or without an error.
Uploaded ==
    /\ Polling("rx") \/ Polling("idle")
    /\ \E u \in mux.uploads :
         \/ Continue(UploadFailed(mux, u))
         \/ Continue(ChanConnect([mux EXCEPT !.uploads = @ \ {u}], u))
         \/ u \notin mux.open /\ Continue([mux EXCEPT !.uploads = @ \ {u}])
    /\ UNCHANGED <<inbox, remote>>

UnifiedPoll ==
    /\ Polling("idle")
    /\ \E found \in BOOLEAN :
         mux' = IF mux.unified THEN CachePoll(UnifiedUpdate(mux), found) ELSE mux
    /\ phase' = "tx"
    /\ UNCHANGED <<inbox, remote>>

\* The remote machine: it may refuse any server, and has those of its dialect.
Serves(u) == u \in {"link", "ncp"} \/ (u \in {"rfsv32", "clip"} <=> remote.era)
Reply(f) == inbox' = Append(inbox, f)

\* It handles a frame some time after it is sent: its answer waits in inbox.
RemoteConnect(f) ==
    /\ f.kind = "connect" /\ remote.alive
    /\ \/ /\ Serves(f.name)
          /\ remote' = [remote EXCEPT !.conns = @ \cup {<<f.src, f.name>>}]
          /\ Reply(Response(RemoteNum[f.name], f.src))
       \/ UNCHANGED remote /\ Reply(Response(0, f.src))

RemoteAnswered(f) ==
    /\ f.kind = "response" /\ UNCHANGED inbox
    /\ remote' = [remote EXCEPT !.client = IF f.src = 0 \/ ~remote.alive
                                            THEN "none" ELSE "connected"]

RemoteTold(f) ==
    /\ f.kind \in {"era", "sibo"} \/ (f.kind = "connect" /\ ~remote.alive)
    /\ UNCHANGED <<inbox, remote>>

RemoteLeft(f) ==
    /\ f.kind \in {"disconnect", "closed", "end"} /\ UNCHANGED inbox
    /\ remote' =
         [remote EXCEPT
            !.conns = CASE f.kind = "disconnect" ->
                             {x \in @ : x[1] # f.src \/ RemoteNum[x[2]] # f.arg}
                        [] f.kind = "closed" -> @
                        [] f.kind = "end" -> {},
            !.alive = @ /\ f.kind # "end",
            !.client = IF f.kind = "disconnect" THEN @ ELSE "none"]

Transmit ==
    /\ Polling("tx") /\ mux.ctrl # <<>> /\ Len(inbox) < InboxMax
    /\ LET f == Head(mux.ctrl) IN
         RemoteConnect(f) \/ RemoteAnswered(f) \/ RemoteTold(f) \/ RemoteLeft(f)
    /\ mux' = [mux EXCEPT !.ctrl = Tail(@)]
    /\ phase' = "rx"

\* The window below is full, or there is no control frame.
NoTransmit == Polling("tx") /\ phase' = "rx" /\ UNCHANGED <<mux, inbox, remote>>

----------------------------------------------------------------------------
(* Sessions.                                                               *)

\* mux_start: lnkchan_start asks for number 1, which must be free.
SessionStart ==
    /\ ~mux.up /\ ~mux.ending /\ phase = "rx"
    /\ \E era, theirs \in BOOLEAN :
         LET m == [mux EXCEPT !.era = era, !.ctrl = <<Info(era)>>] IN
         /\ mux' = IF "link" \notin mux.open /\ 1 \in NumbersUsed(mux) THEN m
                   ELSE [UnifiedStart(ChanCreate(m, "link"), era)
                           EXCEPT !.up = TRUE]
         /\ inbox' = <<Info(theirs)>>
         /\ remote' = [era |-> theirs, alive |-> TRUE, conns |-> {}, client |-> "none"]
    /\ UNCHANGED phase

LinkEnded(m, now) == LinkEnd(m, now)                         \* mutant
\* unified_end and lnkchan_end, which leave mux_end no channel to destroy.
AllEnded(m, now) == LinkEnd(UnifiedEnd(m, now), now)

\* The connection is lost, or ended at once: mux_end(TRUE).
SessionLost ==
    /\ mux.up /\ phase = "rx"
    /\ mux' = [AllEnded(mux, TRUE) EXCEPT !.up = FALSE]
    /\ inbox' = <<>>
    /\ remote' = [remote EXCEPT !.alive = FALSE, !.conns = {}, !.client = "none"]
    /\ UNCHANGED phase

\* mux_end(FALSE), up to its wait for the control queue to drain.  Bound: it
\* is not called again before the frame of an interrupted call is sent.
SessionEnd ==
    /\ mux.up /\ ~mux.ending /\ phase = "rx"
    /\ \A i \in DOMAIN mux.ctrl : mux.ctrl[i] # NcpEnd
    /\ EndAfterInfo => \A i \in DOMAIN inbox : inbox[i].kind \notin {"era", "sibo"}
    /\ mux' = [Queue(AllEnded(mux, FALSE), NcpEnd) EXCEPT !.ending = TRUE]
    /\ UNCHANGED <<phase, inbox, remote>>

SessionEnded ==
    /\ mux.ending /\ mux.ctrl = <<>> /\ phase = "rx"
    /\ mux' = [mux EXCEPT !.up = FALSE, !.ending = FALSE]
    /\ UNCHANGED <<phase, inbox, remote>>

\* Escape ends the wait, and mux_active stays as it is.
SessionEscape ==
    /\ mux.ending /\ mux.ctrl # <<>> /\ phase = "rx"
    /\ mux' = [mux EXCEPT !.ending = FALSE]
    /\ UNCHANGED <<phase, inbox, remote>>

----------------------------------------------------------------------------
(* What the remote machine does of its own accord.                         *)

Sends(f) == remote.alive /\ Len(inbox) < InboxMax /\ Reply(f) /\ UNCHANGED <<mux, phase>>

RemoteLink ==
    /\ remote.client = "none" /\ Sends(Connect(1, "link"))
    /\ remote' = [remote EXCEPT !.client = "asked"]

RemoteLeavesLink ==
    /\ remote.client = "connected" /\ Sends(Disconnect(1, 1))
    /\ remote' = [remote EXCEPT !.client = "none"]

\* One of its servers stops: the termination frame of plp.html.
RemoteCloses ==
    \E u \in {x[2] : x \in remote.conns} :
      /\ Sends(Closed(RemoteNum[u]))
      /\ remote' = [remote EXCEPT !.conns = {x \in @ : x[2] # u}]

\* One connection ends: the disconnection frame that mux.c understands.
RemoteDrops ==
    \E x \in remote.conns :
      /\ Sends(Disconnect(RemoteNum[x[2]], x[1]))
      /\ remote' = [remote EXCEPT !.conns = @ \ {x}]

RemoteEnds ==
    /\ Sends(NcpEnd)
    /\ remote' = [remote EXCEPT !.alive = FALSE, !.conns = {}, !.client = "none"]

Next ==
    \/ RxCtrl \/ NoFrame \/ Registered \/ Uploaded \/ UnifiedPoll
    \/ Transmit \/ NoTransmit
    \/ SessionStart \/ SessionLost \/ SessionEnd \/ SessionEnded \/ SessionEscape
    \/ RemoteLink \/ RemoteLeavesLink \/ RemoteCloses \/ RemoteDrops \/ RemoteEnds

Spec == Init /\ [][Next]_vars
----------------------------------------------------------------------------
(* Safety.                                                                 *)

\* mux_chan_find takes the first channel with a number, so a number names one
\* channel, never the control channel; and the LINK channel has number 1,
\* under which plp.html says the other machine expects it.
NumbersOK ==
    /\ \A u, v \in mux.open : u # v => mux.num[u] # mux.num[v]
    /\ \A u \in mux.open : mux.num[u] # 0
    /\ "link" \in mux.open => mux.num["link"] = 1

\* A share exists exactly while its channel is connected to its server,
\* whatever ended the connection: unified_update reads the share handles to
\* decide which layers run.
ShareOK ==
    /\ mux.share = {u \in Shared : mux.server[u] # 0}
    /\ \A u \in User : mux.server[u] # 0 => u \in mux.open

\* Nobody waits on a service that is gone: a registration waits on a LINK
\* channel, and an upload on a file service, that can still answer it or will
\* fail it when it ends.
WaitOK ==
    /\ mux.regs # <<>> => "link" \in mux.share
    /\ mux.uploads # {} => mux.share \cap Files # {}

\* No layer outlives the one it stands on: the clipboard needs the cache, the
\* cache needs unified.c, and so does every channel but the LINK channel.
\* There is one file service client, of the dialect of the remote NCP, also
\* after its information frame corrected the dialect of the link.
LayersOK ==
    /\ mux.open \ {"link"} # {} => mux.unified
    /\ "clip" \in mux.open => mux.cache = "connected"
    /\ mux.cache # "off" => mux.unified
    /\ mux.connected => mux.partial
    /\ mux.partial => mux.unified
    /\ "rfsv32" \in mux.open => mux.era
    /\ "rfsv16" \in mux.open => ~mux.era

\* A channel is only ever connected to the server it asked for, though numbers
\* are reused and answers are matched by number, late ones included.
RightServer == \A u \in mux.open : mux.server[u] \in {0, RemoteNum[u]}

\* When the multiplexor has ended, so have all channels, the layers above and
\* the operations that waited: the next session starts from nothing.
EndedOK ==
    ~mux.up => /\ mux.open = {} /\ ~mux.unified
               /\ mux.regs = <<>> /\ mux.uploads = {}

\* Numbers name channels, shares follow connections and nobody waits in vain,
\* in every order of the events of both machines.
ChannelsOK == TypeOK /\ NumbersOK /\ ShareOK /\ WaitOK
=============================================================================
