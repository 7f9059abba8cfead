------------------------------ MODULE MuxData ------------------------------
(***************************************************************************)
(* Data frames of the multiplexor (src/mux.c): messages cut into frames    *)
(* and put together again, the turns that channels take to transmit, and   *)
(* the XOFF and XON frames with which a remote server stops and restarts a *)
(* channel.  How channels are connected is in Channels; here a connection  *)
(* is made or broken by a frame.                                           *)
(*                                                                         *)
(* Every channel of this machine is a client: mux_chan_tx_client is called *)
(* by nothing, and no channel has a buffer for data of remote clients.     *)
(***************************************************************************)
EXTENDS Integers, Sequences, FiniteSets

CONSTANTS
    Channels,   \* mux_channel_list, a sequence
    Servers,    \* channel numbers of the remote machine
    Long,       \* number of frames of the longest message
    RxSize,     \* size of a receive buffer, in frames
    MaxFrames,  \* bound on the frames on their way
    Unasked,    \* servers send messages that answer no request, or come too late
    Stale       \* servers disconnect while they have us stopped

Chans == {Channels[n] : n \in 1 .. Len(Channels)}
Nobody == "nobody"

\* What the constants may be
MuxDataParameters ==
    /\ {Long, RxSize, MaxFrames} \subseteq Nat \ {0}
    /\ {Unasked, Stale} \subseteq BOOLEAN
    /\ Channels \in Seq(Chans) /\ Nobody \notin Servers \cup Chans

VARIABLES
    chan,       \* mux_channel_status of each channel: server_chan, server_rx, server_tx
    last,       \* mux_channel_last, its place in the list, or 0
    blocked,    \* mux_blocked
    frames,     \* frames from the remote machine that were not polled
    peer,       \* the remote servers
    given       \* what the poll function of a channel was given last, if not a message

mvars == <<chan, last, blocked, frames, peer, given>>


\* Frame k of a message of n frames
Part(k, n) == [k |-> k, n |-> n]
Begins(parts) == \A k \in 1 .. Len(parts) : parts[k] = Part(k, parts[1].n)
Whole(parts) == Begins(parts) /\ (parts # <<>> => Len(parts) = parts[1].n)

\* What is to be sent: a message of n frames, or nothing
Empty == [n |-> 0, sent |-> 0]
Start(n) == [n |-> n, sent |-> 0]
NextPart(out) == Part(out.sent + 1, out.n)
Advance(out) == IF out.sent + 1 = out.n THEN Empty ELSE [out EXCEPT !.sent = @ + 1]
Received(parts, part) == IF Whole(Append(parts, part)) THEN <<>> ELSE Append(parts, part)

MuxInit ==
    /\ chan = [c \in Chans |-> [server |-> Nobody, rx |-> <<>>, tx |-> Empty, waits |-> FALSE]]
    /\ last = 0 /\ blocked = {} /\ frames = <<>>
    /\ peer = [r \in Servers |-> [client |-> Nobody, stopped |-> FALSE, out |-> Empty,
                                  parts |-> <<>>, asked |-> 0]]
    /\ given = [c \in Chans |-> <<>>]

-----------------------------------------------------------------------------
(* Receiving *)

\* mux_poll_rx_data_decoded.  Without a frame from the server of the channel
\* frame is read before it was set, which changes nothing here.  Data is not
\* taken while the channel has a message to send.
RxData(f) ==
    LET c == chan[f.dest]
        rx == IF Len(c.rx) < RxSize + 1 THEN Append(c.rx, f.part) ELSE c.rx
    IN IF c.server # f.src \/ c.tx.n > 0 THEN UNCHANGED <<chan, given>>
       ELSE /\ chan' = [chan EXCEPT ![f.dest] =
                           [c EXCEPT !.rx = IF f.complete THEN <<>> ELSE rx,
                                     !.waits = @ /\ ~f.complete]]
            /\ given' = IF f.complete /\ Len(rx) <= RxSize THEN [given EXCEPT ![f.dest] = IF Whole(rx) THEN <<>> ELSE rx]
                        ELSE given

RxXoff(f) == blocked' = blocked \cup {f.src}
RxXon(f) == blocked' = blocked \ {f.src}

RxDisconnectMidway(f) == \* mutant: what was received of a message is kept
    chan' = IF chan[f.dest].server = f.src
            THEN [chan EXCEPT ![f.dest] = [@ EXCEPT !.server = Nobody, !.tx = Empty]]
            ELSE chan

\* mux_poll_rx_connect_response and mux_poll_rx_channel_disconnect
RxConnected(f) == chan' = [chan EXCEPT ![f.dest] = [@ EXCEPT !.server = f.src, !.waits = FALSE]]
RxDisconnect(f) ==
    chan' = IF chan[f.dest].server = f.src
            THEN [chan EXCEPT ![f.dest] = [@ EXCEPT !.server = Nobody, !.rx = <<>>, !.tx = Empty]]
            ELSE chan

Rx ==
    /\ frames # <<>>
    /\ frames' = Tail(frames)
    /\ LET f == Head(frames) IN
       \/ f.type = "data" /\ RxData(f) /\ UNCHANGED blocked
       \/ f.type = "xoff" /\ RxXoff(f) /\ UNCHANGED <<chan, given>>
       \/ f.type = "xon" /\ RxXon(f) /\ UNCHANGED <<chan, given>>
       \/ f.type = "connected" /\ RxConnected(f) /\ UNCHANGED <<blocked, given>>
       \/ f.type = "disconnect" /\ RxDisconnect(f) /\ UNCHANGED <<blocked, given>>
    /\ UNCHANGED <<last, peer>>

-----------------------------------------------------------------------------
(* Transmitting *)

\* The poll function of an idle channel sends a message (MUX_EVENT_IDLE,
\* mux_chan_tx_server).  share.c waits for the answer to the last, or until
\* it has waited too long.
Say(c, n) ==
    /\ chan[c].server # Nobody /\ chan[c].tx.n = 0 /\ (chan[c].waits => Unasked)
    /\ chan' = [chan EXCEPT ![c] = [@ EXCEPT !.tx = Start(n), !.waits = TRUE]]
    /\ UNCHANGED <<last, blocked, frames, peer, given>>

Ready(n) == chan[Channels[n]].tx.n > 0 /\ chan[Channels[n]].server \notin blocked

NextReadyFirst == \* mutant: the search starts at the head of the list
    LET ready == {n \in 1 .. Len(Channels) : Ready(n)}
    IN IF ready = {} THEN 0 ELSE CHOOSE n \in ready : \A m \in ready : n <= m

\* The next channel that has something to send, after the last that had
NextReady ==
    LET ready == {n \in last + 1 .. Len(Channels) : Ready(n)}
    IN IF ready = {} THEN 0 ELSE CHOOSE n \in ready : \A m \in ready : n <= m

\* mux_poll_tx_data; the server puts the message together again.
Transmit(c) ==
    LET tx == chan[c].tx
        r == chan[c].server
    IN /\ chan' = [chan EXCEPT ![c].tx = Advance(tx)]
       /\ peer' = IF peer[r].client # c THEN peer
                  ELSE [peer EXCEPT ![r].parts = Received(@, NextPart(tx)),
                                    ![r].asked = IF tx.sent + 1 = tx.n THEN 1 ELSE @]

\* mux_poll_tx, with no control frame to send
Tx ==
    /\ last' = NextReady
    /\ IF last' = 0 THEN UNCHANGED <<chan, peer>> ELSE Transmit(Channels[last'])
    /\ UNCHANGED <<blocked, frames, given>>

-----------------------------------------------------------------------------
(* The remote machine (external) *)

Sends(f) == Len(frames) < MaxFrames /\ frames' = Append(frames, f)
Frame(type, r) == [type |-> type, src |-> r, dest |-> peer[r].client]

\* A channel that is not connected has asked for a server, once: its poll function
\* asks again only when it is told that the connection has ended.
Asks(c) ==
    /\ chan[c].server = Nobody
    /\ \A n \in 1 .. Len(frames) : frames[n].dest = c => frames[n].type # "connected"

RemoteConnects(r, c) ==
    /\ Asks(c) /\ \A s \in Servers : peer[s].client # c
    /\ peer[r].client = Nobody
    /\ Sends([type |-> "connected", src |-> r, dest |-> c])
    /\ peer' = [peer EXCEPT ![r] = [@ EXCEPT !.client = c, !.parts = <<>>, !.asked = 0,
                                             !.stopped = FALSE, !.out = Empty]]

RemoteDisconnects(r) ==
    /\ peer[r].client # Nobody /\ (peer[r].stopped => Stale)
    /\ Sends(Frame("disconnect", r))
    /\ peer' = [peer EXCEPT ![r].client = Nobody]

RemoteStops(r) ==
    /\ peer[r].client # Nobody
    /\ Sends(Frame(IF peer[r].stopped THEN "xon" ELSE "xoff", r))
    /\ peer' = [peer EXCEPT ![r].stopped = ~@]

RemoteReplies(r, n) ==
    /\ peer[r].client # Nobody /\ peer[r].out.n = 0 /\ (peer[r].asked > 0 \/ Unasked)
    /\ peer' = [peer EXCEPT ![r] = [@ EXCEPT !.out = Start(n), !.asked = 0]]
    /\ UNCHANGED frames

RemoteSends(r) ==
    LET out == peer[r].out
    IN /\ peer[r].client # Nobody /\ out.n > 0
       /\ Sends([type |-> "data", src |-> r, dest |-> peer[r].client,
                 complete |-> out.sent + 1 = out.n, part |-> NextPart(out)])
       /\ peer' = [peer EXCEPT ![r].out = Advance(@)]

Remote(r) ==
    /\ \/ \E c \in Chans : RemoteConnects(r, c)
       \/ RemoteDisconnects(r) \/ RemoteStops(r) \/ RemoteSends(r)
       \/ \E n \in 1 .. Long : RemoteReplies(r, n)
    /\ UNCHANGED <<chan, last, blocked, given>>

MuxNext ==
    \/ Rx \/ Tx
    \/ \E c \in Chans : Say(c, Long)
    \/ \E r \in Servers : Remote(r)
MuxSpec == MuxInit /\ [][MuxNext]_mvars
MuxFairness == WF_mvars(Rx) /\ WF_mvars(Tx)

-----------------------------------------------------------------------------
(* Properties *)

\* A message is put together from its own frames, in order: the poll function
\* is given whole messages, and so is a server, also when a connection ended
\* in the middle of one (mux_poll_rx_data_decoded, mux_poll_tx_data).
WholeOK ==
    /\ \A c \in Chans : given[c] = <<>>
    /\ \A r \in Servers : Begins(peer[r].parts)

\* A channel is stopped exactly while its server wants it to be, once the
\* frames that said so have been received.
StoppedOK ==
    \A r \in Servers :
        peer[r].client # Nobody
            /\ (\A n \in 1 .. Len(frames) : frames[n].src = r => frames[n].type \notin {"xoff", "xon"})
        => (r \in blocked <=> peer[r].stopped)

\* Both: what channels carry is whole, and they carry it while they may.
MuxOK == WholeOK /\ StoppedOK

\* A message is sent, whatever the other channels have to send, unless its
\* server stops the channel (mux_poll_tx).
DataFlows ==
    \A c \in Chans : chan[c].tx.n > 0 ~> chan[c].tx.n = 0 \/ chan[c].server \in blocked
=============================================================================
