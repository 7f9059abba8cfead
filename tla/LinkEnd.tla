------------------------------ MODULE LinkEnd ------------------------------
(***************************************************************************)
(* An end of the link as the other end sees it: Connect with the frames it *)
(* receives taken from one wire, the frames it sends put on another, and   *)
(* a multiplexor that hands over the messages 1, 2, 3 ... and keeps the    *)
(* ones it is given.                                                       *)
(***************************************************************************)
EXTENDS Connect, Sequences

CONSTANTS
    Messages,    \* how many messages this end has to send
    WireMax,     \* frames a wire holds; a transmitter waits for room
    Lossy        \* may a frame be corrupted, and so dropped by its CRC

VARIABLES
    from, to,    \* the wires: frames on their way to and from this end
    sent,        \* the number of messages handed to connect_tx
    got          \* the messages delivered to the multiplexor

EndInit == Init /\ from = <<>> /\ to = <<>> /\ sent = 0 /\ got = <<>>

\* The messages queued in the transmit window.
Outstanding == {frames[SlotOf(n)].body : n \in 1 .. Used}

Kept == UNCHANGED <<from, to, sent, got>>

Begin == sent = 0 /\ Start /\ Kept

Receive ==
    /\ from # <<>>
    /\ Rx(Head(from))
    /\ from' = Tail(from)
    /\ UNCHANGED <<to, sent, got>>

\* Something to send, or to be handed over for sending.
HasWork ==
    \/ out = NoFrame /\ (ctrl # NoFrame \/ pend # head)
    \/ sent < Messages /\ 0 < Free

\* A poll that has nothing to receive, to time out or to send changes nothing,
\* and is left out.
ReceiveNothing == (timer = "due" \/ HasWork) /\ NoRx /\ Kept

\* mux_poll is given the accepted frame.
Deliver == got' = IF rxData = NoFrame THEN got ELSE Append(got, rxData.body)

Consume == MuxPoll /\ Deliver /\ UNCHANGED <<from, to, sent>>

Submit ==
    /\ sent < Messages
    /\ MuxPollTx(sent + 1)
    /\ sent' = sent + 1
    /\ Deliver
    /\ UNCHANGED <<from, to>>

Continue == (PollTimer \/ MuxSkipped \/ PollTx) /\ Kept

\* frame.c has sent the last byte of a frame.
Transmit ==
    /\ FrameSent
    /\ \/ Len(to) < WireMax /\ to' = Append(to, out)
       \/ Lossy /\ to' = to
    /\ UNCHANGED <<from, sent, got>>

Expire == Tick /\ Kept

\* The cable is pulled: what has not arrived is lost, in both directions.
Pull ==
    /\ PollDisconnected
    /\ from' = <<>> /\ to' = <<>>
    /\ UNCHANGED <<sent, got>>

EndNext ==
    \/ Begin \/ Receive \/ ReceiveNothing \/ Consume \/ Submit \/ Continue
    \/ Transmit
=============================================================================
