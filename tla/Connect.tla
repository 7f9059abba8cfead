------------------------------ MODULE Connect ------------------------------
(***************************************************************************)
(* One end of the link layer of PsiFS, src/src/connect.c: an automatic     *)
(* repeat request protocol with a go-back-N window, two dialects (SIBO and *)
(* ERA), a connection handshake and a handshaked or abortive disconnect.   *)
(*                                                                         *)
(* connect_poll is the only routine that runs the protocol.  It is never   *)
(* re-entered (link_sema), so it is split at its sequence points: phase is *)
(* "out" between polls and "timer", "mux" and "tx" inside one.  The frame  *)
(* layer below is the variable out, the frame its transmitter holds, and   *)
(* the frames the caller lets it receive; the multiplexor above is the     *)
(* success or failure of mux_start, mux_end and mux_poll and the frame     *)
(* mux_poll hands to connect_tx.  Time is abstract: an armed timer may     *)
(* become due between two polls.                                           *)
(***************************************************************************)
EXTENDS Naturals

CONSTANTS
    SeqEra,      \* CONNECT_SEQ_DATA_PDU_NUM_ERA, 2048 in the code
    SeqSibo,     \* CONNECT_SEQ_DATA_PDU_NUM_SIBO, 8
    WinEra,      \* CONNECT_MAX_WINDOW_ERA, 5 (and CONNECT_MAX_WINDOW)
    WinSibo,     \* CONNECT_MAX_WINDOW_SIBO, 1
    ReqRetries,  \* CONNECT_REQ_RETRIES, 4
    DataRetries, \* CONNECT_DATA_RETRIES, 8
    Data,        \* what the multiplexor can ask to have carried
    Magic,       \* the values util_time() can give connect_magic
    Short,       \* the body of a frame too short to hold a magic number
    NoFrame,     \* no frame pending
    MuxMayFail   \* may mux_start, mux_end and mux_poll return an error

ASSUME WindowAssumption ==
    /\ WinSibo \in Nat \ {0} /\ WinEra \in Nat \ {0} /\ WinSibo <= WinEra
    /\ SeqSibo \in Nat /\ SeqEra \in Nat /\ SeqSibo <= SeqEra
    /\ WinSibo < SeqSibo /\ WinEra < SeqEra

ASSUME RetriesAssumption ==
    ReqRetries \in Nat \ {0} /\ DataRetries \in Nat \ {0}

ASSUME MuxAssumption == MuxMayFail \in BOOLEAN

SeqNum  == 0 .. SeqEra - 1
Slots == WinEra + 1               \* CONNECT_MAX_WINDOW + 1 ring slots
Slot == 0 .. Slots - 1

\* frame_data, with the cont and seq of a request frame folded into kind.
Ack(q)       == [kind |-> "ack", seq |-> q, body |-> Short]
Disc         == [kind |-> "disc", seq |-> 0, body |-> Short]
Req          == [kind |-> "req", seq |-> 0, body |-> Short]
ReqReq       == [kind |-> "reqreq", seq |-> 0, body |-> Short]
Con(m)       == [kind |-> "con", seq |-> 0, body |-> m]
DataOf(q, d) == [kind |-> "data", seq |-> q, body |-> d]

DataFrame == {DataOf(q, d) : q \in SeqNum, d \in Data}
CtrlFrame == {Ack(q) : q \in SeqNum} \cup {Disc, ReqReq} \cup {Con(m) : m \in Magic}
Frame == DataFrame \cup CtrlFrame \cup {Req, Con(Short)}

ASSUME NoFrameAssumption == NoFrame \notin Frame

VARIABLES
    active, enable,      \* connect_active, connect_enable
    phase,               \* where connect_poll is; connect_polled = phase # "out"
    txIdle,              \* the tx_idle argument of the poll in progress
    state,               \* connect_state
    connected, era,      \* connect_connected, connect_era
    timer,               \* connect_timer, and whether connect_timeout passed
    retries,             \* connect_retries
    seqTx, seqRx,        \* connect_seq_tx, connect_seq_rx
    ctrl,                \* connect_ctrl_frame if connect_ctrl_pending
    pend, head, tail,    \* connect_tx_data_pending, _head, _tail
    frames,              \* connect_tx_data_frame
    rxData,              \* connect_rx_data_frame if connect_rx_data_pending
    magic,               \* connect_magic
    out,                 \* the frame the transmitter of frame.c is sending
    ending               \* where a connect_end in progress waits, or "no"

ring == <<pend, head, tail, frames>>
life == <<active, enable, ending>>
vars == <<active, enable, phase, txIdle, state, connected, era, timer,
          retries, seqTx, seqRx, ctrl, pend, head, tail, frames, rxData,
          magic, out, ending>>

TypeOK ==
    /\ active \in BOOLEAN /\ enable \in BOOLEAN
    /\ phase \in {"out", "timer", "mux", "tx"}
    /\ txIdle \in BOOLEAN
    /\ state \in {"idle", "idle_req", "idle_ack", "data", "data_ack"}
    /\ connected \in BOOLEAN /\ era \in BOOLEAN
    /\ timer \in {"stopped", "running", "due"}
    /\ retries \in Nat
    /\ seqTx \in SeqNum /\ seqRx \in SeqNum
    /\ ctrl \in CtrlFrame \cup {NoFrame}
    /\ pend \in Slot /\ head \in Slot /\ tail \in Slot
    /\ frames \in [Slot -> DataFrame \cup {Ack(0)}]
    /\ rxData \in DataFrame \cup {NoFrame}
    /\ magic \in Magic
    /\ out \in Frame \cup {NoFrame}
    /\ ending \in {"no", "mux", "muxidle", "data", "disc"}

Init ==
    /\ active = FALSE /\ enable = FALSE /\ phase = "out" /\ txIdle = FALSE
    /\ state = "idle" /\ connected = FALSE /\ era = FALSE
    /\ timer = "stopped" /\ retries = 0 /\ seqTx = 0 /\ seqRx = 0
    /\ ctrl = NoFrame /\ pend = 0 /\ head = 0 /\ tail = 0
    /\ frames = [i \in Slot |-> Ack(0)]
    /\ rxData = NoFrame /\ magic \in Magic /\ out = NoFrame /\ ending = "no"

----------------------------------------------------------------------------
(* The transmit window.                                                    *)

IncSeq(q) == (q + 1) % (IF era THEN SeqEra ELSE SeqSibo)
IncSlotUnwrapped(i) == i + 1                          \* mutant
IncSlot(i) == (i + 1) % Slots
Window == IF era THEN WinEra ELSE WinSibo

\* Frames queued and not acknowledged, and how many of them were sent.
Used   == (head + Slots - tail) % Slots
Sent   == (pend + Slots - tail) % Slots
FreeOneMore == IF connected THEN Window + 1 - Used ELSE 0   \* mutant
Free   == IF connected THEN Window - Used ELSE 0
SlotOf(n) == (tail + n) % Slots            \* the n-th unacknowledged frame

\* The scan of connect_poll_rx_ack stops at the last frame with the number
\* acknowledged; n = 0 when there is none.
LastMatch(n, q) ==
    /\ n = 0 \/ frames[SlotOf(n)].seq = q
    /\ \A m \in n + 1 .. Used : frames[SlotOf(m)].seq # q

----------------------------------------------------------------------------
(* connect_reset, and the two calls to the multiplexor.                    *)

\* connect_mux_connected: the connection counts as made if mux_start works.
MuxConnected ==
    connected' \in IF connected \/ ~MuxMayFail THEN {TRUE} ELSE BOOLEAN

\* connect_mux_disconnected.
MuxLeftRunning == connected' = connected                     \* mutant
MuxDisconnected ==
    connected' \in IF connected /\ MuxMayFail THEN BOOLEAN ELSE {FALSE}

Reset ==
    /\ state' = "idle" /\ era' = FALSE /\ timer' = "running"
    /\ seqTx' = 0 /\ seqRx' = 0
    /\ pend' = 0 /\ head' = 0 /\ tail' = 0 /\ UNCHANGED frames
    /\ rxData' = NoFrame
    /\ magic' \in Magic
    /\ MuxDisconnected

\* A handler that calls the multiplexor ends the poll if that failed.
Proceed(next, ok) == phase' = (IF ok THEN next ELSE "out")

ResetInPoll(next) == Reset /\ Proceed(next, ~connected') /\ UNCHANGED retries

\* The handshake is complete: enter the data state.
Complete(tx, dialect, answer) ==
    /\ state' = "data" /\ era' = dialect
    /\ seqTx' = tx /\ seqRx' = 0
    /\ ctrl' = answer
    /\ timer' = "running"
    /\ MuxConnected /\ Proceed("timer", connected')
    /\ UNCHANGED <<retries, pend, head, tail, frames, rxData, magic>>

ConfirmWithoutTimer(dialect) ==                              \* mutant
    /\ state' = "idle_ack" /\ era' = dialect
    /\ ctrl' = Con(magic)
    /\ timer' = "stopped" /\ retries' = ReqRetries
    /\ phase' = "timer"
    /\ UNCHANGED <<connected, seqTx, seqRx, pend, head, tail, frames, rxData,
                   magic>>

\* Answer a connection request with a connection confirm.
Confirm(dialect) ==
    /\ state' = "idle_ack" /\ era' = dialect
    /\ ctrl' = Con(magic)
    /\ timer' = "running" /\ retries' = ReqRetries
    /\ phase' = "timer"
    /\ UNCHANGED <<connected, seqTx, seqRx, pend, head, tail, frames, rxData,
                   magic>>

Ignore ==
    /\ phase' = "timer"
    /\ UNCHANGED <<state, connected, era, timer, retries, seqTx, seqRx, ctrl,
                   pend, head, tail, frames, rxData, magic>>

----------------------------------------------------------------------------
(* connect_poll, first part: the received frame.                           *)

Polling == phase = "out" /\ active

\* What every start of a poll with the remote present does.
Enter == Polling /\ txIdle' = (out = NoFrame) /\ UNCHANGED <<life, out>>

NoRx == Enter /\ Ignore

RxAckIdleDisabled(q) ==                                      \* mutant
    Enter /\ state \in {"idle_req", "idle_ack"} /\ Complete(q, era, ctrl)

RxAckIdle(q) ==
    /\ Enter
    /\ state \in {"idle_req", "idle_ack"}
    /\ IF enable THEN Complete(q, era, ctrl) ELSE Ignore

RxAckData(q) ==
    /\ Enter
    /\ state = "data_ack"
    /\ \E n \in 0 .. Used :
         /\ LastMatch(n, q)
         /\ tail' = SlotOf(n)
         /\ pend' = IF Sent < n THEN SlotOf(n) ELSE pend
         /\ state' = IF SlotOf(n) = head THEN "data" ELSE "data_ack"
    /\ timer' = "running"
    /\ phase' = "timer"
    /\ UNCHANGED <<connected, era, retries, seqTx, seqRx, ctrl, head, frames,
                   rxData, magic>>

RxAckIgnored(q) == Enter /\ state \in {"idle", "data"} /\ Ignore

RxDisc ==
    /\ Enter
    /\ IF state = "idle" THEN Ignore ELSE ResetInPoll("timer") /\ UNCHANGED ctrl

\* A request, request-request or confirm while connected breaks the connection.
RxWhileConnected ==
    /\ Enter
    /\ state \in {"data", "data_ack"}
    /\ ResetInPoll("timer") /\ UNCHANGED ctrl

RxReq ==
    /\ Enter
    /\ state \notin {"data", "data_ack"}
    /\ IF ~enable THEN Ignore
       ELSE IF state = "idle" THEN Confirm(FALSE)
       ELSE Complete(0, FALSE, Ack(0))

RxReqReq ==
    /\ Enter
    /\ state \notin {"data", "data_ack"}
    /\ IF enable THEN Confirm(TRUE) ELSE Ignore

\* A confirm holding our own magic number is our own frame echoed back.
RxReqCon(m) ==
    /\ Enter
    /\ state \notin {"data", "data_ack"}
    /\ IF state = "idle_ack" /\ enable /\ m # Short /\ m # magic
       THEN Complete(0, TRUE, Ack(0)) ELSE Ignore

RxDataUnchecked(f) ==                                        \* mutant
    /\ Enter
    /\ state \in {"data", "data_ack"}
    /\ seqRx' = f.seq /\ rxData' = f
    /\ ctrl' = Ack(f.seq) /\ timer' = "running"
    /\ phase' = "timer"
    /\ UNCHANGED <<state, connected, era, retries, seqTx, pend, head, tail,
                   frames, magic>>

RxDataNext(f) ==
    /\ Enter
    /\ state \in {"data", "data_ack"} /\ f.seq = IncSeq(seqRx)
    /\ seqRx' = f.seq /\ rxData' = f
    /\ ctrl' = Ack(f.seq) /\ timer' = "running"
    /\ phase' = "timer"
    /\ UNCHANGED <<state, connected, era, retries, seqTx, pend, head, tail,
                   frames, magic>>

RxDataEchoed(f) ==                                           \* mutant
    /\ Enter
    /\ state \in {"data", "data_ack"} /\ f.seq # IncSeq(seqRx)
    /\ ctrl' = Ack(f.seq)
    /\ phase' = "timer"
    /\ UNCHANGED <<state, connected, era, timer, retries, seqTx, seqRx, pend,
                   head, tail, frames, rxData, magic>>

\* Not the frame expected: acknowledge the last one that was.
RxDataRepeat(f) ==
    /\ Enter
    /\ state \in {"data", "data_ack"} /\ f.seq # IncSeq(seqRx)
    /\ ctrl' = Ack(seqRx)
    /\ phase' = "timer"
    /\ UNCHANGED <<state, connected, era, timer, retries, seqTx, seqRx, pend,
                   head, tail, frames, rxData, magic>>

RxDataIgnored == Enter /\ state \notin {"data", "data_ack"} /\ Ignore

\* connect_poll_rx.
Rx(f) ==
    \/ f.kind = "ack" /\ (RxAckIdle(f.seq) \/ RxAckData(f.seq)
                            \/ RxAckIgnored(f.seq))
    \/ f.kind = "disc" /\ RxDisc
    \/ f.kind \in {"req", "reqreq", "con"} /\ RxWhileConnected
    \/ f.kind = "req" /\ RxReq
    \/ f.kind = "reqreq" /\ RxReqReq
    \/ f.kind = "con" /\ RxReqCon(f.body)
    \/ f.kind = "data" /\ (RxDataNext(f) \/ RxDataRepeat(f) \/ RxDataIgnored)

\* The remote end has gone (DSR is low): frame_poll resets its transmitter
\* and connect_poll_disconnected drops everything.
PollDisconnected ==
    /\ Polling
    /\ ctrl' = NoFrame /\ out' = NoFrame
    /\ Reset
    /\ UNCHANGED <<life, phase, txIdle, retries>>

----------------------------------------------------------------------------
(* connect_poll, second part: connect_poll_timer and connect_poll_timeout. *)

TimerNotDue ==
    /\ phase = "timer" /\ timer # "due"
    /\ phase' = "mux"
    /\ UNCHANGED <<life, txIdle, state, connected, era, timer, retries, seqTx,
                   seqRx, ctrl, ring, rxData, magic, out>>

Timeout == phase = "timer" /\ timer = "due" /\ UNCHANGED <<life, txIdle>>

TimeoutIdle ==
    /\ Timeout /\ state = "idle"
    /\ IF enable
       THEN state' = "idle_req" /\ ctrl' = ReqReq /\ timer' = "running"
       ELSE timer' = "stopped" /\ UNCHANGED <<state, ctrl>>
    /\ phase' = "mux"
    /\ UNCHANGED <<connected, era, retries, seqTx, seqRx, ring, rxData, magic,
                   out>>

\* A retried request may go out at another speed, so whatever the
\* transmitter holds is dropped (link_next_baud, frame_reset).
TimeoutIdleReq ==
    /\ Timeout /\ state = "idle_req" /\ enable
    /\ ctrl' = ReqReq /\ timer' = "running" /\ out' = NoFrame
    /\ phase' = "mux"
    /\ UNCHANGED <<state, connected, era, retries, seqTx, seqRx, ring, rxData,
                   magic>>

LastRetryMissed == FALSE                                     \* mutant
LastRetry == retries = 1

TimeoutIdleAck ==
    /\ Timeout /\ state = "idle_ack" /\ enable /\ ~LastRetry
    /\ retries' = retries - 1
    /\ ctrl' = Con(magic) /\ timer' = "running"
    /\ phase' = "mux"
    /\ UNCHANGED <<state, connected, era, seqTx, seqRx, ring, rxData, magic,
                   out>>

TimeoutGiveUp ==
    /\ Timeout
    /\ \/ state = "idle_req" /\ ~enable /\ UNCHANGED retries
       \/ state = "idle_ack" /\ ~enable /\ UNCHANGED retries
       \/ state = "idle_ack" /\ enable /\ LastRetry /\ retries' = 0
    /\ Reset /\ Proceed("mux", ~connected')
    /\ UNCHANGED <<ctrl, out>>

TimeoutData ==
    /\ Timeout
    /\ \/ state = "data" /\ UNCHANGED retries
       \/ state = "data_ack" /\ LastRetry /\ retries' = 0
    /\ ctrl' = Disc
    /\ Reset /\ Proceed("mux", ~connected')
    /\ UNCHANGED out

\* Go back to the oldest unacknowledged frame.
TimeoutDataAck ==
    /\ Timeout /\ state = "data_ack" /\ ~LastRetry
    /\ retries' = retries - 1
    /\ pend' = tail /\ timer' = "running"
    /\ phase' = "mux"
    /\ UNCHANGED <<state, connected, era, seqTx, seqRx, ctrl, head, tail,
                   frames, rxData, magic, out>>

PollTimer ==
    \/ TimerNotDue \/ TimeoutIdle \/ TimeoutIdleReq \/ TimeoutIdleAck
    \/ TimeoutGiveUp \/ TimeoutData \/ TimeoutDataAck

----------------------------------------------------------------------------
(* connect_poll, third part: mux_poll, which may call connect_tx once.     *)

MuxSkipped ==
    /\ phase = "mux" /\ ~connected
    /\ phase' = "tx"
    /\ UNCHANGED <<life, txIdle, state, connected, era, timer, retries, seqTx,
                   seqRx, ctrl, ring, rxData, magic, out>>

\* mux_poll takes the received frame and sends nothing, or fails.
MuxPoll ==
    /\ phase = "mux" /\ connected
    /\ rxData' = NoFrame
    /\ phase' \in IF MuxMayFail THEN {"tx", "out"} ELSE {"tx"}
    /\ UNCHANGED <<life, txIdle, state, connected, era, timer, retries, seqTx,
                   seqRx, ctrl, ring, magic, out>>

MuxPollTxNumberedLate(d) ==                                  \* mutant
    /\ phase = "mux" /\ 0 < Free
    /\ rxData' = NoFrame
    /\ seqTx' = IncSeq(seqTx)
    /\ head' = IncSlot(head)
    /\ frames' = [frames EXCEPT ![IncSlot(head)] = DataOf(seqTx, d)]
    /\ timer' = "running" /\ retries' = DataRetries
    /\ state' = "data_ack"
    /\ phase' = "tx"
    /\ ending' \in IF ending = "mux" THEN {"mux", "muxidle"} ELSE {ending}
    /\ UNCHANGED <<active, enable, txIdle, connected, era, seqRx, ctrl, pend,
                   tail, magic, out>>

\* mux_poll takes the received frame and hands d to connect_tx.  During
\* mux_end the frame may be the last queued control frame.
MuxPollTx(d) ==
    /\ phase = "mux" /\ 0 < Free
    /\ rxData' = NoFrame
    /\ seqTx' = IncSeq(seqTx)
    /\ head' = IncSlot(head)
    /\ frames' = [frames EXCEPT ![IncSlot(head)] = DataOf(IncSeq(seqTx), d)]
    /\ timer' = "running" /\ retries' = DataRetries
    /\ state' = "data_ack"
    /\ phase' = "tx"
    /\ ending' \in IF ending = "mux" THEN {"mux", "muxidle"} ELSE {ending}
    /\ UNCHANGED <<active, enable, txIdle, connected, era, seqRx, ctrl, pend,
                   tail, magic, out>>

----------------------------------------------------------------------------
(* connect_poll, last part: connect_poll_tx.                               *)

Leave == phase = "tx" /\ phase' = "out" /\ txIdle' = FALSE

PollTxCtrl ==
    /\ Leave /\ txIdle /\ ctrl # NoFrame
    /\ out' = ctrl /\ ctrl' = NoFrame
    /\ UNCHANGED <<life, state, connected, era, timer, retries, seqTx, seqRx,
                   ring, rxData, magic>>

PollTxData ==
    /\ Leave /\ txIdle /\ ctrl = NoFrame /\ pend # head
    /\ pend' = IncSlot(pend)
    /\ out' = frames[IncSlot(pend)]
    /\ UNCHANGED <<life, state, connected, era, timer, retries, seqTx, seqRx,
                   ctrl, head, tail, frames, rxData, magic>>

PollTxNothing ==
    /\ Leave /\ (~txIdle \/ (ctrl = NoFrame /\ pend = head))
    /\ UNCHANGED <<life, state, connected, era, timer, retries, seqTx, seqRx,
                   ctrl, ring, rxData, magic, out>>

PollTx == PollTxCtrl \/ PollTxData \/ PollTxNothing

----------------------------------------------------------------------------
(* connect_start and connect_end.                                          *)

Start ==
    /\ phase = "out" /\ ~active /\ ending = "no"
    /\ Reset
    /\ active' = TRUE /\ enable' = TRUE
    /\ UNCHANGED <<phase, txIdle, retries, ctrl, out, ending>>

Endable == phase = "out" /\ active /\ ending = "no"

\* connect_end(TRUE): if mux_end fails the end stays active, but disabled.
EndNow ==
    /\ Endable
    /\ enable' = FALSE
    /\ MuxDisconnected /\ active' = connected'
    /\ UNCHANGED <<phase, txIdle, state, era, timer, retries, seqTx, seqRx,
                   ctrl, ring, rxData, magic, out, ending>>

\* connect_end(FALSE) up to the first wait.  mux_end queues a control frame
\* and waits for the queue to drain; an error of mux_end is overwritten by
\* the result of connect_disconnect.
EndBegin ==
    /\ Endable
    /\ enable' = FALSE
    /\ ending' \in IF ~connected THEN {"data"}
                   ELSE IF MuxMayFail THEN {"mux", "data"} ELSE {"mux"}
    /\ UNCHANGED <<active, phase, txIdle, state, connected, era, timer,
                   retries, seqTx, seqRx, ctrl, ring, rxData, magic, out>>

Waiting(where) == phase = "out" /\ ending = where

\* The wait of mux_end is over.
EndMux ==
    /\ Waiting("muxidle")
    /\ connected' = FALSE /\ ending' = "data"
    /\ UNCHANGED <<active, enable, phase, txIdle, state, era, timer, retries,
                   seqTx, seqRx, ctrl, ring, rxData, magic, out>>

\* connect_disconnect: the window is empty, send a disconnect frame.
EndData ==
    /\ Waiting("data") /\ state # "data_ack"
    /\ ctrl' = Disc
    /\ Reset
    /\ ending' = IF connected' THEN "no" ELSE "disc"
    /\ UNCHANGED <<active, enable, phase, txIdle, retries, out>>

EndDisc ==
    /\ Waiting("disc") /\ ctrl = NoFrame
    /\ active' = FALSE /\ ending' = "no"
    /\ UNCHANGED <<enable, phase, txIdle, state, connected, era, timer,
                   retries, seqTx, seqRx, ctrl, ring, rxData, magic, out>>

\* Escape is pressed during a wait.  mux_end gives up, and its error is
\* forgotten; connect_disconnect gives up, and connect_active stays TRUE.
EndEscape ==
    /\ \/ Waiting("mux") /\ ending' = "data"
       \/ Waiting("data") /\ state = "data_ack" /\ ending' = "no"
       \/ Waiting("disc") /\ ctrl # NoFrame /\ ending' = "no"
    /\ UNCHANGED <<active, enable, phase, txIdle, state, connected, era,
                   timer, retries, seqTx, seqRx, ctrl, ring, rxData, magic,
                   out>>

End == EndNow \/ EndBegin \/ EndMux \/ EndData \/ EndDisc \/ EndEscape

----------------------------------------------------------------------------
(* The environment: time, and the transmitter of the frame layer.          *)

Tick ==
    /\ phase = "out" /\ timer = "running"
    /\ timer' = "due"
    /\ UNCHANGED <<life, phase, txIdle, state, connected, era, retries, seqTx,
                   seqRx, ctrl, ring, rxData, magic, out>>

FrameSent ==
    /\ phase = "out" /\ out # NoFrame
    /\ out' = NoFrame
    /\ UNCHANGED <<life, phase, txIdle, state, connected, era, timer, retries,
                   seqTx, seqRx, ctrl, ring, rxData, magic>>

Poll == NoRx \/ PollTimer \/ MuxSkipped \/ MuxPoll \/ PollTx

Next ==
    \/ \E f \in Frame : Rx(f)
    \/ Poll \/ (\E d \in Data : MuxPollTx(d))
    \/ PollDisconnected
    \/ Start \/ End
    \/ Tick \/ FrameSent

Spec == Init /\ [][Next]_vars
----------------------------------------------------------------------------
(* Safety.                                                                 *)

\* The transmit window: at most the negotiated number of frames is queued,
\* the frames sent are the oldest ones queued, and the state says exactly
\* whether any is unacknowledged.  connect_free_tx_window subtracts
\* unsigned numbers, and the wait of connect_disconnect is on the state.
WindowOK ==
    /\ Used <= Window
    /\ Sent <= Used
    /\ (state = "data_ack") <=> (Used # 0)

\* The unacknowledged frames carry the last numbers used, in order and
\* without gaps, so that one cumulative acknowledge can name any of them.
SeqOK ==
    \A n \in 1 .. Used :
        LET q == frames[SlotOf(n)].seq IN
        IF n = Used THEN q = seqTx ELSE frames[SlotOf(n + 1)].seq = IncSeq(q)

\* An acknowledge in the single control slot is never out of date: what is
\* overwritten in that slot was superseded.
AckOK ==
    state \in {"data", "data_ack"} /\ ctrl # NoFrame /\ ctrl.kind = "ack"
        => ctrl.seq = seqRx

\* Something always happens next: the timer is armed in every state that
\* waits for the remote end.
TimerOK ==
    active /\ (state # "idle" \/ enable) => timer # "stopped"

\* The retry counter is unsigned and decremented before it is tested: it is
\* never zero in a state whose time-out decrements it.
RetriesOK == state \in {"idle_ack", "data_ack"} => retries >= 1

\* The multiplexor runs exactly while the protocol is in a data state (with
\* a multiplexor that does not fail, and but for the last part of connect_end).
ConnectedOK ==
    /\ connected => state \in {"data", "data_ack"}
    /\ state \in {"data", "data_ack"} /\ enable => connected

\* A connection is only ever made when enabled, and never over another one:
\* nothing that was in flight when connect_end began can bring it back.
NoLateConnection ==
    [][state' = "data" /\ state \notin {"data", "data_ack"}
         => enable /\ ~connected]_vars

----------------------------------------------------------------------------
(* Liveness.  link_poll is called from the idle and ticker events of the   *)
(* desktop and in a loop by everything that waits, so a poll that can      *)
(* start does start and runs to its end; time passes; the transmitter      *)
(* drains; and a wait that is over is left.  The multiplexor serves its    *)
(* control queue first, whenever it is polled with room in the window.     *)

Fairness ==
    /\ WF_vars(NoRx \/ PollTimer \/ MuxSkipped \/ MuxPoll \/ PollTx)
    /\ SF_vars(\E d \in Data : MuxPollTx(d) /\ ending' # "mux")
    /\ WF_vars(Tick) /\ WF_vars(FrameSent)
    /\ WF_vars(EndMux \/ EndData \/ EndDisc)

FairSpec == Spec /\ Fairness

\* A disconnect that loses its connection while mux_end waits for the
\* control queue to drain does not wait for ever: connect_disconnect
\* "reverts to an abortive disconnect if necessary".
EndOutlivesConnection == (ending = "mux" /\ ~connected) ~> ending # "mux"
=============================================================================
