---------------------------- MODULE ConnectPair ----------------------------
(***************************************************************************)
(* Two ends of the link, both running connect.c, joined by two wires that  *)
(* keep frames in order and may lose them.  A poll of one end touches the  *)
(* other only through the wires, so the polls of the two do not overlap.   *)
(***************************************************************************)
EXTENDS Naturals, Sequences

CONSTANTS SeqEra, SeqSibo, WinEra, WinSibo, ReqRetries, DataRetries, Data,
          Short, NoFrame, MuxMayFail, MagicA, MagicB, MessagesA, MessagesB, WireMax, Lossy,
          FaultMax

VARIABLES
    activeA, enableA, phaseA, txIdleA, stateA, connectedA, eraA, timerA,
    retriesA, seqTxA, seqRxA, ctrlA, pendA, headA, tailA, framesA, rxDataA,
    magicA, outA, endingA, sentA, gotA,
    activeB, enableB, phaseB, txIdleB, stateB, connectedB, eraB, timerB,
    retriesB, seqTxB, seqRxB, ctrlB, pendB, headB, tailB, framesB, rxDataB,
    magicB, outB, endingB, sentB, gotB,
    ab, ba, \* the wires
    faults  \* timers that expired too soon, and times the cable was pulled

varsA ==
    <<activeA, enableA, phaseA, txIdleA, stateA, connectedA, eraA, timerA,
      retriesA, seqTxA, seqRxA, ctrlA, pendA, headA, tailA, framesA,
      rxDataA, magicA, outA, endingA, sentA, gotA>>
varsB ==
    <<activeB, enableB, phaseB, txIdleB, stateB, connectedB, eraB, timerB,
      retriesB, seqTxB, seqRxB, ctrlB, pendB, headB, tailB, framesB,
      rxDataB, magicB, outB, endingB, sentB, gotB>>
vars == <<varsA, varsB, ab, ba, faults>>

A == INSTANCE LinkEnd WITH
    active <- activeA, enable <- enableA, phase <- phaseA,
    txIdle <- txIdleA, state <- stateA, connected <- connectedA,
    era <- eraA, timer <- timerA, retries <- retriesA, seqTx <- seqTxA,
    seqRx <- seqRxA, ctrl <- ctrlA, pend <- pendA, head <- headA,
    tail <- tailA, frames <- framesA, rxData <- rxDataA, magic <- magicA,
    out <- outA, ending <- endingA, sent <- sentA, got <- gotA, from <- ba,
    to <- ab, Magic <- {MagicA}, Messages <- MessagesA
B == INSTANCE LinkEnd WITH
    active <- activeB, enable <- enableB, phase <- phaseB,
    txIdle <- txIdleB, state <- stateB, connected <- connectedB,
    era <- eraB, timer <- timerB, retries <- retriesB, seqTx <- seqTxB,
    seqRx <- seqRxB, ctrl <- ctrlB, pend <- pendB, head <- headB,
    tail <- tailB, frames <- framesB, rxData <- rxDataB, magic <- magicB,
    out <- outB, ending <- endingB, sent <- sentB, got <- gotB, from <- ab,
    to <- ba, Magic <- {MagicB}, Messages <- MessagesB

Init == A!EndInit /\ B!EndInit /\ faults = 0

\* Nothing is on its way from one end to the other, and no end has anything
\* left to send: the answers to everything sent have been received.
Quiet ==
    /\ ab = <<>> /\ ba = <<>> /\ outA = NoFrame /\ outB = NoFrame
    /\ ~A!HasWork /\ ~B!HasWork

\* The inactivity time-out, a minute, is longer than any retry time-out.
OnTimeA == Quiet /\ (stateA = "data" => stateB = "data")
OnTimeB == Quiet /\ (stateB = "data" => stateA = "data")

Step(end) == end /\ UNCHANGED faults
Fault(end) == faults < FaultMax /\ end /\ faults' = faults + 1

\* A timer that expires any sooner is a fault, like a pulled cable, and there
\* are at most FaultMax of them.
StepA ==
    /\ phaseB = "out" /\ UNCHANGED varsB
    /\ \/ Step(A!EndNext)
       \/ OnTimeA /\ Step(A!Expire)
       \/ ~OnTimeA /\ Fault(A!Expire)
       \/ Fault(A!Pull)
StepB ==
    /\ phaseA = "out" /\ UNCHANGED varsA
    /\ \/ Step(B!EndNext)
       \/ OnTimeB /\ Step(B!Expire)
       \/ ~OnTimeB /\ Fault(B!Expire)
       \/ Fault(B!Pull)

Next == StepA \/ StepB

Spec == Init /\ [][Next]_vars

----------------------------------------------------------------------------
(* Safety: what the link promises the multiplexors.                        *)

Increasing(s) == \A i \in 1 .. Len(s) - 1 : s[i] < s[i + 1]

\* No message is delivered twice or out of order, whatever is lost, however
\* often it is sent again, and even across a broken and remade connection.
InOrderOnce == Increasing(gotA) /\ Increasing(gotB)

\* Messages that leave a window which stays in use were acknowledged; those
\* must have reached the multiplexor of the other end.
Released(window, windowNext, stateNext, got) ==
    stateNext \in {"data", "data_ack"} =>
        \A m \in window \ windowNext : \E i \in DOMAIN got : got[i] = m

\* An end forgets a message on an acknowledge only if it was delivered: an
\* acknowledge left over from one connection is not taken for one of the
\* next.
AckedIsDelivered ==
    [][/\ Released(A!Outstanding, A!Outstanding', stateA', gotB)
       /\ Released(B!Outstanding, B!Outstanding', stateB', gotA)]_vars

----------------------------------------------------------------------------
(* Liveness.  Each end goes on while it has something to do, what is on a  *)
(* wire is received, what is being transmitted gets onto the wire, and     *)
(* when nothing is on its way time passes.  Receiving and transmitting     *)
(* wait for the polls in progress to end, and a multiplexor with a message *)
(* waits for room in the window: hence the strong fairness.                *)

Fairness ==
    /\ WF_vars(StepA /\ A!EndNext) /\ WF_vars(StepB /\ B!EndNext)
    /\ SF_vars(StepA /\ A!Receive) /\ SF_vars(StepB /\ B!Receive)
    /\ SF_vars(StepA /\ A!Transmit) /\ SF_vars(StepB /\ B!Transmit)
    /\ SF_vars(StepA /\ A!Submit) /\ SF_vars(StepB /\ B!Submit)
    /\ WF_vars(StepA /\ OnTimeA /\ A!Expire) /\ WF_vars(StepB /\ OnTimeB /\ B!Expire)

FairSpec == Spec /\ Fairness

\* Once both ends are connected every message arrives, on wires that lose
\* nothing, with timers that are long enough.
ConnectedDelivers ==
    (connectedA /\ connectedB)
        ~> (Len(gotB) = MessagesA /\ Len(gotA) = MessagesB)
=============================================================================
