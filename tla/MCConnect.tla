----------------------------- MODULE MCConnect -----------------------------
(* One end of the link against any frames (Connect), with one message and  *)
(* two magic numbers, and two ends against each other (ConnectPair), whose *)
(* messages are numbers, one after another in one run. part is what is     *)
(* running.                                                                *)
EXTENDS Connect, TLC
CONSTANTS m1, m2, d1, mA, mB
MCMagic == {m1, m2}
MCData == {d1}

VARIABLES
    part,
    activeA, enableA, phaseA, txIdleA, stateA, connectedA, eraA, timerA,
    retriesA, seqTxA, seqRxA, ctrlA, pendA, headA, tailA, framesA, rxDataA,
    magicA, outA, endingA, sentA, gotA,
    activeB, enableB, phaseB, txIdleB, stateB, connectedB, eraB, timerB,
    retriesB, seqTxB, seqRxB, ctrlB, pendB, headB, tailB, framesB, rxDataB,
    magicB, outB, endingB, sentB, gotB,
    ab, ba, faults

P == INSTANCE ConnectPair WITH
    Data <- 1 .. 4, MagicA <- mA, MagicB <- mB, MessagesA <- 3, MessagesB <- 1, WireMax <- 2,
    Lossy <- TRUE, FaultMax <- 1

pvars ==
    <<activeA, enableA, phaseA, txIdleA, stateA, connectedA, eraA, timerA,
      retriesA, seqTxA, seqRxA, ctrlA, pendA, headA, tailA, framesA, rxDataA,
      magicA, outA, endingA, sentA, gotA,
      activeB, enableB, phaseB, txIdleB, stateB, connectedB, eraB, timerB,
      retriesB, seqTxB, seqRxB, ctrlB, pendB, headB, tailB, framesB, rxDataB,
      magicB, outB, endingB, sentB, gotB, ab, ba, faults>>

MCInit == part \in {"end", "pair"} /\ Init /\ P!Init /\ (part = "pair" => magic = m1)
MCNext ==
    \/ part = "end" /\ Next /\ UNCHANGED <<part, pvars>>
    \/ part = "pair" /\ P!Next /\ UNCHANGED <<part, vars>>
MCSpec == MCInit /\ [][MCNext]_<<part, vars, pvars>>

\* No operator of Connect tells one magic number from the other.
MagicSymmetry == Permutations(MCMagic)
\* Nor does any look into the frame being transmitted: only LinkEnd does.
TransmitView ==
    <<active, enable, phase, txIdle, state, connected, era, timer, retries,
      seqTx, seqRx, ctrl, ring, rxData, magic, out = NoFrame, ending, part, pvars>>

\* Nothing arrives twice or out of order (connect.c with frame.c).
InOrderOnce == P!InOrderOnce

\* Nothing is forgotten that has not arrived (connect_poll_rx_ack).
AckedIsDelivered == P!AckedIsDelivered
=============================================================================
