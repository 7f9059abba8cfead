--------------------------- MODULE ConnectProofs ---------------------------
(***************************************************************************)
(* What holds of connect.c for every window size, every range of sequence  *)
(* numbers, any retry counts, any frames received, and whether or not the  *)
(* multiplexor fails.  The invariant is inductive as a whole: the window   *)
(* needs the types of its indices, the types need the retry counter not to *)
(* be zero when it is decremented, and the numbers need the window.        *)
(***************************************************************************)
EXTENDS Connect, TLAPS

\* The inductive invariant: the type invariant and four of the safety
\* invariants of Connect.
IInv == TypeOK /\ WindowOK /\ SeqOK /\ RetriesOK /\ TimerOK

----------------------------------------------------------------------------
(* Ring arithmetic.                                                        *)

\* Reducing a number below twice the modulus is one subtraction.
LEMMA ModTwice ==
    ASSUME NEW n \in Nat \ {0}, NEW x \in Nat, x < 2 * n
    PROVE  x % n = IF x < n THEN x ELSE x - n
<1>1. CASE x < n  BY <1>1
<1>2. CASE x >= n
  <2>1. x - n \in 0 .. n - 1  BY <1>2
  <2>2. x = n + (x - n)  OBVIOUS
  <2>3. x % n = x - n  BY <2>1, <2>2
  <2> QED  BY <1>2, <2>3
<1> QED  BY <1>1, <1>2

\* The slots of the ring (connect_tx_data_frame) are numbered from 0, one more than the window.
LEMMA SlotsFacts ==
    /\ Slots \in Nat \ {0} /\ WinEra \in Nat /\ Slots = WinEra + 1 /\ 2 <= Slots
    /\ Slot = 0 .. Slots - 1 /\ 0 \in Slot
BY WindowAssumption DEF Slots, Slot

\* The position n slots after t, and the number of slots from t up to h.
At(t, n)   == (t + n) % Slots
Dist(h, t) == (h + Slots - t) % Slots

\* The distance in the ring, without the remainder
LEMMA DistValue ==
    \A h, t \in Slot :
        /\ Dist(h, t) = IF t <= h THEN h - t ELSE h + Slots - t
        /\ Dist(h, t) \in 0 .. WinEra
<1> TAKE h, t \in Slot
<1> DEFINE x == h + Slots - t
<1>1. x \in Nat /\ x < 2 * Slots  BY SlotsFacts
<1>2. x % Slots = IF x < Slots THEN x ELSE x - Slots
  BY ONLY <1>1, SlotsFacts, ModTwice
<1>3. Dist(h, t) = IF t <= h THEN h - t ELSE h + Slots - t
  BY <1>2, SlotsFacts DEF Dist
<1> QED  BY <1>3, SlotsFacts

\* The position in the ring, without the remainder
LEMMA AtValue ==
    \A t \in Slot, n \in 0 .. Slots :
        /\ At(t, n) = IF t + n < Slots THEN t + n ELSE t + n - Slots
        /\ At(t, n) \in Slot
<1> TAKE t \in Slot, n \in 0 .. Slots
<1> DEFINE x == t + n
<1>1. x \in Nat /\ x < 2 * Slots  BY SlotsFacts
<1>2. x % Slots = IF x < Slots THEN x ELSE x - Slots
  BY ONLY <1>1, SlotsFacts, ModTwice
<1>3. At(t, n) = IF t + n < Slots THEN t + n ELSE t + n - Slots
  BY <1>1, <1>2, SlotsFacts DEF At
<1> QED  BY <1>3, <1>1, SlotsFacts

\* At and Dist are inverses of one another, and moving either end of a
\* range of slots changes its length by as much.
LEMMA AtDist ==
    ASSUME NEW h \in Slot, NEW t \in Slot
    PROVE  At(t, Dist(h, t)) = h
<1>1. Dist(h, t) \in 0 .. Slots
  <2>1. Dist(h, t) \in 0 .. WinEra  BY DistValue
  <2> QED  BY <2>1, SlotsFacts
<1>2. Dist(h, t) = IF t <= h THEN h - t ELSE h + Slots - t  BY DistValue
<1>3. /\ At(t, Dist(h, t)) =
            IF t + Dist(h, t) < Slots THEN t + Dist(h, t)
            ELSE t + Dist(h, t) - Slots
  BY <1>1, AtValue
<1> QED  BY <1>2, <1>3, SlotsFacts

\* The position n slots after t is n slots away from it.
LEMMA DistAt ==
    ASSUME NEW t \in Slot, NEW n \in 0 .. WinEra
    PROVE  Dist(At(t, n), t) = n
<1>1. /\ At(t, n) = IF t + n < Slots THEN t + n ELSE t + n - Slots
      /\ At(t, n) \in Slot
  <2>1. n \in 0 .. Slots  BY SlotsFacts
  <2> QED  BY <2>1, AtValue
<1>2. Dist(At(t, n), t) =
        IF t <= At(t, n) THEN At(t, n) - t ELSE At(t, n) + Slots - t
  BY <1>1, DistValue
<1> QED  BY <1>1, <1>2, SlotsFacts

\* Positions add up.
LEMMA AtAt ==
    ASSUME NEW t \in Slot, NEW n \in Nat, NEW m \in Nat, n + m <= Slots
    PROVE  At(At(t, n), m) = At(t, n + m)
<1>1. /\ At(t, n) = IF t + n < Slots THEN t + n ELSE t + n - Slots
      /\ At(t, n) \in Slot
  <2>1. n \in 0 .. Slots  BY SlotsFacts
  <2> QED  BY <2>1, AtValue
<1>2. At(t, n + m) =
        IF t + (n + m) < Slots THEN t + (n + m) ELSE t + (n + m) - Slots
  <2>1. n + m \in 0 .. Slots  BY SlotsFacts
  <2> QED  BY <2>1, AtValue
<1>3. At(At(t, n), m) =
        IF At(t, n) + m < Slots THEN At(t, n) + m ELSE At(t, n) + m - Slots
  <2>1. m \in 0 .. Slots  BY SlotsFacts
  <2> QED  BY <1>1, <2>1, AtValue
<1> QED  BY <1>1, <1>2, <1>3, SlotsFacts

\* Going n slots towards h leaves n less to go.
LEMMA DistFromAt ==
    ASSUME NEW h \in Slot, NEW t \in Slot, NEW n \in 0 .. Dist(h, t)
    PROVE  Dist(h, At(t, n)) = Dist(h, t) - n
<1>1. Dist(h, t) \in 0 .. WinEra
  BY DistValue
<1>2. Dist(h, t) = IF t <= h THEN h - t ELSE h + Slots - t  BY DistValue
<1>3. /\ At(t, n) = IF t + n < Slots THEN t + n ELSE t + n - Slots
      /\ At(t, n) \in Slot
  <2>1. n \in 0 .. Slots  BY <1>1, SlotsFacts
  <2> QED  BY <2>1, AtValue
<1>4. Dist(h, At(t, n)) =
        IF At(t, n) <= h THEN h - At(t, n) ELSE h + Slots - At(t, n)
  BY <1>3, DistValue
<1> QED  BY <1>1, <1>2, <1>3, <1>4, SlotsFacts

\* Using one more slot makes the ring one longer.
LEMMA DistOfNext ==
    ASSUME NEW h \in Slot, NEW t \in Slot, Dist(h, t) < WinEra
    PROVE  At(h, 1) \in Slot /\ Dist(At(h, 1), t) = Dist(h, t) + 1
<1>1. Dist(h, t) \in 0 .. WinEra
  BY DistValue
<1>2. Dist(h, t) = IF t <= h THEN h - t ELSE h + Slots - t  BY DistValue
<1>3. /\ At(h, 1) = IF h + 1 < Slots THEN h + 1 ELSE h + 1 - Slots
      /\ At(h, 1) \in Slot
  <2>1. 1 \in 0 .. Slots  BY SlotsFacts
  <2> QED  BY <2>1, AtValue
<1>4. Dist(At(h, 1), t) =
        IF t <= At(h, 1) THEN At(h, 1) - t ELSE At(h, 1) + Slots - t
  BY <1>3, DistValue
<1> QED  BY <1>1, <1>2, <1>3, <1>4, SlotsFacts

\* A sequence number stays in range in either dialect.
LEMMA IncSeqType ==
    ASSUME NEW q \in SeqNum, era \in BOOLEAN
    PROVE  IncSeq(q) \in SeqNum
<1>1. /\ SeqEra \in Nat \ {0} /\ SeqSibo \in Nat \ {0} /\ SeqSibo <= SeqEra
  BY WindowAssumption
<1>2. q + 1 \in Nat  BY DEF SeqNum
<1>3. (q + 1) % SeqEra \in 0 .. SeqEra - 1  BY <1>1, <1>2
<1>4. (q + 1) % SeqSibo \in 0 .. SeqSibo - 1  BY <1>1, <1>2
<1> QED  BY <1>1, <1>3, <1>4 DEF IncSeq, SeqNum

\* The window of either dialect fits in the ring.
LEMMA WindowType == era \in BOOLEAN => Window \in 1 .. WinEra
BY WindowAssumption DEF Window
----------------------------------------------------------------------------
(* The window through a step.                                              *)

\* A step that leaves the ring alone, and the numbering while it is in use.
LEMMA RingKept ==
    ASSUME IInv, UNCHANGED ring, era' \in BOOLEAN,
           (state' = "data_ack") <=> (state = "data_ack"),
           state = "data_ack" => UNCHANGED <<era, seqTx>>
    PROVE  WindowOK' /\ SeqOK'
<1>1. /\ Used' = Used /\ Sent' = Sent
      /\ \A n : SlotOf(n)' = SlotOf(n)
      /\ frames' = frames
  BY DEF ring, Used, Sent, SlotOf
<1>2. CASE state = "data_ack"
  <2>1. Window' = Window /\ (\A q : IncSeq(q)' = IncSeq(q)) /\ seqTx' = seqTx
    BY <1>2 DEF Window, IncSeq
  <2>2. WindowOK'  BY <1>1, <2>1 DEF IInv, WindowOK
  <2>3. SeqOK'  BY <1>1, <2>1 DEF IInv, SeqOK
  <2> QED  BY <2>2, <2>3
<1>3. CASE state # "data_ack"
  <2>1. Used = 0 /\ Sent <= 0  BY <1>3 DEF IInv, WindowOK
  <2>2. Window' \in 1 .. WinEra  BY WindowAssumption DEF Window
  <2>3. WindowOK'  BY <1>1, <1>3, <2>1, <2>2 DEF WindowOK
  <2>4. SeqOK'  BY <1>1, <2>1 DEF SeqOK
  <2> QED  BY <2>3, <2>4
<1> QED  BY <1>2, <1>3

\* connect_reset empties the window.
LEMMA RingReset ==
    ASSUME Reset
    PROVE  WindowOK' /\ SeqOK'
<1>1. head' = 0 /\ tail' = 0 /\ pend' = 0 /\ state' = "idle" /\ era' = FALSE
  BY DEF Reset
<1>2. Used' = 0 /\ Sent' = 0
  <2>1. Dist(0, 0) = 0  BY DistValue, SlotsFacts
  <2> QED  BY <1>1, <2>1 DEF Used, Sent, Dist
<1>3. Window' \in 1 .. WinEra  BY <1>1, WindowAssumption DEF Window
<1> QED  BY <1>1, <1>2, <1>3 DEF WindowOK, SeqOK

\* The counts of the window in terms of its indices, and what they say.
LEMMA RingDefs ==
    /\ Used = Dist(head, tail) /\ Sent = Dist(pend, tail)
    /\ (Used = Dist(head, tail))' /\ (Sent = Dist(pend, tail))'
    /\ \A n : SlotOf(n) = At(tail, n)
    /\ (\A n : SlotOf(n) = At(tail, n))'
    /\ \A i : IncSlot(i) = At(i, 1)
BY DEF Used, Sent, SlotOf, IncSlot, Dist, At

\* What IInv says of the three indices of the ring
LEMMA WindowIndices ==
    ASSUME IInv
    PROVE  /\ head \in Slot /\ tail \in Slot /\ pend \in Slot
           /\ Window \in 1 .. WinEra /\ Used \in 0 .. Window /\ Sent \in 0 .. Used
           /\ At(tail, Used) = head /\ At(tail, Sent) = pend
<1>1. head \in Slot /\ tail \in Slot /\ pend \in Slot /\ era \in BOOLEAN
  BY DEF IInv, TypeOK
<1>2. Window \in 1 .. WinEra  BY <1>1, WindowType
<1>3. Used \in 0 .. WinEra /\ Sent \in 0 .. WinEra
  BY <1>1, DistValue, RingDefs
<1>4. Used <= Window /\ Sent <= Used  BY DEF IInv, WindowOK
<1>5. At(tail, Used) = head /\ At(tail, Sent) = pend
  BY <1>1, AtDist, RingDefs
<1> QED  BY <1>1, <1>2, <1>3, <1>4, <1>5, SlotsFacts
----------------------------------------------------------------------------
(* The four steps that move the indices.                                   *)

\* connect_poll_rx_ack drops the first n frames of the window: those left
\* are the ones that followed, in their order.
LEMMA AckKeepsWindow ==
    ASSUME IInv, NEW n \in 0 .. Used,
           tail' = SlotOf(n),
           pend' = (IF Sent < n THEN SlotOf(n) ELSE pend),
           state' = (IF SlotOf(n) = head THEN "data" ELSE "data_ack"),
           UNCHANGED <<head, frames, era, seqTx>>
    PROVE  WindowOK' /\ SeqOK' /\ tail' \in Slot /\ pend' \in Slot
<1>1. /\ head \in Slot /\ tail \in Slot /\ pend \in Slot
      /\ Window \in 1 .. WinEra /\ Used \in 0 .. Window /\ Sent \in 0 .. Used
      /\ At(tail, Used) = head /\ At(tail, Sent) = pend
  BY WindowIndices
<1>2. tail' = At(tail, n) /\ tail' \in Slot
  <2>1. n \in 0 .. Slots  BY <1>1, SlotsFacts
  <2> QED  BY <1>1, <2>1, AtValue, RingDefs
<1>3. Used' = Used - n
  BY <1>1, <1>2, DistFromAt, RingDefs
<1>4. pend' \in Slot /\ Sent' = IF Sent < n THEN 0 ELSE Sent - n
  <2>1. CASE Sent < n
    <3>1. pend' = tail'  BY <2>1
    <3>2. Dist(tail', tail') = 0  BY <1>2, DistValue, SlotsFacts
    <3> QED  BY <1>2, <2>1, <3>1, <3>2, RingDefs
  <2>2. CASE ~(Sent < n)
    <3>1. pend' = pend /\ n \in 0 .. Sent  BY <1>1, <2>2
    <3>2. Dist(pend, At(tail, n)) = Dist(pend, tail) - n
      BY <1>1, <3>1, DistFromAt, RingDefs
    <3> QED  BY <1>1, <1>2, <2>2, <3>1, <3>2, RingDefs
  <2> QED  BY <2>1, <2>2
<1>5. (state' = "data_ack") <=> (Used' # 0)
  <2>1. At(tail, n) = head <=> n = Used
    <3>1. n \in 0 .. WinEra  BY <1>1, SlotsFacts
    <3>2. Dist(At(tail, n), tail) = n  BY <1>1, <3>1, DistAt
    <3> QED  BY <1>1, <3>2, RingDefs
  <2> QED  BY <1>1, <1>2, <1>3, <2>1
<1>6. Window' = Window  BY DEF Window
<1>7. WindowOK'
  <2>1. Used' <= Window' /\ Sent' <= Used'  BY <1>1, <1>3, <1>4, <1>6
  <2> QED  BY <1>5, <2>1 DEF WindowOK
<1>8. ASSUME NEW m \in Nat, n + m <= Slots
      PROVE  SlotOf(m)' = SlotOf(n + m)
  <2>1. At(At(tail, n), m) = At(tail, n + m)  BY <1>1, <1>8, AtAt
  <2> QED  BY <1>2, <2>1, RingDefs
<1>9. SeqOK'
  <2> SUFFICES ASSUME NEW m \in 1 .. Used'
               PROVE  IF m = Used' THEN frames[SlotOf(m)'].seq = seqTx
                      ELSE frames[SlotOf(m + 1)'].seq = IncSeq(frames[SlotOf(m)'].seq)
    BY DEF SeqOK, IncSeq, SlotOf
  <2>1. n + m \in 1 .. Used /\ (m = Used' <=> n + m = Used)  BY <1>1, <1>3
  <2>2. SlotOf(m)' = SlotOf(n + m)
    BY <1>1, <1>8, <2>1, SlotsFacts
  <2>3. SlotOf(m + 1)' = SlotOf((n + m) + 1)
    <3>1. n + (m + 1) <= Slots /\ n + (m + 1) = (n + m) + 1
      BY <1>1, <2>1, SlotsFacts
    <3> QED  BY <1>8, <3>1
  <2>4. IF n + m = Used THEN frames[SlotOf(n + m)].seq = seqTx
        ELSE frames[SlotOf((n + m) + 1)].seq = IncSeq(frames[SlotOf(n + m)].seq)
    BY <2>1 DEF IInv, SeqOK
  <2> QED  BY <2>1, <2>2, <2>3, <2>4
<1> QED  BY <1>2, <1>4, <1>7, <1>9

\* connect_poll_timeout goes back to the oldest frame of the window.
LEMMA RetryKeepsWindow ==
    ASSUME IInv, pend' = tail, UNCHANGED <<head, tail, frames, era, seqTx, state>>
    PROVE  WindowOK' /\ SeqOK' /\ pend' \in Slot
<1>1. tail \in Slot /\ Used \in Nat  BY WindowIndices
<1>2. Sent' = 0
  <2>1. Dist(tail, tail) = 0  BY <1>1, DistValue, SlotsFacts
  <2> QED  BY <2>1, RingDefs
<1>3. /\ Used' = Used /\ Window' = Window /\ (\A m : SlotOf(m)' = SlotOf(m))
      /\ \A q : IncSeq(q)' = IncSeq(q)
  BY DEF Used, Window, SlotOf, IncSeq
<1>4. WindowOK'  BY <1>1, <1>2, <1>3 DEF IInv, WindowOK
<1>5. SeqOK'  BY <1>3 DEF IInv, SeqOK
<1> QED  BY <1>1, <1>4, <1>5

\* connect_poll_tx sends the next frame of the window.
LEMMA SendKeepsWindow ==
    ASSUME IInv, pend # head, pend' = IncSlot(pend),
           UNCHANGED <<head, tail, frames, era, seqTx, state>>
    PROVE  WindowOK' /\ SeqOK' /\ pend' \in Slot
<1>1. /\ head \in Slot /\ tail \in Slot /\ pend \in Slot
      /\ Window \in 1 .. WinEra /\ Used \in 0 .. Window /\ Sent \in 0 .. Used
      /\ At(tail, Used) = head /\ At(tail, Sent) = pend
  BY WindowIndices
<1>2. Sent < Used  BY <1>1
<1>3. pend' \in Slot /\ Sent' = Sent + 1
  <2>1. Dist(pend, tail) < WinEra  BY <1>1, <1>2, RingDefs, SlotsFacts
  <2>2. pend' = At(pend, 1)  BY RingDefs
  <2> QED  BY <1>1, <2>1, <2>2, DistOfNext, RingDefs
<1>4. /\ Used' = Used /\ Window' = Window /\ (\A m : SlotOf(m)' = SlotOf(m))
      /\ \A q : IncSeq(q)' = IncSeq(q)
  BY DEF Used, Window, SlotOf, IncSeq
<1>5. WindowOK'
  <2>1. Sent' <= Used  BY <1>1, <1>2, <1>3
  <2> QED  BY <1>4, <2>1 DEF IInv, WindowOK
<1>6. SeqOK'  BY <1>4 DEF IInv, SeqOK
<1> QED  BY <1>3, <1>5, <1>6

\* connect_tx adds a frame that bears the next number.
LEMMA QueueKeepsWindow ==
    ASSUME IInv, 0 < Free, NEW d,
           seqTx' = IncSeq(seqTx), head' = IncSlot(head),
           frames' = [frames EXCEPT ![IncSlot(head)] = DataOf(IncSeq(seqTx), d)],
           state' = "data_ack",
           UNCHANGED <<pend, tail, era>>
    PROVE  WindowOK' /\ SeqOK' /\ head' \in Slot
<1>1. /\ head \in Slot /\ tail \in Slot /\ pend \in Slot
      /\ Window \in 1 .. WinEra /\ Used \in 0 .. Window /\ Sent \in 0 .. Used
      /\ At(tail, Used) = head
  BY WindowIndices
<1>2. Used < Window  BY <1>1 DEF Free
<1>3. head' = At(head, 1) /\ head' \in Slot /\ Used' = Used + 1
  <2>1. Dist(head, tail) < WinEra  BY <1>1, <1>2, RingDefs, SlotsFacts
  <2> QED  BY <1>1, <2>1, DistOfNext, RingDefs
<1>4. /\ Sent' = Sent /\ Window' = Window /\ (\A m : SlotOf(m)' = SlotOf(m))
      /\ \A q : IncSeq(q)' = IncSeq(q)
  BY DEF Sent, Window, SlotOf, IncSeq
<1>5. WindowOK'
  <2>1. Used' <= Window /\ Sent <= Used' /\ Used' # 0  BY <1>1, <1>2, <1>3
  <2> QED  BY <1>4, <2>1 DEF WindowOK
<1>6. SlotOf(Used + 1) = head'
  <2>1. At(At(tail, Used), 1) = At(tail, Used + 1)
    BY <1>1, <1>2, AtAt, SlotsFacts
  <2> QED  BY <1>1, <1>3, <2>1, RingDefs
<1>7. ASSUME NEW m \in 1 .. Used PROVE SlotOf(m) # head' /\ SlotOf(m) \in Slot
  <2>1. m \in 0 .. WinEra /\ m \in 0 .. Slots /\ Used + 1 \in 0 .. WinEra
    BY <1>1, <1>2, SlotsFacts
  <2>2. Dist(SlotOf(m), tail) = m /\ Dist(SlotOf(Used + 1), tail) = Used + 1
    BY <1>1, <2>1, DistAt, RingDefs
  <2>3. m # Used + 1  BY <1>1
  <2>4. SlotOf(m) \in Slot  BY <1>1, <2>1, AtValue, RingDefs
  <2> QED  BY <1>6, <2>2, <2>3, <2>4
<1>8. frames \in [Slot -> DataFrame \cup {Ack(0)}]  BY DEF IInv, TypeOK
<1>9. frames'[head'].seq = seqTx'
  BY <1>3, <1>8 DEF DataOf
<1>10. \A m \in 1 .. Used : frames'[SlotOf(m)] = frames[SlotOf(m)]
  BY <1>3, <1>7, <1>8
<1>11. SeqOK'
  <2> SUFFICES ASSUME NEW m \in 1 .. Used + 1
               PROVE  IF m = Used + 1 THEN frames'[SlotOf(m)].seq = seqTx'
                      ELSE frames'[SlotOf(m + 1)].seq = IncSeq(frames'[SlotOf(m)].seq)
    BY <1>3, <1>4 DEF SeqOK
  <2>1. CASE m = Used + 1  BY <1>1, <1>6, <1>9, <2>1
  <2>2. CASE m = Used
    <3>1. frames[SlotOf(m)].seq = seqTx  BY <1>1, <2>2 DEF IInv, SeqOK
    <3> QED  BY <1>1, <1>6, <1>9, <1>10, <2>2, <3>1
  <2>3. CASE m < Used
    <3>1. frames[SlotOf(m + 1)].seq = IncSeq(frames[SlotOf(m)].seq)
      BY <1>1, <2>3 DEF IInv, SeqOK
    <3>2. m \in 1 .. Used /\ m + 1 \in 1 .. Used  BY <1>1, <2>3
    <3> QED  BY <1>1, <1>10, <2>3, <3>1, <3>2
  <2> QED  BY <1>1, <2>1, <2>2, <2>3
<1> QED  BY <1>3, <1>5, <1>11
----------------------------------------------------------------------------
(* The steps of connect_poll and connect_end.                              *)

\* The frames that connect.c builds are frames.
LEMMA FrameTypes ==
    /\ 0 \in SeqNum /\ NoFrame \notin CtrlFrame /\ NoFrame \notin DataFrame
    /\ Disc \in CtrlFrame /\ ReqReq \in CtrlFrame
    /\ \A m \in Magic : Con(m) \in CtrlFrame
    /\ \A q \in SeqNum : Ack(q) \in CtrlFrame
    /\ \A q \in SeqNum, d \in Data : DataOf(q, d) \in DataFrame
    /\ CtrlFrame \subseteq Frame /\ DataFrame \subseteq Frame
<1>1. 0 \in SeqNum  BY WindowAssumption DEF SeqNum
<1>2. CtrlFrame \subseteq Frame /\ DataFrame \subseteq Frame  BY DEF Frame
<1> QED  BY <1>1, <1>2, NoFrameAssumption DEF CtrlFrame, DataFrame

\* What a received frame holds, by its kind.
LEMMA RxTypes ==
    ASSUME NEW f \in Frame
    PROVE  /\ f.kind = "ack" => f.seq \in SeqNum
           /\ f.kind = "data" => f \in DataFrame /\ f.seq \in SeqNum
           /\ f.kind = "con" => f.body \in Magic \cup {Short}
<1>1. CASE f \in DataFrame
  BY <1>1 DEF DataFrame, DataOf
<1>2. CASE f \in {Ack(q) : q \in SeqNum}  BY <1>2 DEF Ack
<1>3. CASE f \in {Con(m) : m \in Magic}  BY <1>3 DEF Con
<1>4. CASE f \in {Disc, ReqReq, Req, Con(Short)}
  BY <1>4 DEF Disc, ReqReq, Req, Con
<1> QED  BY <1>1, <1>2, <1>3, <1>4 DEF Frame, CtrlFrame

\* connect_reset, wherever it is called from.
LEMMA ResetStep ==
    ASSUME IInv, Reset,
           active' \in BOOLEAN, enable' \in BOOLEAN, txIdle' \in BOOLEAN,
           phase' \in {"out", "timer", "mux", "tx"}, retries' \in Nat,
           ctrl' \in CtrlFrame \cup {NoFrame}, out' \in Frame \cup {NoFrame},
           ending' \in {"no", "mux", "muxidle", "data", "disc"}
    PROVE  IInv'
<1>1. connected' \in BOOLEAN  BY DEF Reset, MuxDisconnected
<1>2. TypeOK'  BY <1>1, FrameTypes, SlotsFacts DEF Reset, IInv, TypeOK
<1>3. WindowOK' /\ SeqOK'  BY RingReset
<1>4. RetriesOK' /\ TimerOK'  BY DEF Reset, RetriesOK, TimerOK
<1> QED  BY <1>2, <1>3, <1>4 DEF IInv

\* A received frame that changes nothing.
LEMMA IgnoreStep ==
    ASSUME IInv, Enter, Ignore
    PROVE  IInv'
<1>1. TypeOK'  BY DEF Enter, Polling, life, Ignore, IInv, TypeOK
<1>2. WindowOK' /\ SeqOK'
  <2>1. UNCHANGED ring /\ UNCHANGED <<state, era, seqTx>>  BY DEF Ignore, ring
  <2> QED  BY <1>1, <2>1, RingKept DEF TypeOK
<1>3. RetriesOK' /\ TimerOK'
  BY DEF Enter, life, Ignore, IInv, RetriesOK, TimerOK
<1> QED  BY <1>1, <1>2, <1>3 DEF IInv

\* The handshake completes in a state without a window.
LEMMA CompleteStep ==
    ASSUME IInv, Enter, state \notin {"data", "data_ack"},
           NEW tx \in SeqNum, NEW dialect \in BOOLEAN,
           NEW answer \in CtrlFrame \cup {NoFrame},
           Complete(tx, dialect, answer)
    PROVE  IInv'
<1>1. connected' \in BOOLEAN  BY DEF Complete, MuxConnected
<1>2. TypeOK'
  BY <1>1, FrameTypes DEF Complete, Proceed, Enter, life, IInv, TypeOK
<1>3. WindowOK' /\ SeqOK'
  <2>1. UNCHANGED ring /\ state' = "data" /\ era' \in BOOLEAN
    BY DEF Complete, ring
  <2> QED  BY <2>1, RingKept
<1>4. RetriesOK' /\ TimerOK'  BY DEF Complete, RetriesOK, TimerOK
<1> QED  BY <1>2, <1>3, <1>4 DEF IInv

\* The end that answers a request keeps IInv (connect_poll_rx_req).
LEMMA ConfirmStep ==
    ASSUME IInv, Enter, state \notin {"data", "data_ack"},
           NEW dialect \in BOOLEAN, Confirm(dialect)
    PROVE  IInv'
<1>1. TypeOK'
  BY FrameTypes, RetriesAssumption DEF Confirm, Enter, life, IInv, TypeOK
<1>2. WindowOK' /\ SeqOK'
  <2>1. UNCHANGED ring /\ state' = "idle_ack" /\ era' \in BOOLEAN
    BY DEF Confirm, ring
  <2> QED  BY <2>1, RingKept
<1>3. RetriesOK' /\ TimerOK'
  BY RetriesAssumption DEF Confirm, RetriesOK, TimerOK
<1> QED  BY <1>1, <1>2, <1>3 DEF IInv

\* connect_poll_rx, whatever frame arrives.
LEMMA RxStep ==
    ASSUME IInv, NEW f \in Frame, Rx(f)
    PROVE  IInv'
<1>1. /\ f.kind = "ack" => f.seq \in SeqNum
      /\ f.kind = "data" => f \in DataFrame /\ f.seq \in SeqNum
  BY RxTypes
<1>2. ctrl \in CtrlFrame \cup {NoFrame} /\ era \in BOOLEAN /\ seqRx \in SeqNum
  BY DEF IInv, TypeOK
<1>3. ASSUME Enter, ResetInPoll("timer"), UNCHANGED ctrl  PROVE IInv'
  <2>1. Reset /\ phase' \in {"timer", "out"} /\ UNCHANGED <<retries, ctrl>>
    BY <1>3 DEF ResetInPoll, Proceed
  <2>2. /\ active' \in BOOLEAN /\ enable' \in BOOLEAN /\ txIdle' \in BOOLEAN
        /\ out' \in Frame \cup {NoFrame}
        /\ ending' \in {"no", "mux", "muxidle", "data", "disc"}
    BY <1>3 DEF Enter, life, IInv, TypeOK
  <2>3. retries' \in Nat /\ ctrl' \in CtrlFrame \cup {NoFrame}
    BY <2>1 DEF IInv, TypeOK
  <2> QED  BY <2>1, <2>2, <2>3, ResetStep
<1>4. CASE f.kind = "ack" /\ RxAckIdle(f.seq)
  BY <1>1, <1>2, <1>4, IgnoreStep, CompleteStep DEF RxAckIdle
<1>5. CASE f.kind = "ack" /\ RxAckData(f.seq)
  <2>1. PICK n \in 0 .. Used :
           /\ tail' = SlotOf(n)
           /\ pend' = IF Sent < n THEN SlotOf(n) ELSE pend
           /\ state' = IF SlotOf(n) = head THEN "data" ELSE "data_ack"
    BY <1>5 DEF RxAckData
  <2>2. UNCHANGED <<head, frames, era, seqTx>>  BY <1>5 DEF RxAckData
  <2>3. WindowOK' /\ SeqOK' /\ tail' \in Slot /\ pend' \in Slot
    BY <2>1, <2>2, AckKeepsWindow
  <2>4. TypeOK'
    BY <1>5, <2>1, <2>3 DEF RxAckData, Enter, life, IInv, TypeOK
  <2>5. RetriesOK' /\ TimerOK'
    BY <1>5, <2>1 DEF RxAckData, IInv, RetriesOK, TimerOK
  <2> QED  BY <2>3, <2>4, <2>5 DEF IInv
<1>6. CASE f.kind = "ack" /\ RxAckIgnored(f.seq)
  BY <1>6, IgnoreStep DEF RxAckIgnored
<1>7. CASE RxDisc
  BY <1>3, <1>7, IgnoreStep DEF RxDisc
<1>8. CASE RxWhileConnected
  BY <1>3, <1>8 DEF RxWhileConnected
<1>9. CASE RxReq
  <2>1. Ack(0) \in CtrlFrame /\ 0 \in SeqNum  BY FrameTypes
  <2> QED  BY <1>9, <2>1, IgnoreStep, ConfirmStep, CompleteStep DEF RxReq
<1>10. CASE RxReqReq
  BY <1>10, IgnoreStep, ConfirmStep DEF RxReqReq
<1>11. CASE RxReqCon(f.body)
  <2>1. Ack(0) \in CtrlFrame /\ 0 \in SeqNum  BY FrameTypes
  <2> QED  BY <1>11, <2>1, IgnoreStep, CompleteStep DEF RxReqCon
<1>12. CASE f.kind = "data" /\ RxDataNext(f)
  <2>1. TypeOK'
    BY <1>1, <1>12, FrameTypes DEF RxDataNext, Enter, life, IInv, TypeOK
  <2>2. UNCHANGED ring /\ UNCHANGED <<state, era, seqTx>>
    BY <1>12 DEF RxDataNext, ring
  <2>3. WindowOK' /\ SeqOK'  BY <1>2, <2>2, RingKept
  <2>4. RetriesOK' /\ TimerOK'
    BY <1>12 DEF RxDataNext, IInv, RetriesOK, TimerOK
  <2> QED  BY <2>1, <2>3, <2>4 DEF IInv
<1>13. CASE f.kind = "data" /\ RxDataRepeat(f)
  <2>1. TypeOK'
    BY <1>2, <1>13, FrameTypes DEF RxDataRepeat, Enter, life, IInv, TypeOK
  <2>2. UNCHANGED ring /\ UNCHANGED <<state, era, seqTx>>
    BY <1>13 DEF RxDataRepeat, ring
  <2>3. WindowOK' /\ SeqOK'  BY <1>2, <2>2, RingKept
  <2>4. RetriesOK' /\ TimerOK'
    BY <1>13 DEF RxDataRepeat, Enter, life, IInv, RetriesOK, TimerOK
  <2> QED  BY <2>1, <2>3, <2>4 DEF IInv
<1>14. CASE RxDataIgnored
  BY <1>14, IgnoreStep DEF RxDataIgnored
<1> QED
  BY <1>4, <1>5, <1>6, <1>7, <1>8, <1>9, <1>10, <1>11, <1>12, <1>13, <1>14
     DEF Rx

\* A step outside the ring that changes neither the state nor the timer.
LEMMA QuietStep ==
    ASSUME IInv, TypeOK', UNCHANGED <<ring, state, era, seqTx, timer, retries>>,
           (active' => active) /\ (enable' => enable)
    PROVE  IInv'
<1>1. WindowOK' /\ SeqOK'
  <2>1. UNCHANGED ring /\ UNCHANGED <<state, era, seqTx>>  OBVIOUS
  <2> QED  BY <2>1, RingKept DEF TypeOK
<1>2. RetriesOK' /\ TimerOK'  BY DEF IInv, RetriesOK, TimerOK
<1> QED  BY <1>1, <1>2 DEF IInv

\* connect_poll_timer.
LEMMA TimerStep ==
    ASSUME IInv, PollTimer
    PROVE  IInv'
<1>1. retries \in Nat /\ era \in BOOLEAN  BY DEF IInv, TypeOK
<1>2. CASE TimerNotDue
  <2>1. TypeOK'  BY <1>2 DEF TimerNotDue, life, ring, IInv, TypeOK
  <2> QED  BY <1>2, <2>1, QuietStep DEF TimerNotDue, life
<1>3. CASE TimeoutIdle
  <2>1. TypeOK'
    BY <1>3, FrameTypes DEF TimeoutIdle, Timeout, life, ring, IInv, TypeOK
  <2>2. UNCHANGED ring /\ era' \in BOOLEAN /\ state' # "data_ack" /\ state # "data_ack"
    BY <1>1, <1>3 DEF TimeoutIdle
  <2>3. WindowOK' /\ SeqOK'  BY <2>2, RingKept
  <2>4. RetriesOK' /\ TimerOK'
    BY <1>3 DEF TimeoutIdle, Timeout, life, RetriesOK, TimerOK
  <2> QED  BY <2>1, <2>3, <2>4 DEF IInv
<1>4. CASE TimeoutIdleReq
  <2>1. TypeOK'
    BY <1>4, FrameTypes DEF TimeoutIdleReq, Timeout, life, ring, IInv, TypeOK
  <2>2. UNCHANGED ring /\ UNCHANGED <<state, era, seqTx>>
    BY <1>4 DEF TimeoutIdleReq
  <2>3. WindowOK' /\ SeqOK'  BY <1>1, <2>2, RingKept
  <2>4. RetriesOK' /\ TimerOK'
    BY <1>4 DEF TimeoutIdleReq, Timeout, IInv, RetriesOK, TimerOK
  <2> QED  BY <2>1, <2>3, <2>4 DEF IInv
<1>5. CASE TimeoutIdleAck
  <2>1. retries >= 1 /\ retries # 1
    BY <1>5 DEF TimeoutIdleAck, LastRetry, IInv, RetriesOK
  <2>2. retries' \in Nat /\ retries' >= 1
    BY <1>1, <1>5, <2>1 DEF TimeoutIdleAck
  <2>3. TypeOK'
    BY <1>5, <2>2, FrameTypes DEF TimeoutIdleAck, Timeout, life, ring, IInv, TypeOK
  <2>4. UNCHANGED ring /\ UNCHANGED <<state, era, seqTx>>
    BY <1>5 DEF TimeoutIdleAck
  <2>5. WindowOK' /\ SeqOK'  BY <1>1, <2>4, RingKept
  <2>6. RetriesOK' /\ TimerOK'
    BY <1>5, <2>2 DEF TimeoutIdleAck, RetriesOK, TimerOK
  <2> QED  BY <2>3, <2>5, <2>6 DEF IInv
<1>6. CASE TimeoutGiveUp
  <2>1. Reset /\ phase' \in {"mux", "out"} /\ retries' \in Nat
    BY <1>1, <1>6 DEF TimeoutGiveUp, Proceed
  <2>2. UNCHANGED <<life, txIdle, ctrl, out>>  BY <1>6 DEF TimeoutGiveUp, Timeout
  <2> QED  BY <2>1, <2>2, ResetStep DEF life, IInv, TypeOK
<1>7. CASE TimeoutData
  <2>1. Reset /\ phase' \in {"mux", "out"} /\ retries' \in Nat
    BY <1>1, <1>7 DEF TimeoutData, Proceed
  <2>2. UNCHANGED <<life, txIdle, out>> /\ ctrl' \in CtrlFrame \cup {NoFrame}
    BY <1>7, FrameTypes DEF TimeoutData, Timeout
  <2> QED  BY <2>1, <2>2, ResetStep DEF life, IInv, TypeOK
<1>8. CASE TimeoutDataAck
  <2>1. retries >= 1 /\ retries # 1
    BY <1>8 DEF TimeoutDataAck, LastRetry, IInv, RetriesOK
  <2>2. retries' \in Nat /\ retries' >= 1
    BY <1>1, <1>8, <2>1 DEF TimeoutDataAck
  <2>3. pend' = tail /\ UNCHANGED <<head, tail, frames, era, seqTx, state>>
    BY <1>8 DEF TimeoutDataAck
  <2>4. WindowOK' /\ SeqOK' /\ pend' \in Slot  BY <2>3, RetryKeepsWindow
  <2>5. TypeOK'
    BY <1>8, <2>2, <2>4 DEF TimeoutDataAck, Timeout, life, IInv, TypeOK
  <2>6. RetriesOK' /\ TimerOK'
    BY <1>8, <2>2 DEF TimeoutDataAck, RetriesOK, TimerOK
  <2> QED  BY <2>4, <2>5, <2>6 DEF IInv
<1> QED  BY <1>2, <1>3, <1>4, <1>5, <1>6, <1>7, <1>8 DEF PollTimer

\* mux_poll handing a frame to connect_tx.
LEMMA MuxPollTxStep ==
    ASSUME IInv, NEW d \in Data, MuxPollTx(d)
    PROVE  IInv'
<1>1. WindowOK' /\ SeqOK' /\ head' \in Slot
  <2>1. /\ 0 < Free
        /\ seqTx' = IncSeq(seqTx) /\ head' = IncSlot(head)
        /\ frames' = [frames EXCEPT ![IncSlot(head)] = DataOf(IncSeq(seqTx), d)]
        /\ state' = "data_ack" /\ UNCHANGED <<pend, tail, era>>
    BY DEF MuxPollTx
  <2> QED  BY <2>1, QueueKeepsWindow
<1>2. TypeOK'
  <2>1. seqTx' \in SeqNum  BY IncSeqType DEF MuxPollTx, IInv, TypeOK
  <2>2. DataOf(IncSeq(seqTx), d) \in DataFrame
    BY <2>1, FrameTypes DEF MuxPollTx
  <2>3. frames' \in [Slot -> DataFrame \cup {Ack(0)}]
    BY <2>2 DEF MuxPollTx, IInv, TypeOK
  <2> QED
    BY <1>1, <2>1, <2>3, RetriesAssumption DEF MuxPollTx, IInv, TypeOK
<1>3. RetriesOK' /\ TimerOK'
  BY RetriesAssumption DEF MuxPollTx, RetriesOK, TimerOK
<1> QED  BY <1>1, <1>2, <1>3 DEF IInv

\* The rest of connect_poll.
LEMMA PollStep ==
    ASSUME IInv, NoRx \/ MuxSkipped \/ MuxPoll \/ PollTx
    PROVE  IInv'
<1>1. CASE NoRx  BY <1>1, IgnoreStep DEF NoRx
<1>2. CASE MuxSkipped
  <2>1. TypeOK'  BY <1>2 DEF MuxSkipped, life, ring, IInv, TypeOK
  <2> QED  BY <1>2, <2>1, QuietStep DEF MuxSkipped, life
<1>3. CASE MuxPoll
  <2>1. TypeOK'  BY <1>3 DEF MuxPoll, life, ring, IInv, TypeOK
  <2> QED  BY <1>3, <2>1, QuietStep DEF MuxPoll, life
<1>4. CASE PollTxCtrl
  <2>1. TypeOK'
    BY <1>4, FrameTypes, ZenonT(60) DEF PollTxCtrl, Leave, life, ring, IInv, TypeOK
  <2> QED  BY <1>4, <2>1, QuietStep DEF PollTxCtrl, life
<1>5. CASE PollTxData
  <2>1. /\ pend # head /\ pend' = IncSlot(pend)
        /\ UNCHANGED <<head, tail, frames, era, seqTx, state>>
    BY <1>5 DEF PollTxData
  <2>2. WindowOK' /\ SeqOK' /\ pend' \in Slot  BY <2>1, SendKeepsWindow
  <2>3. out' \in Frame \cup {NoFrame}
    <3>1. out' = frames[pend']  BY <1>5 DEF PollTxData
    <3>2. frames \in [Slot -> DataFrame \cup {Ack(0)}]  BY DEF IInv, TypeOK
    <3>3. DataFrame \cup {Ack(0)} \subseteq Frame  BY FrameTypes
    <3> QED  BY <2>2, <3>1, <3>2, <3>3
  <2>4. TypeOK'
    BY <1>5, <2>2, <2>3, ZenonT(60) DEF PollTxData, Leave, life, IInv, TypeOK
  <2>5. RetriesOK' /\ TimerOK'
    BY <1>5 DEF PollTxData, life, IInv, RetriesOK, TimerOK
  <2> QED  BY <2>2, <2>4, <2>5 DEF IInv
<1>6. CASE PollTxNothing
  <2>1. txIdle' \in BOOLEAN /\ phase' = "out"  BY <1>6 DEF PollTxNothing, Leave
  <2>2. TypeOK'  BY <1>6, <2>1 DEF PollTxNothing, life, ring, IInv, TypeOK
  <2> QED  BY <1>6, <2>2, QuietStep DEF PollTxNothing, life
<1> QED  BY <1>1, <1>2, <1>3, <1>4, <1>5, <1>6 DEF PollTx

\* connect_start and connect_end.
LEMMA StartEndStep ==
    ASSUME IInv, Start \/ End
    PROVE  IInv'
<1>1. CASE Start
  <2>1. Reset  BY <1>1 DEF Start
  <2> QED  BY <1>1, <2>1, ResetStep DEF Start, IInv, TypeOK
<1>2. CASE EndNow
  <2>1. active' \in BOOLEAN /\ (active' => active) /\ enable' = FALSE
    BY <1>2 DEF EndNow, Endable, MuxDisconnected, IInv, TypeOK
  <2>2. connected' \in BOOLEAN /\ enable' \in BOOLEAN
    BY <1>2 DEF EndNow, MuxDisconnected
  <2>3. TypeOK'  BY <1>2, <2>1, <2>2 DEF EndNow, ring, IInv, TypeOK
  <2> QED  BY <1>2, <2>1, <2>3, QuietStep DEF EndNow
<1>3. CASE EndBegin
  <2>1. ending' \in {"mux", "data"} /\ enable' \in BOOLEAN  BY <1>3 DEF EndBegin
  <2>2. TypeOK'  BY <1>3, <2>1 DEF EndBegin, ring, IInv, TypeOK
  <2> QED  BY <1>3, <2>2, QuietStep DEF EndBegin
<1>4. CASE EndMux
  <2>1. connected' \in BOOLEAN  BY <1>4 DEF EndMux
  <2>2. TypeOK'  BY <1>4, <2>1 DEF EndMux, ring, IInv, TypeOK
  <2> QED  BY <1>4, <2>2, QuietStep DEF EndMux
<1>5. CASE EndData
  <2>1. Reset /\ ctrl' \in CtrlFrame \cup {NoFrame}
    BY <1>5, FrameTypes DEF EndData
  <2>2. ending' \in {"no", "disc"}  BY <1>5 DEF EndData
  <2>3. UNCHANGED <<active, enable, phase, txIdle, retries, out>>
    BY <1>5 DEF EndData
  <2> QED  BY <2>1, <2>2, <2>3, ResetStep DEF IInv, TypeOK
<1>6. CASE EndDisc
  <2>1. active' \in BOOLEAN  BY <1>6 DEF EndDisc
  <2>2. TypeOK'  BY <1>6, <2>1 DEF EndDisc, ring, IInv, TypeOK
  <2> QED  BY <1>6, <2>2, QuietStep DEF EndDisc
<1>7. CASE EndEscape
  <2>1. TypeOK'  BY <1>7 DEF EndEscape, ring, IInv, TypeOK
  <2> QED  BY <1>7, <2>1, QuietStep DEF EndEscape
<1> QED  BY <1>1, <1>2, <1>3, <1>4, <1>5, <1>6, <1>7 DEF End

\* The frame layer and time.
LEMMA EnvironmentStep ==
    ASSUME IInv, PollDisconnected \/ Tick \/ FrameSent
    PROVE  IInv'
<1>1. CASE PollDisconnected
  <2>1. Reset  BY <1>1 DEF PollDisconnected
  <2> QED  BY <1>1, <2>1, ResetStep DEF PollDisconnected, life, IInv, TypeOK
<1>2. CASE Tick
  <2>1. TypeOK'  BY <1>2 DEF Tick, life, ring, IInv, TypeOK
  <2>2. UNCHANGED ring /\ UNCHANGED <<state, era, seqTx>>  BY <1>2 DEF Tick
  <2>3. WindowOK' /\ SeqOK'  BY <2>1, <2>2, RingKept DEF TypeOK
  <2>4. RetriesOK' /\ TimerOK'  BY <1>2 DEF Tick, IInv, RetriesOK, TimerOK
  <2> QED  BY <2>1, <2>3, <2>4 DEF IInv
<1>3. CASE FrameSent
  <2>1. TypeOK'  BY <1>3 DEF FrameSent, life, ring, IInv, TypeOK
  <2> QED  BY <1>3, <2>1, QuietStep DEF FrameSent, life
<1> QED  BY <1>1, <1>2, <1>3
----------------------------------------------------------------------------
(* The theorems.                                                           *)

\* IInv holds when the module is loaded.
LEMMA InitIInv == Init => IInv
<1> SUFFICES ASSUME Init PROVE IInv  OBVIOUS
<1>1. TypeOK
  BY FrameTypes, SlotsFacts DEF Init, TypeOK
<1>2. Used = 0 /\ Sent = 0
  <2>1. Dist(0, 0) = 0  BY DistValue, SlotsFacts
  <2> QED  BY <2>1, RingDefs DEF Init
<1>3. Window \in 1 .. WinEra  BY WindowType DEF Init
<1>4. WindowOK /\ SeqOK  BY <1>2, <1>3 DEF Init, WindowOK, SeqOK
<1>5. RetriesOK /\ TimerOK  BY DEF Init, RetriesOK, TimerOK
<1> QED  BY <1>1, <1>4, <1>5 DEF IInv

\* Every step of connect.c keeps IInv.
LEMMA NextIInv == IInv /\ [Next]_vars => IInv'
<1> SUFFICES ASSUME IInv, [Next]_vars PROVE IInv'  OBVIOUS
<1>1. CASE UNCHANGED vars
  <2>1. UNCHANGED <<active, enable, phase, txIdle, state, connected, era, timer>>
    BY <1>1 DEF vars
  <2>2. UNCHANGED <<retries, seqTx, seqRx, ctrl, ring, rxData, magic, out, ending>>
    BY <1>1 DEF vars, ring
  <2>3. TypeOK'  BY <2>1, <2>2 DEF ring, IInv, TypeOK
  <2> QED  BY <2>1, <2>2, <2>3, QuietStep
<1>2. CASE \E f \in Frame : Rx(f)  BY <1>2, RxStep
<1>3. CASE Poll  BY <1>3, PollStep, TimerStep DEF Poll
<1>4. CASE \E d \in Data : MuxPollTx(d)  BY <1>4, MuxPollTxStep
<1>5. CASE Start \/ End  BY <1>5, StartEndStep
<1>6. CASE PollDisconnected \/ Tick \/ FrameSent  BY <1>6, EnvironmentStep
<1> QED  BY <1>1, <1>2, <1>3, <1>4, <1>5, <1>6 DEF Next

\* The inductive invariant holds in every reachable state of connect.c.
THEOREM Invariance == Spec => []IInv
BY InitIInv, NextIInv, PTL DEF Spec

\* Every variable of connect.c keeps its type: the ring indices stay in the
\* ring, the sequence numbers in range and the retry counter non-negative.
THEOREM TypeCorrect == Spec => []TypeOK
<1>1. IInv => TypeOK  BY DEF IInv
<1> QED  BY <1>1, Invariance, PTL

\* The transmit window never holds more frames than were negotiated, never
\* counts as sent a frame it does not hold, and is empty exactly when the
\* state says so (connect_free_tx_window cannot wrap).
THEOREM WindowCorrect == Spec => []WindowOK
<1>1. IInv => WindowOK  BY DEF IInv
<1> QED  BY <1>1, Invariance, PTL

\* The frames of the window are numbered consecutively up to the last number
\* used, through acknowledgement, retransmission, wrap-around and reset.
THEOREM NumberingCorrect == Spec => []SeqOK
<1>1. IInv => SeqOK  BY DEF IInv
<1> QED  BY <1>1, Invariance, PTL

\* The unsigned retry counter is never zero where a time-out decrements it.
THEOREM RetriesNeverWrap == Spec => []RetriesOK
<1>1. IInv => RetriesOK  BY DEF IInv
<1> QED  BY <1>1, Invariance, PTL

\* The timer is armed in every state that waits for the remote end, so that
\* no loss, and no order of events, leaves the protocol waiting for ever.
THEOREM TimerAlwaysArmed == Spec => []TimerOK
<1>1. IInv => TimerOK  BY DEF IInv
<1> QED  BY <1>1, Invariance, PTL
----------------------------------------------------------------------------
(* With a multiplexor whose calls succeed.                                 *)

\* What makes the two remaining invariants inductive: a disconnect in
\* progress is disabled, and a handshake does not begin with an acknowledge.
HInv ==
    /\ ConnectedOK /\ AckOK
    /\ ending # "no" => ~enable
    /\ state \in {"idle_req", "idle_ack"} /\ ctrl # NoFrame
         => ctrl.kind # "ack"

\* A step that keeps all the parts of HInv alone.
LEMMA HandshakeKept ==
    ASSUME HInv, UNCHANGED <<state, seqRx, connected, enable>>,
           ctrl' \in {ctrl, NoFrame, ReqReq} \/ ctrl' = Con(magic),
           ending' = ending \/ ending' = "no" \/ ~enable
    PROVE  HInv'
<1>1. ctrl' = NoFrame \/ ctrl' = ctrl \/ ctrl'.kind # "ack"
  BY DEF ReqReq, Con
<1> QED  BY <1>1 DEF HInv, ConnectedOK, AckOK

\* connect_reset in a state in which it stops the multiplexor.
LEMMA HandshakeReset ==
    ASSUME HInv, ~MuxMayFail, Reset,
           enable' = FALSE \/ ending' = "no" \/ UNCHANGED <<enable, ending>>
    PROVE  HInv'
<1>1. state' = "idle" /\ connected' = FALSE  BY DEF Reset, MuxDisconnected
<1> QED  BY <1>1 DEF HInv, ConnectedOK, AckOK

\* A received frame keeps HInv.
LEMMA HandshakeRx ==
    ASSUME HInv, ~MuxMayFail, NEW f \in Frame, Rx(f)
    PROVE  HInv'
<1>1. ASSUME Enter, Ignore PROVE HInv'
  BY <1>1, HandshakeKept DEF Enter, life, Ignore
<1>2. ASSUME Enter, ResetInPoll("timer") PROVE HInv'
  BY <1>2, HandshakeReset DEF Enter, life, ResetInPoll
<1>3. ASSUME NEW tx, NEW dialect, NEW answer, Enter,
             Complete(tx, dialect, answer),
             answer = Ack(0) \/ answer = NoFrame \/ answer.kind # "ack"
      PROVE  HInv'
  <2>1. /\ state' = "data" /\ connected' = TRUE /\ seqRx' = 0
        /\ ctrl' = answer /\ UNCHANGED <<enable, ending>>
    BY <1>3 DEF Complete, MuxConnected, Enter, life
  <2> QED  BY <1>3, <2>1 DEF HInv, ConnectedOK, AckOK, Ack
<1>4. ASSUME NEW dialect, Enter, Confirm(dialect), ~connected PROVE HInv'
  <2>1. /\ state' = "idle_ack" /\ ctrl' = Con(magic)
        /\ UNCHANGED <<connected, enable, ending>>
    BY <1>4 DEF Confirm, Enter, life
  <2> QED  BY <1>4, <2>1 DEF HInv, ConnectedOK, AckOK, Con
<1>5. CASE RxAckIdle(f.seq)
  <2>1. ctrl = NoFrame \/ ctrl.kind # "ack"  BY <1>5 DEF RxAckIdle, HInv
  <2> QED  BY <1>1, <1>3, <1>5, <2>1 DEF RxAckIdle
<1>6. CASE RxAckData(f.seq)
  <2>1. /\ state = "data_ack" /\ state' \in {"data", "data_ack"}
        /\ UNCHANGED <<seqRx, ctrl, connected, enable, ending>>
    BY <1>6 DEF RxAckData, Enter, life
  <2> QED  BY <2>1 DEF HInv, ConnectedOK, AckOK
<1>7. CASE RxAckIgnored(f.seq)  BY <1>1, <1>7 DEF RxAckIgnored
<1>8. CASE RxDisc  BY <1>1, <1>2, <1>8 DEF RxDisc
<1>9. CASE RxWhileConnected  BY <1>2, <1>9 DEF RxWhileConnected
<1>10. ASSUME state \notin {"data", "data_ack"} PROVE ~connected
  BY <1>10 DEF HInv, ConnectedOK
<1>11. CASE RxReq  BY <1>1, <1>3, <1>4, <1>10, <1>11 DEF RxReq
<1>12. CASE RxReqReq  BY <1>1, <1>4, <1>10, <1>12 DEF RxReqReq
<1>13. CASE RxReqCon(f.body)  BY <1>1, <1>3, <1>13 DEF RxReqCon
<1>14. CASE RxDataNext(f)
  <2>1. /\ state \in {"data", "data_ack"}
        /\ seqRx' = f.seq /\ ctrl' = Ack(f.seq)
        /\ UNCHANGED <<state, connected, enable, ending>>
    BY <1>14 DEF RxDataNext, Enter, life
  <2> QED  BY <2>1 DEF HInv, ConnectedOK, AckOK, Ack
<1>15. CASE RxDataRepeat(f)
  <2>1. /\ state \in {"data", "data_ack"} /\ ctrl' = Ack(seqRx)
        /\ UNCHANGED <<state, seqRx, connected, enable, ending>>
    BY <1>15 DEF RxDataRepeat, Enter, life
  <2> QED  BY <2>1 DEF HInv, ConnectedOK, AckOK, Ack
<1>16. CASE RxDataIgnored  BY <1>1, <1>16 DEF RxDataIgnored
<1> QED
  BY <1>5, <1>6, <1>7, <1>8, <1>9, <1>11, <1>12, <1>13, <1>14, <1>15, <1>16
     DEF Rx

\* The rest of a poll keeps HInv.
LEMMA HandshakePoll ==
    ASSUME HInv, ~MuxMayFail, Poll \/ \E d \in Data : MuxPollTx(d)
    PROVE  HInv'
<1>1. CASE NoRx  BY <1>1, HandshakeKept DEF NoRx, Enter, life, Ignore
<1>2. CASE TimerNotDue  BY <1>2, HandshakeKept DEF TimerNotDue, life
<1>3. CASE TimeoutIdle
  <2>1. ~connected  BY <1>3 DEF TimeoutIdle, HInv, ConnectedOK
  <2>2. \/ state' = "idle_req" /\ ctrl' = ReqReq
        \/ UNCHANGED <<state, ctrl>>
    BY <1>3 DEF TimeoutIdle
  <2>3. UNCHANGED <<connected, seqRx, enable, ending>> /\ state = "idle"
    BY <1>3 DEF TimeoutIdle, Timeout, life
  <2> QED  BY <2>1, <2>2, <2>3 DEF HInv, ConnectedOK, AckOK, ReqReq
<1>4. CASE TimeoutIdleReq
  BY <1>4, HandshakeKept DEF TimeoutIdleReq, Timeout, life
<1>5. CASE TimeoutIdleAck
  BY <1>5, HandshakeKept DEF TimeoutIdleAck, Timeout, life
<1>6. CASE TimeoutGiveUp
  BY <1>6, HandshakeReset DEF TimeoutGiveUp, Timeout, life
<1>7. CASE TimeoutData
  BY <1>7, HandshakeReset DEF TimeoutData, Timeout, life
<1>8. CASE TimeoutDataAck
  BY <1>8, HandshakeKept DEF TimeoutDataAck, Timeout, life
<1>9. CASE MuxSkipped  BY <1>9, HandshakeKept DEF MuxSkipped, life
<1>10. CASE MuxPoll  BY <1>10, HandshakeKept DEF MuxPoll, life
<1>11. CASE PollTxCtrl  BY <1>11, HandshakeKept DEF PollTxCtrl, life
<1>12. CASE PollTxData  BY <1>12, HandshakeKept DEF PollTxData, life
<1>13. CASE PollTxNothing  BY <1>13, HandshakeKept DEF PollTxNothing, life
<1>14. ASSUME NEW d \in Data, MuxPollTx(d) PROVE HInv'
  <2>1. connected  BY <1>14 DEF MuxPollTx, Free
  <2>2. state \in {"data", "data_ack"}  BY <2>1 DEF HInv, ConnectedOK
  <2>3. /\ state' = "data_ack"
        /\ UNCHANGED <<connected, enable, seqRx, ctrl>>
    BY <1>14 DEF MuxPollTx
  <2>4. ending' # "no" => ending # "no"  BY <1>14 DEF MuxPollTx
  <2> QED  BY <2>1, <2>2, <2>3, <2>4 DEF HInv, ConnectedOK, AckOK
<1> QED
  BY <1>1, <1>2, <1>3, <1>4, <1>5, <1>6, <1>7, <1>8, <1>9, <1>10, <1>11,
     <1>12, <1>13, <1>14
     DEF Poll, PollTimer, PollTx

\* connect_start and connect_end keep HInv.
LEMMA HandshakeStartEnd ==
    ASSUME HInv, ~MuxMayFail, Start \/ End
    PROVE  HInv'
<1>1. CASE Start  BY <1>1, HandshakeReset DEF Start
<1>2. CASE EndNow
  <2>1. /\ connected' = FALSE /\ enable' = FALSE
        /\ UNCHANGED <<state, seqRx, ctrl>>
    BY <1>2 DEF EndNow, MuxDisconnected
  <2> QED  BY <2>1 DEF HInv, ConnectedOK, AckOK
<1>3. CASE EndBegin
  <2>1. enable' = FALSE /\ UNCHANGED <<connected, state, seqRx, ctrl>>
    BY <1>3 DEF EndBegin
  <2> QED  BY <2>1 DEF HInv, ConnectedOK, AckOK
<1>4. CASE EndMux
  <2>1. /\ connected' = FALSE /\ ending # "no"
        /\ UNCHANGED <<enable, state, seqRx, ctrl>>
    BY <1>4 DEF EndMux, Waiting
  <2> QED  BY <2>1 DEF HInv, ConnectedOK, AckOK
<1>5. CASE EndData
  <2>1. Reset /\ enable' = FALSE
    BY <1>5 DEF EndData, Waiting, HInv
  <2> QED  BY <2>1, HandshakeReset
<1>6. CASE EndDisc  BY <1>6, HandshakeKept DEF EndDisc
<1>7. CASE EndEscape
  <2>1. UNCHANGED <<enable, connected, state, seqRx, ctrl>> /\ ending # "no"
    BY <1>7 DEF EndEscape, Waiting
  <2> QED  BY <2>1 DEF HInv, ConnectedOK, AckOK
<1> QED  BY <1>1, <1>2, <1>3, <1>4, <1>5, <1>6, <1>7 DEF End

\* Every step keeps HInv.
LEMMA NextHInv ==
    ASSUME ~MuxMayFail
    PROVE  HInv /\ [Next]_vars => HInv'
<1> SUFFICES ASSUME HInv, [Next]_vars PROVE HInv'  OBVIOUS
<1>1. CASE UNCHANGED vars
  BY <1>1, HandshakeKept DEF vars
<1>2. CASE \E f \in Frame : Rx(f)  BY <1>2, HandshakeRx
<1>3. CASE Poll \/ \E d \in Data : MuxPollTx(d)  BY <1>3, HandshakePoll
<1>4. CASE Start \/ End  BY <1>4, HandshakeStartEnd
<1>5. CASE PollDisconnected
  BY <1>5, HandshakeReset DEF PollDisconnected, life
<1>6. CASE Tick \/ FrameSent  BY <1>6, HandshakeKept DEF Tick, FrameSent, life
<1> QED  BY <1>1, <1>2, <1>3, <1>4, <1>5, <1>6 DEF Next

\* HInv is an invariant, for a multiplexor that does not fail.
LEMMA Handshake ==
    ASSUME ~MuxMayFail
    PROVE  Spec => []HInv
<1>1. Init => HInv
  BY DEF Init, HInv, ConnectedOK, AckOK
<1> QED  BY <1>1, NextHInv, PTL DEF Spec

\* An acknowledge waiting in the single control slot is never out of date.
THEOREM AckNeverStale ==
    ASSUME ~MuxMayFail
    PROVE  Spec => []AckOK
<1>1. HInv => AckOK  BY DEF HInv
<1> QED  BY <1>1, Handshake, PTL

\* While enabled, the multiplexor is started and stopped with the connection.
THEOREM MuxFollowsConnection ==
    ASSUME ~MuxMayFail
    PROVE  Spec => []ConnectedOK
<1>1. HInv => ConnectedOK  BY DEF HInv
<1> QED  BY <1>1, Handshake, PTL

\* No order of frames, time-outs and disconnects makes a connection when
\* connections are disabled, or on top of another.
THEOREM NeverLate ==
    ASSUME ~MuxMayFail
    PROVE  Spec => NoLateConnection
<1>1. ASSUME HInv, [Next]_vars, state' = "data", state \notin {"data", "data_ack"}
      PROVE  enable /\ ~connected
  <2>1. ~connected  BY <1>1 DEF HInv, ConnectedOK
  <2>2. state' # state  BY <1>1
  <2>3. Next  BY <1>1, <2>2 DEF vars
  <2>4. CASE \E f \in Frame : Rx(f)
    <3>1. state' # state /\ state' = "data" /\ state # "data_ack"  BY <1>1
    <3>2. ~Ignore /\ ~ResetInPoll("timer") /\ \A e : ~Confirm(e)
      BY <3>1 DEF Ignore, ResetInPoll, Reset, Confirm
    <3>3. PICK f \in Frame : Rx(f)  BY <2>4
    <3>4. \/ RxAckIdle(f.seq) \/ RxReq \/ RxReqReq \/ RxReqCon(f.body)
          \/ RxAckIgnored(f.seq) \/ RxDisc \/ RxWhileConnected \/ RxDataIgnored
      BY <3>1, <3>3 DEF Rx, RxAckData, RxDataNext, RxDataRepeat
    <3> QED
      BY <2>1, <3>2, <3>4 DEF RxAckIdle, RxReq, RxReqReq, RxReqCon,
         RxAckIgnored, RxDisc, RxWhileConnected, RxDataIgnored
  <2>5. CASE Poll
    BY <1>1, <2>5 DEF Poll, NoRx, Ignore, PollTimer, TimerNotDue, TimeoutIdle,
       TimeoutIdleReq, TimeoutIdleAck, TimeoutGiveUp, TimeoutData,
       TimeoutDataAck, Reset, MuxSkipped, MuxPoll, PollTx, PollTxCtrl,
       PollTxData, PollTxNothing
  <2>6. CASE Start \/ End \/ PollDisconnected \/ Tick \/ FrameSent
    BY <1>1, <2>6 DEF Start, End, EndNow, EndBegin, EndMux, EndData, EndDisc,
       EndEscape, Reset, PollDisconnected, Tick, FrameSent
  <2>7. CASE \E d \in Data : MuxPollTx(d)  BY <1>1, <2>7 DEF MuxPollTx
  <2> QED  BY <2>1, <2>3, <2>4, <2>5, <2>6, <2>7 DEF Next
<1>2. HInv /\ [Next]_vars
        => [state' = "data" /\ state \notin {"data", "data_ack"}
              => enable /\ ~connected]_vars
  BY <1>1
<1> QED  BY <1>2, Handshake, PTL DEF Spec, NoLateConnection
=============================================================================
