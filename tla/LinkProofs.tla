------------------------------ MODULE LinkProofs ------------------------------
(***************************************************************************)
(* Proofs about the two lowest layers, LinkControl and MuxData, whose      *)
(* actions have no variable in common.                                     *)
(*                                                                         *)
(* Whatever is interrupted, the block driver and its users fit together,   *)
(* and a command that reports success did what it is for.  A command is a  *)
(* chain of routines, each of which has a set of outcomes.  For each       *)
(* routine one lemma says what all its outcomes have in common; the lemma  *)
(* of a command follows its calls.                                         *)
(*                                                                         *)
(* Messages are put together from their own frames, whatever connections   *)
(* end in the middle of one, and a channel is stopped exactly while its    *)
(* server wants it to be.  The frames on their way are in one queue for    *)
(* all channels.  The invariant says of each channel what its frames in    *)
(* that queue are, next to what it has received and what its server still  *)
(* has to send; a frame that is queued or received only concerns the       *)
(* channel that it is for.                                                 *)
(***************************************************************************)
EXTENDS LinkControl, MuxData, Induction

-----------------------------------------------------------------------------
(* The link (LinkControl) *)

\* The block drivers state a speed (blockdrive_load, the DRIVER structure).
Speedy == \A d \in Drivers : d.speeds # <<>>

Speed == Nat \ {0}
Modes == {"inactive", "link", "printer"}
Link ==
    [active : BOOLEAN, driver : Drivers \cup {NoDriver}, speeds : Seq(Speed), index : Nat, baud : Nat,
     lines : BOOLEAN, mode : Modes, framed : BOOLEAN, manager : BOOLEAN,
     enable : BOOLEAN, stream : Devices \cup {NoDevice}, printing : BOOLEAN,
     operations : Nat, idle : BOOLEAN, halved : BOOLEAN]

\* A state between two routines, and an outcome that is one.
Good(l) == l \in Link /\ Fits(l)
Sound(o) == Good(o.link) /\ o.error \in BOOLEAN /\ o.cost \in Nat

\* The result is that of a command, or of none.
Results == [command : {"none", "link", "print", "disable"}, error : BOOLEAN, device : Devices \cup {NoDevice}]

Inv ==
    /\ config \in Settings
    /\ Good(link)
    /\ result \in Results
    /\ faults \in Nat
    /\ CommandOK

-----------------------------------------------------------------------------
(* The speeds *)

\* baud_list gives speeds, and all there are when nothing restricts them.
LEMMA BaudListFacts ==
    ASSUME NEW d, d.speeds \in Seq(Speed), NEW restrict, NEW target
    PROVE  /\ BaudList(d, restrict, target) \in Seq(Speed)
           /\ restrict = {} /\ target = 0 /\ d.speeds # <<>> => BaudList(d, restrict, target) # <<>>
<1> DEFINE s == d.speeds
           N == Len(s)
           S == Seq(Speed)
           ok(b) == (restrict = {} \/ b \in restrict) /\ target \in {0, b}
           Is(f) == f = [k \in 0 .. N |-> IF k = 0 THEN <<>>
                         ELSE IF ok(s[k]) THEN Append(f[k - 1], s[k]) ELSE f[k - 1]]
           list == CHOOSE f : Is(f)
           R == [p \in S \X Speed |-> IF ok(p[2]) THEN Append(p[1], p[2]) ELSE p[1]]
<1>1. N \in Nat /\ \A k \in 1 .. N : s[k] \in Speed
  OBVIOUS
<1>2. \A m \in S, b \in Speed : R[<<m, b>>] = IF ok(b) THEN Append(m, b) ELSE m
  OBVIOUS
<1>3. <<>> \in S /\ \A m \in S, b \in Speed : Append(m, b) \in S /\ Append(m, b) # <<>>
  <2>1. ASSUME NEW m \in S, NEW b \in Speed PROVE Append(m, b) \in S /\ Append(m, b) # <<>>
    OBVIOUS
  <2>2. <<>> \in S
    OBVIOUS
  <2> HIDE DEF S
  <2> QED  BY <2>1, <2>2
<1> HIDE DEF R
<1>4. Stays(R, s, S, N)
  <2> SUFFICES ASSUME NEW m \in S, NEW i \in 1 .. N PROVE R[<<m, s[i]>>] \in S
    BY DEF Stays
  <2>1. s[i] \in Speed
    BY <1>1
  <2> HIDE DEF S, s, N
  <2> QED  BY <1>2, <1>3, <2>1
<1>5. PICK f \in [0 .. N -> S] : Runs(R, s, <<>>, N, f)
  <2> HIDE DEF S, s, N
  <2> QED  BY <1>1, <1>3, <1>4, Run
<1>6. Is(f)
  <2>1. \A k \in 1 .. N : f[k] = IF ok(s[k]) THEN Append(f[k - 1], s[k]) ELSE f[k - 1]
    <3> SUFFICES ASSUME NEW k \in 1 .. N
                 PROVE  f[k] = IF ok(s[k]) THEN Append(f[k - 1], s[k]) ELSE f[k - 1]
      OBVIOUS
    <3>1. f[k - 1] \in S /\ s[k] \in Speed
      BY <1>1
    <3>2. f[k] = R[<<f[k - 1], s[k]>>]
      BY <1>5 DEF Runs
    <3> HIDE DEF S, s
    <3> QED  BY <1>2, <3>1, <3>2
  <2>2. f[0] = <<>>
    BY <1>5 DEF Runs
  <2>3. f = [k \in 0 .. N |-> f[k]]
    BY <1>5
  <2>4. \A k \in 0 .. N : f[k] = IF k = 0 THEN <<>>
                                ELSE IF ok(s[k]) THEN Append(f[k - 1], s[k]) ELSE f[k - 1]
    <3>1. \A k \in 0 .. N : k = 0 \/ k \in 1 .. N
      BY <1>1
    <3> HIDE DEF S, s, N, ok
    <3> QED  BY <2>1, <2>2, <3>1
  <2> HIDE DEF S, s, N, ok
  <2> QED  BY <2>3, <2>4
<1>7. Is(list)
  <2> HIDE DEF Is
  <2> QED  BY <1>6
<1>8. BaudList(d, restrict, target) = list[N]
  BY DEF BaudList
<1> HIDE DEF list
<1>9. list[0] = <<>>
  BY <1>1, <1>7
<1>10. \A k \in 1 .. N : list[k] = IF ok(s[k]) THEN Append(list[k - 1], s[k]) ELSE list[k - 1]
  <2> SUFFICES ASSUME NEW k \in 1 .. N
               PROVE  list[k] = IF ok(s[k]) THEN Append(list[k - 1], s[k]) ELSE list[k - 1]
    OBVIOUS
  <2>1. k \in 0 .. N /\ k # 0
    BY <1>1
  <2> HIDE DEF ok, s, N
  <2> QED  BY <1>7, <2>1
<1> HIDE DEF Is, S
<1>11. \A k \in 0 .. N : list[k] \in S
  <2> DEFINE T == {k \in 0 .. N : list[k] \notin S}
  <2>1. SUFFICES ASSUME T # {} PROVE FALSE
    OBVIOUS
  <2>2. PICK n \in T : \A j \in T : n <= j
    <3>1. T \in SUBSET Nat
      BY <1>1
    <3> HIDE DEF T
    <3> QED  BY <2>1, <3>1, Least
  <2>3. n \in 1 .. N
    BY <1>1, <1>3, <1>9
  <2>4. n - 1 \in 0 .. N /\ n - 1 \notin T
    BY <1>1, <2>2, <2>3
  <2>5. list[n - 1] \in S
    BY <2>4
  <2>6. s[n] \in Speed
    BY <1>1, <2>3
  <2> HIDE DEF s
  <2>7. list[n] \in S
    BY <1>3, <1>10, <2>3, <2>5, <2>6
  <2> QED  BY <2>7
<1>12. ASSUME restrict = {}, target = 0, s # <<>> PROVE list[N] # <<>>
  <2>1. N \in 1 .. N /\ s[N] \in Speed
    BY <1>1, <1>12
  <2>2. list[N] = Append(list[N - 1], s[N])
    BY <1>10, <1>12, <2>1
  <2>3. list[N - 1] \in S
    BY <1>1, <1>11, <2>1
  <2> HIDE DEF s, N
  <2> QED  BY <1>3, <2>1, <2>2, <2>3
<1> QED  BY <1>1, <1>8, <1>11, <1>12 DEF S

\* Sequences of two and three lists, joined.
LEMMA Joined == \A a, b, c : <<a>> \o <<b, c>> = <<a, b, c>> /\ <<>> \o <<b, c>> = <<b, c>>
<1> TAKE a, b, c
<1>2. <<a>> \o <<b, c>> = <<a, b, c>>
  <2> DEFINE S == {a, b, c}
  <2>1. <<a>> \in Seq(S) /\ <<b, c>> \in Seq(S) /\ <<a, b, c>> \in Seq(S)
    OBVIOUS
  <2>2. Len(<<a>> \o <<b, c>>) = 3 /\ <<a>> \o <<b, c>> \in Seq(S)
    BY <2>1
  <2>3. (<<a>> \o <<b, c>>)[1] = a /\ (<<a>> \o <<b, c>>)[2] = b /\ (<<a>> \o <<b, c>>)[3] = c
    BY <2>1
  <2> HIDE DEF S
  <2>4. Len(<<a, b, c>>) = 3 /\ \A i \in 1 .. 3 : (<<a>> \o <<b, c>>)[i] = <<a, b, c>>[i]
    BY <2>3
  <2> QED  BY <2>1, <2>2, <2>4, SeqEqual
<1>3. <<>> \o <<b, c>> = <<b, c>>
  OBVIOUS
<1> QED  BY <1>2, <1>3

\* The speeds of a driver that has some are some of its speeds.
LEMMA SpeedsFacts ==
    ASSUME LinkParameters, Speedy, config \in Settings, NEW d \in Drivers, NEW auto
    PROVE  Speeds(d, auto) \in Seq(Speed) /\ Speeds(d, auto) # <<>>
<1> DEFINE lists == (IF auto /\ config.autobaud THEN <<BaudList(d, Recommended, 0)>> ELSE <<>>)
                    \o <<BaudList(d, {}, config.baud), BaudList(d, {}, 0)>>
           usable == {k \in 1 .. Len(lists) : lists[k] # <<>>}
<1>1. d.speeds \in Seq(Speed) /\ d.speeds # <<>>
  BY DEF LinkParameters, Speedy, Speed
<1>2. \A restrict, target : BaudList(d, restrict, target) \in Seq(Speed)
  BY <1>1, BaudListFacts
<1>3. BaudList(d, {}, 0) # <<>>
  BY <1>1, BaudListFacts
<1>4. Len(lists) \in 2 .. 3 /\ \A k \in 1 .. Len(lists) : lists[k] \in Seq(Speed)
  <2>1. CASE auto /\ config.autobaud
    <3>1. lists = <<BaudList(d, Recommended, 0), BaudList(d, {}, config.baud), BaudList(d, {}, 0)>>
      <4>1. lists = <<BaudList(d, Recommended, 0)>> \o <<BaudList(d, {}, config.baud), BaudList(d, {}, 0)>>
        BY <2>1
      <4> QED  BY <4>1, Joined
    <3> HIDE DEF lists
    <3> QED  BY <1>2, <3>1
  <2>2. CASE ~(auto /\ config.autobaud)
    <3>1. lists = <<BaudList(d, {}, config.baud), BaudList(d, {}, 0)>>
      <4>1. lists = <<>> \o <<BaudList(d, {}, config.baud), BaudList(d, {}, 0)>>
        BY <2>2
      <4> QED  BY <4>1, Joined
    <3> HIDE DEF lists
    <3> QED  BY <1>2, <3>1
  <2> QED  BY <2>1, <2>2
<1>5. lists[Len(lists)] = BaudList(d, {}, 0)
  OBVIOUS
<1>6. Speeds(d, auto) = IF usable = {} THEN <<>> ELSE lists[CHOOSE k \in usable : \A j \in usable : k <= j]
  BY DEF Speeds
<1> HIDE DEF lists
<1>7. Len(lists) \in usable /\ usable \subseteq Nat
  BY <1>3, <1>4, <1>5
<1>8. \E k \in usable : \A j \in usable : k <= j
  <2> HIDE DEF usable
  <2> QED  BY <1>7, Least
<1>9. PICK k \in usable : Speeds(d, auto) = lists[k]
  <2> HIDE DEF usable
  <2> QED  BY <1>6, <1>7, <1>8
<1> QED  BY <1>4, <1>9

-----------------------------------------------------------------------------
(* Routines: what all their outcomes have in common                        *)

\* What the outcomes of a routine are.
Of(k, o) == o.link = k /\ o.error \in BOOLEAN /\ o.cost \in Nat

\* An outcome is of the state it was made from, and failed or did not.
LEMMA OutcomeFacts ==
    ASSUME NEW k, NEW o
    PROVE  /\ o \in Done(k) => Of(k, o) /\ ~o.error
           /\ o \in Failed(k) => Of(k, o) /\ o.error
           /\ o \in Interrupted(k) => Of(k, o) /\ o.error
<1>1. \A e \in BOOLEAN : Of(k, Outcome(k, e)) /\ Outcome(k, e).error = e
  BY DEF Outcome, Of
<1>2. Of(k, [Outcome(k, TRUE) EXCEPT !.cost = 1]) /\ [Outcome(k, TRUE) EXCEPT !.cost = 1].error
  BY DEF Outcome, Of
<1> QED  BY <1>1, <1>2 DEF Done, Failed, Interrupted

\* link_next_baud changes the speed and the lines, and nothing else.
Tuned(l, k) ==
    /\ k.active = l.active /\ k.driver = l.driver /\ k.speeds = l.speeds /\ k.mode = l.mode
    /\ k.framed = l.framed /\ k.manager = l.manager /\ k.enable = l.enable
    /\ k.stream = l.stream /\ k.printing = l.printing /\ k.halved = l.halved

\* It chooses the speed after the last, or the first.
LEMMA NextBaudFacts ==
    ASSUME NEW l \in Link, l.index \in 0 .. Len(l.speeds), l.speeds # <<>>,
           l.index # 0 => l.lines /\ l.baud = l.speeds[l.index]
    PROVE  LET k == NextBaud(l) IN
           /\ k \in Link /\ Tuned(l, k) /\ k.lines
           /\ k.index \in 1 .. Len(l.speeds) /\ k.baud = l.speeds[k.index]
<1> DEFINE next == IF l.index < Len(l.speeds) THEN l.index + 1 ELSE 1
           k == NextBaud(l)
<1>1. l.speeds \in Seq(Speed) /\ Len(l.speeds) \in Nat \ {0}
  BY DEF Link
<1>2. next \in 1 .. Len(l.speeds) /\ l.speeds[next] \in Nat
  BY <1>1 DEF Speed
<1>3. CASE next = l.index
  <2>1. k = l
    BY <1>3 DEF NextBaud
  <2>2. l.index # 0
    BY <1>2, <1>3
  <2> HIDE DEF k
  <2> QED  BY <1>2, <1>3, <2>1, <2>2 DEF k, Tuned
<1>4. CASE next # l.index
  <2>1. k = [l EXCEPT !.index = next, !.lines = TRUE, !.baud = l.speeds[next]]
    BY <1>2, <1>4 DEF NextBaud
  <2> HIDE DEF k, next
  <2>2. k \in Link /\ Tuned(l, k) /\ k.lines /\ k.index = next /\ k.baud = l.speeds[next]
    <3>1. next \in Nat /\ l.speeds[next] \in Nat
      BY <1>1, <1>2
    <3> QED  BY <2>1, <3>1 DEF Link, Tuned
  <2> QED  BY <1>2, <2>2 DEF k
<1> QED  BY <1>3, <1>4

\* link_load leaves what was there, or a driver with no user.
Loaded(l, o) ==
    /\ o.cost = 0
    /\ \/ o.error = TRUE /\ o.link = l
       \/ o.error = FALSE /\ Good(o.link) /\ o.link.active /\ o.link.mode = "inactive"

\* Loading the configured driver (link_enable) has one of those outcomes.
LEMMA LoadFacts ==
    ASSUME LinkParameters, Speedy, config \in Settings, NEW l, Good(l), ~l.active, NEW auto,
           NEW o \in Load(l, auto)
    PROVE  Loaded(l, o)
<1>1. CASE o = Outcome(l, TRUE)
  BY <1>1 DEF Outcome, Loaded
<1>2. CASE o # Outcome(l, TRUE)
  <2> DEFINE d == config.driver
             m == [l EXCEPT !.driver = d, !.speeds = Speeds(d, auto), !.index = 0]
             k == NextBaud(m)
             n == [k EXCEPT !.active = TRUE]
  <2>1. d.ports > config.port /\ o = Outcome(n, FALSE)
    <3>1. d.ports \in Nat /\ config.port \in Nat
      BY DEF LinkParameters
    <3> HIDE DEF n
    <3>2. ~(d.ports <= config.port) /\ o = Outcome(n, FALSE)
      BY <1>2 DEF Load, Failed, Done, n
    <3> QED  BY <3>1, <3>2
  <2>2. d \in Drivers /\ d # NoDriver
    <3>1. d \in Drivers /\ config.port \in Nat
      BY DEF LinkParameters
    <3>2. NoDriver.ports = 0
      BY DEF NoDriver
    <3> QED  BY <2>1, <3>1, <3>2
  <2> HIDE DEF d
  <2>3. Speeds(d, auto) \in Seq(Speed) /\ Speeds(d, auto) # <<>>
    BY <2>2, SpeedsFacts
  <2>4. l \in Link /\ l.mode = "inactive" /\ ~l.framed /\ ~l.manager /\ ~l.enable /\ ~l.printing
        /\ l.stream = NoDevice
    BY DEF Good, Fits, Link, Modes
  <2>5. /\ m \in Link /\ m.index = 0 /\ m.driver = d /\ m.speeds = Speeds(d, auto) /\ m.mode = l.mode
        /\ m.framed = l.framed /\ m.manager = l.manager /\ m.enable = l.enable
        /\ m.stream = l.stream /\ m.printing = l.printing
    BY <2>2, <2>3, <2>4 DEF Link
  <2> HIDE DEF m
  <2>6. /\ k \in Link /\ Tuned(m, k) /\ k.lines
        /\ k.index \in 1 .. Len(m.speeds) /\ k.baud = m.speeds[k.index]
    <3>1. m.index \in 0 .. Len(m.speeds)
      BY <2>3, <2>5
    <3> QED  BY <2>3, <2>5, <3>1, NextBaudFacts
  <2> HIDE DEF k
  <2>7. /\ n \in Link /\ n.active /\ n.lines /\ n.driver = d /\ n.mode = "inactive" /\ ~n.framed
        /\ ~n.manager /\ ~n.enable /\ ~n.printing /\ n.stream = NoDevice
        /\ n.index = k.index /\ n.baud = k.baud /\ n.speeds = m.speeds
    BY <2>4, <2>5, <2>6 DEF Link, Tuned
  <2> HIDE DEF n
  <2>8. Good(n)
    BY <2>2, <2>6, <2>7 DEF Good, Fits
  <2> QED  BY <2>1, <2>7, <2>8 DEF Outcome, Loaded
<1> QED  BY <1>1, <1>2

\* link_unload of a driver that has no user.
LEMMA UnloadFacts ==
    ASSUME NEW l, Good(l), l.mode = "inactive"
    PROVE  Good(Unload(l)) /\ ~Unload(l).active /\ Unload(l).mode = "inactive"
<1>1. l \in Link
  BY DEF Good
<1>2. CASE ~l.active
  BY <1>2 DEF Unload
<1>3. CASE l.active
  <2> DEFINE k == [l EXCEPT !.lines = FALSE, !.active = FALSE, !.driver = NoDriver]
  <2>1. /\ k \in Link /\ ~k.lines /\ ~k.active /\ k.driver = NoDriver /\ k.mode = l.mode
        /\ k.framed = l.framed /\ k.manager = l.manager /\ k.enable = l.enable
        /\ k.stream = l.stream /\ k.printing = l.printing /\ k.halved = l.halved
    BY <1>1 DEF Link
  <2>2. Unload(l) = k
    BY <1>3 DEF Unload
  <2> HIDE DEF k
  <2> QED  BY <2>1, <2>2 DEF Good, Fits
<1> QED  BY <1>2, <1>3

\* user_start_link and user_start_print keep the link, and its mode unless they
\* succeed.
Started(l, o) ==
    /\ Sound(o) /\ o.cost = 0 /\ o.link.active
    /\ o.error => o.link.mode = l.mode

\* link_enable_link starts the link, or leaves the user that there was.
LEMMA StartLinkFacts ==
    ASSUME NEW l, Good(l), l.active, NEW o \in StartLink(l)
    PROVE  /\ Started(l, o)
           /\ ~o.error => o.link.mode = "link" /\ (o.link.enable \/ o.link.halved)
<1> DEFINE k == [l EXCEPT !.idle = FALSE]
<1>1. l \in Link
  BY DEF Good
<1>2. /\ k \in Link /\ k.active = l.active /\ k.driver = l.driver /\ k.lines = l.lines /\ k.mode = l.mode
      /\ k.framed = l.framed /\ k.manager = l.manager /\ k.enable = l.enable
      /\ k.stream = l.stream /\ k.printing = l.printing /\ k.halved = l.halved
      /\ k.index = l.index /\ k.baud = l.baud /\ k.speeds = l.speeds
  BY <1>1 DEF Link
<1>3. CASE l.mode = "link"
  <2>1. o = Outcome(k, FALSE)
    BY <1>3 DEF StartLink, Done
  <2> HIDE DEF k
  <2>2. Good(k) /\ (k.enable \/ k.halved)
    BY <1>2, <1>3 DEF Good, Fits
  <2> QED  BY <1>2, <1>3, <2>1, <2>2 DEF Outcome, Started, Sound
<1>4. CASE l.mode = "printer"
  <2>1. o = Outcome(k, TRUE)
    BY <1>4 DEF StartLink, Failed
  <2> HIDE DEF k
  <2>2. Good(k)
    BY <1>2 DEF Good, Fits
  <2> QED  BY <1>2, <1>4, <2>1, <2>2 DEF Outcome, Started, Sound
<1>5. CASE l.mode \notin {"link", "printer"}
  <2> DEFINE c == ConnectStart(k)
             f == [c EXCEPT !.framed = TRUE, !.halved = FALSE]
             n == [f EXCEPT !.mode = "link"]
  <2>1. ~k.framed /\ ~k.manager /\ ~k.printing
    BY <1>2, <1>5 DEF Good, Fits
  <2>2. o = Outcome(n, FALSE)
    BY <1>5, <2>1 DEF StartLink, Done, FrameStart
  <2> HIDE DEF k
  <2>3. c = [k EXCEPT !.manager = TRUE, !.enable = TRUE]
    BY <2>1 DEF ConnectStart
  <2>4. /\ n \in Link /\ n.active = k.active /\ n.driver = k.driver /\ n.lines = k.lines
        /\ n.mode = "link" /\ n.framed /\ n.manager /\ n.enable
        /\ n.stream = k.stream /\ n.printing = k.printing
        /\ n.index = k.index /\ n.baud = k.baud /\ n.speeds = k.speeds
    BY <1>2, <2>3, ZenonT(60) DEF Link, Modes
  <2> HIDE DEF n
  <2>5. Good(n)
    BY <1>2, <2>1, <2>4 DEF Good, Fits
  <2> QED  BY <1>2, <2>2, <2>4, <2>5 DEF Outcome, Started, Sound
<1> QED  BY <1>3, <1>4, <1>5

\* link_enable_print starts a printer, or leaves the user that there was.
LEMMA StartPrintFacts ==
    ASSUME LinkParameters, NEW l, Good(l), l.active, NEW device \in Devices,
           NEW o \in StartPrint(l, device)
    PROVE  /\ Started(l, o)
           /\ ~o.error => o.link.stream = device
<1> DEFINE k == [l EXCEPT !.idle = FALSE]
           c == PrintEnd(k)
           n == [c EXCEPT !.stream = device, !.printing = TRUE, !.mode = "printer"]
<1>1. l \in Link /\ device # NoDevice
  BY DEF Good, LinkParameters
<1>2. /\ k \in Link /\ k.active = l.active /\ k.driver = l.driver /\ k.lines = l.lines /\ k.mode = l.mode
      /\ k.framed = l.framed /\ k.manager = l.manager /\ k.enable = l.enable
      /\ k.stream = l.stream /\ k.printing = l.printing /\ k.halved = l.halved
      /\ k.index = l.index /\ k.baud = l.baud /\ k.speeds = l.speeds
  BY <1>1 DEF Link
<1>3. CASE l.mode = "link"
  <2>1. o = Outcome(k, TRUE)
    BY <1>3 DEF StartPrint, Failed
  <2> HIDE DEF k
  <2>2. Good(k)
    BY <1>2 DEF Good, Fits
  <2> QED  BY <1>2, <1>3, <2>1, <2>2 DEF Outcome, Started, Sound
<1>4. CASE l.mode # "link"
  <2>1. o = Outcome(c, TRUE) \/ o = Outcome(n, FALSE)
    BY <1>4 DEF StartPrint, Failed, Done
  <2> HIDE DEF k
  <2>2. /\ c \in Link /\ c.active = k.active /\ c.driver = k.driver /\ c.lines = k.lines /\ c.mode = k.mode
        /\ c.framed = k.framed /\ c.manager = k.manager /\ c.enable = k.enable
        /\ c.stream = NoDevice /\ ~c.printing /\ c.halved = k.halved
        /\ c.index = k.index /\ c.baud = k.baud /\ c.speeds = k.speeds
    BY <1>2 DEF Link, PrintEnd
  <2> HIDE DEF c
  <2>3. /\ n \in Link /\ n.active = c.active /\ n.driver = c.driver /\ n.lines = c.lines
        /\ n.mode = "printer" /\ n.framed = c.framed /\ n.manager = c.manager /\ n.enable = c.enable
        /\ n.stream = device /\ n.printing /\ n.halved = c.halved
        /\ n.index = c.index /\ n.baud = c.baud /\ n.speeds = c.speeds
    BY <2>2 DEF Link, Modes
  <2> HIDE DEF n
  <2>4. Good(c)
    BY <1>2, <2>2 DEF Good, Fits
  <2>5. Good(n)
    BY <1>1, <1>2, <1>4, <2>2, <2>3 DEF Good, Fits
  <2> HIDE DEF Good
  <2>6. CASE o = Outcome(c, TRUE)
    BY <1>2, <2>2, <2>4, <2>6 DEF Outcome, Started, Sound
  <2>7. CASE o = Outcome(n, FALSE)
    <3>1. n.active /\ n.stream = device
      BY <1>2, <2>2, <2>3
    <3> QED  BY <2>5, <2>7, <3>1 DEF Outcome, Started, Sound
  <2> QED  BY <2>1, <2>6, <2>7
<1> QED  BY <1>3, <1>4

\* frame_end: the frame handler is gone, or an end half way is noted.
Ended(l, o) ==
    /\ o.error \in BOOLEAN /\ o.cost \in Nat /\ o.link \in Link
    /\ o.link.active = l.active /\ o.link.mode = l.mode
    /\ o.error => Good(o.link)
    /\ ~o.error => Good([o.link EXCEPT !.mode = "inactive"])

\* Ending the link (frame_end and the layers above it) has one of those outcomes.
LEMMA FrameEndFacts ==
    ASSUME NEW l, Good(l), l.mode = "link", NEW now \in BOOLEAN, NEW o \in FrameEnd(l, now)
    PROVE  Ended(l, o)
<1> DEFINE disabled == [l EXCEPT !.enable = FALSE]
           ended == [disabled EXCEPT !.manager = FALSE]
           half(k) == [k EXCEPT !.halved = TRUE]
           gone(k) == [k EXCEPT !.framed = FALSE, !.halved = FALSE]
           C == IF l.manager THEN Done(ended) \cup Interrupted(half(disabled)) ELSE Done(l)
           wait(k) == Done(k) \cup (IF now THEN {} ELSE Interrupted(half(k)))
           W == {p \in C : p.error} \cup UNION {wait(p.link) : p \in {q \in C : ~q.error}}
           left == IF l.manager THEN ended ELSE l
<1>1. l \in Link /\ l.framed /\ l.active
  BY DEF Good, Fits
<1>2. o \in {p \in W : p.error} \cup UNION {Done(gone(p.link)) : p \in {q \in W : ~q.error}}
  BY <1>1 DEF FrameEnd, Then
<1>3. \A p \in C : p = Outcome(left, FALSE)
                   \/ (l.manager /\ p.error /\ p = [Outcome(half(disabled), TRUE) EXCEPT !.cost = 1])
  <2> HIDE DEF ended, disabled, half
  <2> QED  BY DEF Done, Interrupted, Outcome
<1> HIDE DEF C, ended, disabled, half, left
<1>4. \A p \in W : \/ p = Outcome(left, FALSE)
                   \/ l.manager /\ p.error /\ p = [Outcome(half(disabled), TRUE) EXCEPT !.cost = 1]
                   \/ p.error /\ p = [Outcome(half(left), TRUE) EXCEPT !.cost = 1]
  <2>1. \A k : \A p \in wait(k) :
          p = Outcome(k, FALSE) \/ (p.error /\ p = [Outcome(half(k), TRUE) EXCEPT !.cost = 1])
    BY DEF Done, Interrupted, Outcome
  <2> HIDE DEF wait
  <2> SUFFICES ASSUME NEW p \in W PROVE
                   \/ p = Outcome(left, FALSE)
                   \/ l.manager /\ p.error /\ p = [Outcome(half(disabled), TRUE) EXCEPT !.cost = 1]
                   \/ p.error /\ p = [Outcome(half(left), TRUE) EXCEPT !.cost = 1]
    OBVIOUS
  <2>2. CASE p \in C /\ p.error
    BY <1>3, <2>2 DEF Outcome
  <2>3. CASE \E q \in C : ~q.error /\ p \in wait(q.link)
    <3>1. PICK q \in C : ~q.error /\ p \in wait(q.link)
      BY <2>3
    <3>2. q.link = left
      BY <1>3, <3>1 DEF Outcome
    <3> QED  BY <2>1, <3>1, <3>2
  <2> QED  BY <2>2, <2>3
<1> HIDE DEF W
<1>5. \/ l.manager /\ o = [Outcome(half(disabled), TRUE) EXCEPT !.cost = 1]
      \/ o = [Outcome(half(left), TRUE) EXCEPT !.cost = 1]
      \/ o = Outcome(gone(left), FALSE)
  <2>1. CASE o \in W /\ o.error
    <3>1. o # Outcome(left, FALSE)
      BY <2>1 DEF Outcome
    <3> QED  BY <1>4, <2>1, <3>1
  <2>2. CASE \E q \in W : ~q.error /\ o \in Done(gone(q.link))
    <3>1. PICK q \in W : ~q.error /\ o \in Done(gone(q.link))
      BY <2>2
    <3>2. q.link = left
      BY <1>4, <3>1 DEF Outcome
    <3> HIDE DEF gone
    <3> QED  BY <3>1, <3>2 DEF Done
  <2> QED  BY <1>2, <2>1, <2>2
\* The parts that no end changes
<1> DEFINE Like(k) ==
      /\ k \in Link /\ k.active = l.active /\ k.driver = l.driver /\ k.lines = l.lines /\ k.mode = l.mode
      /\ k.stream = l.stream /\ k.printing = l.printing
      /\ k.index = l.index /\ k.baud = l.baud /\ k.speeds = l.speeds
<1>6. Like(half(disabled)) /\ half(disabled).framed /\ half(disabled).manager = l.manager
      /\ ~half(disabled).enable /\ half(disabled).halved
  BY <1>1 DEF Link, half, disabled
<1>7. Like(left) /\ left.framed /\ ~left.manager /\ ~left.enable
  <2>1. CASE l.manager
    BY <1>1, <2>1 DEF Link, left, ended, disabled
  <2>2. CASE ~l.manager
    BY <1>1, <2>2 DEF Link, left, Good, Fits
  <2> QED  BY <2>1, <2>2
<1>8. Like(half(left)) /\ half(left).framed /\ ~half(left).manager /\ ~half(left).enable /\ half(left).halved
  BY <1>7 DEF Link, half
<1> DEFINE n == [gone(left) EXCEPT !.mode = "inactive"]
<1>9. Like(gone(left))
  BY <1>7 DEF Link
<1>10. /\ n \in Link /\ n.active = l.active /\ n.driver = l.driver /\ n.lines = l.lines
       /\ n.mode = "inactive" /\ ~n.framed /\ ~n.manager /\ ~n.enable
       /\ n.stream = l.stream /\ n.printing = l.printing
       /\ n.index = l.index /\ n.baud = l.baud /\ n.speeds = l.speeds
  BY <1>7 DEF Link, Modes
<1>11. Good(half(disabled))
  <2> HIDE DEF half, disabled
  <2> QED  BY <1>1, <1>6 DEF Good, Fits
<1>12. Good(half(left))
  BY <1>1, <1>8 DEF Good, Fits
<1> HIDE DEF n
<1>13. Good(n)
  BY <1>1, <1>10 DEF Good, Fits
<1>14. CASE o = [Outcome(half(disabled), TRUE) EXCEPT !.cost = 1]
  BY <1>6, <1>11, <1>14 DEF Outcome, Ended
<1>15. CASE o = [Outcome(half(left), TRUE) EXCEPT !.cost = 1]
  BY <1>8, <1>12, <1>15 DEF Outcome, Ended
<1>16. CASE o = Outcome(gone(left), FALSE)
  <2>1. o.error = FALSE /\ o.cost = 0 /\ o.link = gone(left)
    BY <1>16 DEF Outcome
  <2>2. [o.link EXCEPT !.mode = "inactive"] = n
    BY <2>1 DEF n
  <2>3. o.link \in Link /\ o.link.active = l.active /\ o.link.mode = l.mode
    <3> HIDE DEF gone
    <3> QED  BY <1>9, <2>1
  <2>4. Good([o.link EXCEPT !.mode = "inactive"])
    <3> HIDE DEF gone
    <3> QED  BY <1>13, <2>2
  <2>5. o.error \in BOOLEAN /\ o.cost \in Nat /\ ~o.error
    BY <1>16, OutcomeFacts DEF Of, Done
  <2> HIDE DEF gone, left
  <2> QED  BY <2>3, <2>4, <2>5, Zenon DEF Ended
<1> QED  BY <1>5, <1>14, <1>15, <1>16

\* user_end: without an error the link has no user.
UserEnded(l, o) == Sound(o) /\ o.link.active = l.active /\ (~o.error => o.link.mode = "inactive")

\* Ending whatever user there is has one of those outcomes.
LEMMA UserEndFacts ==
    ASSUME NEW l, Good(l), NEW now \in BOOLEAN, NEW o \in UserEnd(l, now)
    PROVE  UserEnded(l, o)
<1> DEFINE out(k) == [k EXCEPT !.mode = "inactive"]
           end == CASE l.mode = "link" -> FrameEnd(l, now)
                    [] l.mode = "printer" -> Done(PrintEnd(l))
                    [] OTHER -> Done(l)
<1>1. l \in Link /\ l.mode \in Modes
  BY DEF Good, Link
<1>2. o \in {p \in end : p.error} \cup UNION {Done(out(p.link)) : p \in {q \in end : ~q.error}}
  BY DEF UserEnd, Then
<1>3. \A p \in end : Ended(l, p)
  <2>1. CASE l.mode = "link"
    <3>1. end = FrameEnd(l, now)
      BY <2>1
    <3> HIDE DEF end
    <3> QED  BY <2>1, <3>1, FrameEndFacts
  <2>2. CASE l.mode = "printer"
    <3> DEFINE k == PrintEnd(l)
               n == out(k)
    <3>1. end = Done(k)
      BY <2>2
    <3>2. /\ k \in Link /\ k.active = l.active /\ k.driver = l.driver /\ k.lines = l.lines
          /\ k.mode = l.mode /\ ~k.printing /\ k.stream = NoDevice
          /\ k.framed = l.framed /\ k.manager = l.manager /\ k.enable = l.enable
          /\ k.index = l.index /\ k.baud = l.baud /\ k.speeds = l.speeds
      BY <1>1 DEF Link, PrintEnd
    <3> HIDE DEF end, k
    <3>3. /\ n \in Link /\ n.active = l.active /\ n.driver = l.driver /\ n.lines = l.lines
          /\ n.mode = "inactive" /\ ~n.printing /\ n.stream = NoDevice
          /\ n.framed = l.framed /\ n.manager = l.manager /\ n.enable = l.enable
          /\ n.index = l.index /\ n.baud = l.baud /\ n.speeds = l.speeds
      BY <3>2 DEF Link, Modes
    <3> HIDE DEF n
    <3>4. Good(n)
      BY <2>2, <3>3 DEF Good, Fits
    <3> SUFFICES ASSUME NEW p \in end PROVE Ended(l, p)
      OBVIOUS
    <3>5. Of(k, p) /\ ~p.error
      BY <3>1, OutcomeFacts
    <3>6. Good([p.link EXCEPT !.mode = "inactive"])
      BY <3>4, <3>5 DEF n, Of
    <3>7. p.link \in Link /\ p.link.active = l.active /\ p.link.mode = l.mode
          /\ p.error \in BOOLEAN /\ p.cost \in Nat /\ ~p.error
      BY <3>2, <3>5 DEF Of
    <3> HIDE DEF out
    <3> QED  BY <3>6, <3>7, Zenon DEF Ended
  <2>3. CASE l.mode = "inactive"
    <3>1. end = Done(l)
      BY <2>3
    <3>2. [l EXCEPT !.mode = "inactive"] = l
      BY <1>1, <2>3 DEF Link
    <3> HIDE DEF end
    <3> SUFFICES ASSUME NEW p \in end PROVE Ended(l, p)
      OBVIOUS
    <3>3. Of(l, p) /\ ~p.error
      BY <3>1, OutcomeFacts
    <3>4. Good([p.link EXCEPT !.mode = "inactive"])
      BY <3>2, <3>3 DEF Of
    <3>5. p.link \in Link /\ p.link.active = l.active /\ p.link.mode = l.mode
          /\ p.error \in BOOLEAN /\ p.cost \in Nat /\ ~p.error
      BY <1>1, <3>3 DEF Of
    <3> QED  BY <3>4, <3>5, Zenon DEF Ended
  <2> QED  BY <1>1, <2>1, <2>2, <2>3 DEF Modes
<1> HIDE DEF end
<1>4. CASE o \in end /\ o.error
  BY <1>3, <1>4 DEF Ended, UserEnded, Sound
<1>5. CASE \E p \in end : ~p.error /\ o \in Done(out(p.link))
  <2>1. PICK p \in end : ~p.error /\ o \in Done(out(p.link))
    BY <1>5
  <2> DEFINE n == out(p.link)
  <2>2. Good(n) /\ p.link \in Link /\ p.link.active = l.active
    BY <1>3, <2>1 DEF Ended
  <2>3. n.active = l.active /\ n.mode = "inactive"
    BY <2>2 DEF Link
  <2>4. Of(n, o) /\ ~o.error
    BY <2>1, OutcomeFacts
  <2> HIDE DEF n
  <2> QED  BY <2>2, <2>3, <2>4 DEF UserEnded, Sound, Of
<1> QED  BY <1>2, <1>4, <1>5

\* link_disable: without an error the link is not active and has no user.
Disabled(o) == Sound(o) /\ (~o.error => ~o.link.active /\ o.link.mode = "inactive")

\* link_disable has one of those outcomes, also when a wait in it fails.
LEMMA DisableFacts ==
    ASSUME NEW l, Good(l), NEW now \in BOOLEAN, NEW o \in Disable(l, now)
    PROVE  Disabled(o)
<1>1. l \in Link
  BY DEF Good
<1>2. CASE ~l.active
  <2>1. o = Outcome(l, FALSE)
    BY <1>2 DEF Disable, Done
  <2>2. l.mode = "inactive"
    BY <1>2 DEF Good, Fits
  <2> QED  BY <1>2, <2>1, <2>2 DEF Outcome, Disabled, Sound
<1>3. CASE l.active
  <2> DEFINE E == UserEnd(l, now)
             wait(k) == Done(k) \cup (IF now THEN {} ELSE Interrupted(k))
             W == {p \in E : p.error} \cup UNION {wait(p.link) : p \in {q \in E : ~q.error}}
             gone(k) == [Unload(k) EXCEPT !.baud = 0]
  <2>1. o \in {p \in W : p.error} \cup UNION {Done(gone(p.link)) : p \in {q \in W : ~q.error}}
    BY <1>3 DEF Disable, Then
  <2>2. \A p \in E : UserEnded(l, p)
    BY UserEndFacts
  <2> HIDE DEF E
  <2>3. \A p \in W : UserEnded(l, p)
    <3> SUFFICES ASSUME NEW p \in W PROVE UserEnded(l, p)
      OBVIOUS
    <3>1. CASE p \in E
      BY <2>2, <3>1
    <3>2. CASE \E q \in E : ~q.error /\ p \in wait(q.link)
      <4>1. PICK q \in E : ~q.error /\ p \in wait(q.link)
        BY <3>2
      <4>2. p.link = q.link /\ p.error \in BOOLEAN /\ p.cost \in Nat
        BY <4>1, OutcomeFacts DEF Of
      <4>3. UserEnded(l, q)
        BY <2>2
      <4> QED  BY <4>1, <4>2, <4>3 DEF UserEnded, Sound
    <3> QED  BY <3>1, <3>2
  <2> HIDE DEF W
  <2>4. CASE o \in W /\ o.error
    BY <2>3, <2>4 DEF UserEnded, Disabled
  <2>5. CASE \E p \in W : ~p.error /\ o \in Done(gone(p.link))
    <3>1. PICK p \in W : ~p.error /\ o \in Done(gone(p.link))
      BY <2>5
    <3> DEFINE k == Unload(p.link)
               n == [k EXCEPT !.baud = 0]
    <3>2. Good(p.link) /\ p.link.mode = "inactive"
      BY <2>3, <3>1 DEF UserEnded, Sound
    <3>3. Good(k) /\ ~k.active /\ k.mode = "inactive"
      BY <3>2, UnloadFacts
    <3>4. Of(n, o) /\ ~o.error
      BY <3>1, OutcomeFacts
    <3> HIDE DEF k
    <3>5. k \in Link
      BY <3>3 DEF Good
    <3>6. /\ n \in Link /\ n.active = k.active /\ n.driver = k.driver /\ n.lines = k.lines
          /\ n.mode = k.mode /\ n.printing = k.printing /\ n.stream = k.stream
          /\ n.framed = k.framed /\ n.manager = k.manager /\ n.enable = k.enable
          /\ n.halved = k.halved
      BY <3>5 DEF Link
    <3> HIDE DEF n
    <3>7. Good(n)
      BY <3>3, <3>6 DEF Good, Fits
    <3> QED  BY <3>3, <3>4, <3>6, <3>7 DEF Disabled, Sound, Of
  <2> QED  BY <2>1, <2>4, <2>5
<1> QED  BY <1>2, <1>3

\* link_enable_link: without an error the link is in use, and the connection
\* manager is enabled unless an earlier end failed half way.
LEMMA EnableLinkFacts ==
    ASSUME LinkParameters, Speedy, config \in Settings, NEW l, Good(l),
           NEW o \in Enable(l, TRUE, StartLink)
    PROVE  Sound(o) /\ (~o.error => o.link.mode = "link" /\ (o.link.enable \/ o.link.halved))
<1>1. CASE l.active
  <2>1. o \in StartLink(l)
    BY <1>1 DEF Enable
  <2> QED  BY <1>1, <2>1, StartLinkFacts DEF Started
<1>2. CASE ~l.active
  <2> DEFINE L == Load(l, TRUE)
             started(k) == {IF p.error THEN [p EXCEPT !.link = Unload(@)] ELSE p : p \in StartLink(k)}
  <2>1. o \in {p \in L : p.error} \cup UNION {started(p.link) : p \in {q \in L : ~q.error}}
    BY <1>2 DEF Enable, Then
  <2>2. \A p \in L : Loaded(l, p)
    BY <1>2, LoadFacts
  <2> HIDE DEF L
  <2>3. CASE o \in L /\ o.error
    BY <2>2, <2>3 DEF Loaded, Sound
  <2>4. CASE \E p \in L : ~p.error /\ o \in started(p.link)
    <3>1. PICK p \in L : ~p.error /\ o \in started(p.link)
      BY <2>4
    <3>2. Good(p.link) /\ p.link.active /\ p.link.mode = "inactive"
      BY <2>2, <3>1 DEF Loaded
    <3>3. PICK q \in StartLink(p.link) : o = IF q.error THEN [q EXCEPT !.link = Unload(@)] ELSE q
      BY <3>1
    <3>4. /\ Started(p.link, q)
          /\ ~q.error => q.link.mode = "link" /\ (q.link.enable \/ q.link.halved)
      BY <3>2, <3>3, StartLinkFacts
    <3>5. ~q.error
      BY <3>2, <3>3, OutcomeFacts DEF StartLink
    <3> QED  BY <3>3, <3>4, <3>5 DEF Started
  <2> QED  BY <2>1, <2>3, <2>4
<1> QED  BY <1>1, <1>2

\* link_enable_print: without an error the mirror writes to the device.
LEMMA EnablePrintFacts ==
    ASSUME LinkParameters, Speedy, config \in Settings, NEW l, Good(l), NEW d \in Devices,
           NEW o \in Enable(l, FALSE, LAMBDA k : StartPrint(k, d))
    PROVE  Sound(o) /\ (~o.error => o.link.stream = d)
<1>1. CASE l.active
  <2>1. o \in StartPrint(l, d)
    BY <1>1 DEF Enable
  <2> QED  BY <1>1, <2>1, StartPrintFacts DEF Started
<1>2. CASE ~l.active
  <2> DEFINE L == Load(l, FALSE)
             started(k) == {IF p.error THEN [p EXCEPT !.link = Unload(@)] ELSE p : p \in StartPrint(k, d)}
  <2>1. o \in {p \in L : p.error} \cup UNION {started(p.link) : p \in {q \in L : ~q.error}}
    BY <1>2 DEF Enable, Then
  <2>2. \A p \in L : Loaded(l, p)
    BY <1>2, LoadFacts
  <2> HIDE DEF L
  <2>3. CASE o \in L /\ o.error
    BY <2>2, <2>3 DEF Loaded, Sound
  <2>4. CASE \E p \in L : ~p.error /\ o \in started(p.link)
    <3>1. PICK p \in L : ~p.error /\ o \in started(p.link)
      BY <2>4
    <3>2. Good(p.link) /\ p.link.active /\ p.link.mode = "inactive"
      BY <2>2, <3>1 DEF Loaded
    <3>3. PICK q \in StartPrint(p.link, d) : o = IF q.error THEN [q EXCEPT !.link = Unload(@)] ELSE q
      BY <3>1
    <3>4. Started(p.link, q) /\ (~q.error => q.link.stream = d)
      BY <3>2, <3>3, StartPrintFacts
    <3>5. CASE ~q.error
      BY <3>3, <3>4, <3>5 DEF Started
    <3>6. CASE q.error
      <4> DEFINE n == Unload(q.link)
      <4>1. Good(n)
        BY <3>2, <3>4, <3>6, UnloadFacts DEF Started, Sound
      <4>2. o.link = n /\ o.error = q.error /\ o.cost = q.cost
        BY <3>2, <3>3, <3>6 DEF StartPrint, Failed, Done, Outcome
      <4> HIDE DEF n
      <4> QED  BY <3>4, <3>6, <4>1, <4>2 DEF Started, Sound
    <3> QED  BY <3>5, <3>6
  <2> QED  BY <2>1, <2>3, <2>4
<1> QED  BY <1>1, <1>2

\* A poll of the user, and link_poll after it.
LEMMA PollFacts ==
    ASSUME NEW l, Good(l), NEW k \in IF l.active THEN Polled(l) ELSE {l}, NEW o \in Background(k)
    PROVE  Sound(o)
<1>1. l \in Link
  BY DEF Good
<1>2. Good(k)
  <2>1. CASE k = l
    BY <2>1
  <2>2. CASE l.active /\ k = [l EXCEPT !.idle = FALSE]
    <3>1. /\ k \in Link /\ k.active = l.active /\ k.driver = l.driver /\ k.lines = l.lines
          /\ k.mode = l.mode /\ k.printing = l.printing /\ k.stream = l.stream
          /\ k.framed = l.framed /\ k.manager = l.manager /\ k.enable = l.enable
          /\ k.halved = l.halved /\ k.index = l.index /\ k.baud = l.baud /\ k.speeds = l.speeds
      BY <1>1, <2>2 DEF Link
    <3> QED  BY <3>1 DEF Good, Fits
  <2>3. CASE l.active /\ k = NextBaud(l)
    <3>1. l.lines /\ l.index \in 1 .. Len(l.speeds) /\ l.baud = l.speeds[l.index] /\ l.speeds \in Seq(Speed)
      BY <2>3 DEF Good, Fits, Link
    <3>2. l.index \in 0 .. Len(l.speeds) /\ l.speeds # <<>>
      BY <3>1
    <3>3. /\ k \in Link /\ Tuned(l, k) /\ k.lines
          /\ k.index \in 1 .. Len(l.speeds) /\ k.baud = l.speeds[k.index]
      BY <1>1, <2>3, <3>1, <3>2, NextBaudFacts
    <3> QED  BY <2>3, <3>1, <3>3 DEF Good, Fits, Tuned
  <2> QED  BY <2>1, <2>2, <2>3 DEF Polled
<1>3. CASE k.active /\ CheckDisconnect(k)
  <2>1. o \in Disable(k, FALSE)
    BY <1>3 DEF Background
  <2> QED  BY <1>2, <2>1, DisableFacts DEF Disabled
<1>4. CASE ~(k.active /\ CheckDisconnect(k))
  <2>1. o \in Done(k)
    BY <1>4 DEF Background
  <2> QED  BY <1>2, <2>1, OutcomeFacts DEF Of, Sound
<1> QED  BY <1>3, <1>4

-----------------------------------------------------------------------------
(* Commands and the invariant *)

\* A command whose outcomes are sound, and do what it is for, keeps the invariant.
Does(o, name, device) ==
    ~o.error =>
        /\ name = "link" => o.link.mode = "link" /\ (o.link.enable \/ o.link.halved)
        /\ name = "print" => o.link.stream = device
        /\ name = "disable" => ~o.link.active /\ o.link.mode = "inactive"

\* A command whose outcomes are sound keeps the invariant, and does what it reports.
LEMMA CommandKeeps ==
    ASSUME Inv, NEW outcomes, NEW name \in {"none", "link", "print", "disable"},
           NEW device \in Devices \cup {NoDevice}, Command(outcomes, name, device),
           \A o \in outcomes : Sound(o) /\ Does(o, name, device)
    PROVE  Inv'
<1>1. PICK o \in outcomes :
        /\ link' = o.link /\ faults' = faults + o.cost
        /\ result' = [command |-> name, error |-> o.error, device |-> device]
        /\ config' = config
  BY DEF Command
<1>2. Sound(o) /\ Does(o, name, device)
  OBVIOUS
<1>3. result' \in Results /\ result'.command = name /\ result'.error = o.error /\ result'.device = device
  BY <1>1, <1>2 DEF Results, Sound
<1>4. CommandOK'
  BY <1>1, <1>2, <1>3 DEF CommandOK, Does
<1>5. faults' \in Nat /\ config' \in Settings /\ Good(link)'
  BY <1>1, <1>2 DEF Inv, Sound, Good
<1> QED  BY <1>3, <1>4, <1>5 DEF Inv

\* A link that only counts or idles.
LEMMA CountFacts ==
    ASSUME NEW l, Good(l), NEW operations \in Nat, NEW idle \in BOOLEAN, NEW k,
           k = [l EXCEPT !.operations = operations, !.idle = idle], NEW o \in Done(k)
    PROVE  Sound(o) /\ \A device : Does(o, "none", device)
<1>1. l \in Link
  BY DEF Good
<1>2. /\ k \in Link /\ k.active = l.active /\ k.driver = l.driver /\ k.lines = l.lines
      /\ k.mode = l.mode /\ k.printing = l.printing /\ k.stream = l.stream
      /\ k.framed = l.framed /\ k.manager = l.manager /\ k.enable = l.enable
      /\ k.halved = l.halved /\ k.index = l.index /\ k.baud = l.baud /\ k.speeds = l.speeds
  BY <1>1 DEF Link
<1>3. Good(k)
  BY <1>2 DEF Good, Fits
<1> QED  BY <1>3, OutcomeFacts DEF Of, Sound, Does

\* The invariant holds at first.
LEMMA LinkBase == ASSUME LinkParameters, LinkInit PROVE Inv
<1>1. Inactive \in Link
  BY DEF Inactive, Link, Modes, Speed
<1>2. Fits(Inactive)
  BY DEF Inactive, Fits
<1>3. NoResult \in Results /\ NoResult.command = "none"
  BY DEF NoResult, Results
<1>4. CommandOK
  BY <1>3 DEF CommandOK, LinkInit
<1> QED  BY <1>1, <1>2, <1>3, <1>4 DEF LinkInit, Inv, Good

\* Every step keeps it.
LEMMA LinkStep == ASSUME LinkParameters, Speedy, Inv, [LinkNext]_lvars PROVE Inv'
<1>1. Good(link) /\ link \in Link /\ config \in Settings
  BY DEF Inv, Good
<1>2. CASE EnableLink
  <2>1. \A o \in Enable(link, TRUE, StartLink) : Sound(o) /\ Does(o, "link", NoDevice)
    BY <1>1, EnableLinkFacts DEF Does
  <2>2. Command(Enable(link, TRUE, StartLink), "link", NoDevice)
    BY <1>2 DEF EnableLink
  <2> QED  BY <2>1, <2>2, CommandKeeps
<1>3. ASSUME NEW d \in Devices, EnablePrint(d) PROVE Inv'
  <2> DEFINE outcomes == Enable(link, FALSE, LAMBDA l : StartPrint(l, d))
  <2>1. \A o \in outcomes : Sound(o) /\ Does(o, "print", d)
    BY <1>1, EnablePrintFacts DEF Does
  <2>2. Command(outcomes, "print", d)
    BY <1>3 DEF EnablePrint
  <2> HIDE DEF outcomes
  <2> QED  BY <2>1, <2>2, CommandKeeps
<1>4. ASSUME NEW now \in BOOLEAN, DisableLink(now) PROVE Inv'
  <2>1. \A o \in Disable(link, now) : Sound(o) /\ Does(o, "disable", NoDevice)
    BY <1>1, DisableFacts DEF Does, Disabled
  <2>2. Command(Disable(link, now), "disable", NoDevice)
    BY <1>4 DEF DisableLink
  <2> QED  BY <2>1, <2>2, CommandKeeps
<1>5. ASSUME NEW c \in Settings, Configure(c) PROVE Inv'
  <2>1. NoResult \in Results /\ NoResult.command = "none"
    BY DEF NoResult, Results
  <2>2. result' = NoResult /\ link' = link /\ config' = c /\ faults' = faults
    BY <1>5 DEF Configure
  <2>3. CommandOK'
    BY <2>1, <2>2 DEF CommandOK
  <2> QED  BY <2>1, <2>2, <2>3 DEF Inv, Good
<1>6. CASE Begin
  <2> DEFINE k == [link EXCEPT !.operations = @ + 1]
  <2>1. k = [link EXCEPT !.operations = link.operations + 1, !.idle = link.idle]
    BY <1>1 DEF Link
  <2>2. link.operations + 1 \in Nat /\ link.idle \in BOOLEAN
    BY <1>1 DEF Link
  <2>3. Command(Done(k), "none", NoDevice)
    BY <1>6 DEF Begin
  <2> HIDE DEF k
  <2>4. \A o \in Done(k) : Sound(o) /\ Does(o, "none", NoDevice)
    BY <1>1, <2>1, <2>2, CountFacts
  <2> QED  BY <2>3, <2>4, CommandKeeps
<1>7. CASE Finish
  <2> DEFINE k == [link EXCEPT !.operations = @ - 1, !.idle = @ /\ link.operations > 1]
  <2>1. link.operations - 1 \in Nat /\ (link.idle /\ link.operations > 1) \in BOOLEAN
    BY <1>1, <1>7 DEF Link, Finish
  <2>2. Command(Done(k), "none", NoDevice)
    BY <1>7 DEF Finish
  <2>3. \A o \in Done(k) : Sound(o) /\ Does(o, "none", NoDevice)
    BY <1>1, <2>1, CountFacts
  <2> HIDE DEF k
  <2> QED  BY <2>2, <2>3, CommandKeeps
<1>8. CASE Wait
  <2> DEFINE k == [link EXCEPT !.idle = TRUE]
  <2>1. k = [link EXCEPT !.operations = link.operations, !.idle = TRUE] /\ link.operations \in Nat
    BY <1>1 DEF Link
  <2>2. Command(Done(k), "none", NoDevice)
    BY <1>8 DEF Wait
  <2> HIDE DEF k
  <2>3. \A o \in Done(k) : Sound(o) /\ Does(o, "none", NoDevice)
    BY <1>1, <2>1, CountFacts
  <2> QED  BY <2>2, <2>3, CommandKeeps
<1>9. CASE Poll
  <2> DEFINE outcomes == UNION {Background(l) : l \in IF link.active THEN Polled(link) ELSE {link}}
  <2>1. \A o \in outcomes : Sound(o) /\ Does(o, "none", NoDevice)
    BY <1>1, PollFacts DEF Does
  <2>2. Command(outcomes, "none", NoDevice)
    BY <1>9 DEF Poll
  <2> HIDE DEF outcomes
  <2> QED  BY <2>1, <2>2, CommandKeeps
<1>10. CASE UNCHANGED lvars
  BY <1>10 DEF lvars, Inv, Good, CommandOK
<1> QED  BY <1>2, <1>3, <1>4, <1>5, <1>6, <1>7, <1>8, <1>9, <1>10 DEF LinkNext

-----------------------------------------------------------------------------
(* Theorems *)

\* The inductive invariant of the control of the link, for drivers that state a
\* speed: every interruption leaves a state from which the next command works
\* (link.c, user.c, frame.c, connect.c, print.c).
THEOREM Invariant == ASSUME LinkParameters, Speedy PROVE LinkSpec => []Inv
<1>1. LinkInit => Inv
  BY LinkBase
<1>2. Inv /\ [LinkNext]_lvars => Inv'
  BY LinkStep
<1> QED  BY <1>1, <1>2, PTL DEF LinkSpec

\* The driver and its users fit together, and a command that reports success did
\* what it is for.
THEOREM LinkControlled == ASSUME LinkParameters, Speedy PROVE LinkSpec => []LinkOK
<1>1. Inv => LinkOK
  BY DEF Inv, Good, LinkOK, ControlOK
<1> QED  BY <1>1, Invariant, PTL

-----------------------------------------------------------------------------
(* The multiplexor (MuxData) *)

Parts == [k : Nat, n : Nat]
Outs == [n : Nat, sent : Nat]
OutOK(o) == o = Empty \/ (o.n # 0 /\ o.sent < o.n)

Signals == [type : {"xoff", "xon", "connected", "disconnect"}, src : Servers, dest : Chans]
Carriers == [type : {"data"}, src : Servers, dest : Chans, complete : BOOLEAN, part : Parts]

\* A frame of data knows its place in its message.
FrameOK(f) ==
    f.type = "data" => f.part.k \in 1 .. f.part.n /\ (f.complete <=> f.part.k = f.part.n)

Chan == [server : Servers \cup {Nobody}, rx : Seq(Parts), tx : Outs, waits : BOOLEAN]
Peer == [client : Chans \cup {Nobody}, stopped : BOOLEAN, out : Outs, parts : Seq(Parts), asked : Nat]

Types ==
    /\ chan \in [Chans -> Chan] /\ \A c \in Chans : OutOK(chan[c].tx)
    /\ last \in 0 .. Len(Channels)
    /\ blocked \subseteq Servers
    /\ frames \in Seq(Signals \cup Carriers) /\ \A i \in DOMAIN frames : FrameOK(frames[i])
    /\ peer \in [Servers -> Peer] /\ \A r \in Servers : OutOK(peer[r].out)

-----------------------------------------------------------------------------
(* Messages and their frames *)

\* The first k frames of a message of n
First(k, n) == [j \in 1 .. k |-> Part(j, n)]

\* It is a sequence of frames, it begins a message, and it is whole when it has n.
LEMMA FirstFacts ==
    ASSUME NEW k \in Nat, NEW n \in Nat
    PROVE  /\ First(k, n) \in Seq(Parts) /\ Len(First(k, n)) = k
           /\ First(0, n) = <<>>
           /\ Begins(First(k, n))
           /\ Append(First(k, n), Part(k + 1, n)) = First(k + 1, n)
           /\ k # 0 => (Whole(First(k, n)) <=> k = n)
<1>1. \A j \in 1 .. k : Part(j, n) \in Parts
  BY DEF Part, Parts
<1>2. First(k, n) \in Seq(Parts) /\ Len(First(k, n)) = k
  BY <1>1 DEF First
<1>3. First(0, n) = <<>>
  BY DEF First
<1>4. \A j \in 1 .. k : First(k, n)[j] = Part(j, n)
  BY DEF First
<1>5. Begins(First(k, n))
  <2> SUFFICES ASSUME NEW j \in 1 .. k PROVE First(k, n)[j] = Part(j, First(k, n)[1].n)
    BY <1>2 DEF Begins
  <2>1. First(k, n)[1].n = n
    <3>1. 1 \in 1 .. k
      OBVIOUS
    <3>2. First(k, n)[1] = Part(1, n)
      BY <1>4, <3>1
    <3> QED  BY <3>2 DEF Part
  <2> QED  BY <1>4, <2>1
<1>6. Append(First(k, n), Part(k + 1, n)) = First(k + 1, n)
  <2> DEFINE s == Append(First(k, n), Part(k + 1, n))
             t == First(k + 1, n)
  <2>1. s \in Seq(Parts) /\ Len(s) = k + 1
    BY <1>2 DEF Part, Parts
  <2>2. t \in Seq(Parts) /\ Len(t) = k + 1
    <3>1. \A j \in 1 .. k + 1 : Part(j, n) \in Parts
      BY DEF Part, Parts
    <3> QED  BY <3>1 DEF First
  <2>3. \A j \in 1 .. k + 1 : t[j] = Part(j, n)
    BY DEF First
  <2>4. \A j \in 1 .. k + 1 : s[j] = Part(j, n)
    <3>1. s[k + 1] = Part(k + 1, n)
      BY <1>2
    <3>2. \A j \in 1 .. k : s[j] = First(k, n)[j]
      BY <1>2
    <3>3. \A j \in 1 .. k + 1 : j \in 1 .. k \/ j = k + 1
      OBVIOUS
    <3> HIDE DEF s
    <3> QED  BY <1>4, <3>1, <3>2, <3>3
  <2> HIDE DEF s, t
  <2>5. \A j \in 1 .. Len(s) : s[j] = t[j]
    BY <2>1, <2>3, <2>4
  <2>6. s = t
    BY <2>1, <2>2, <2>5, SeqEqual
  <2> QED  BY <2>6 DEF s, t
<1>7. ASSUME k # 0 PROVE Whole(First(k, n)) <=> k = n
  <2>1. First(k, n)[1].n = n /\ First(k, n) # <<>>
    BY <1>2, <1>4, <1>7 DEF Part
  <2> QED  BY <1>2, <1>5, <2>1 DEF Whole
<1> QED  BY <1>2, <1>3, <1>5, <1>6, <1>7

\* What one more frame makes of the first ones
LEMMA ReceivedFacts ==
    ASSUME NEW k \in Nat, NEW n \in Nat
    PROVE  Received(First(k, n), Part(k + 1, n)) = IF k + 1 = n THEN <<>> ELSE First(k + 1, n)
<1>1. Append(First(k, n), Part(k + 1, n)) = First(k + 1, n)
  BY FirstFacts
<1>2. k + 1 \in Nat /\ k + 1 # 0
  OBVIOUS
<1>3. Whole(First(k + 1, n)) <=> k + 1 = n
  BY <1>2, FirstFacts
<1> QED  BY <1>1, <1>3 DEF Received

\* What is to be sent, one frame later
LEMMA OutFacts ==
    /\ Empty \in Outs /\ OutOK(Empty) /\ Empty.n = 0 /\ Empty.sent = 0
    /\ \A n \in Nat \ {0} : Start(n) \in Outs /\ OutOK(Start(n)) /\ Start(n).n = n /\ Start(n).sent = 0
    /\ \A o \in Outs : OutOK(o) /\ o.n # 0 =>
         /\ Advance(o) \in Outs /\ OutOK(Advance(o))
         /\ o.sent + 1 = o.n => Advance(o) = Empty
         /\ o.sent + 1 # o.n => Advance(o).n = o.n /\ Advance(o).sent = o.sent + 1
         /\ NextPart(o) = Part(o.sent + 1, o.n) /\ o.sent + 1 \in 1 .. o.n
    /\ \A o \in Outs : OutOK(o) /\ o.n = 0 => o = Empty
<1>1. Empty \in Outs /\ OutOK(Empty) /\ Empty.n = 0 /\ Empty.sent = 0
  BY DEF Empty, Outs, OutOK
<1>2. \A n \in Nat \ {0} : Start(n) \in Outs /\ OutOK(Start(n)) /\ Start(n).n = n /\ Start(n).sent = 0
  BY DEF Start, Outs, OutOK
<1>3. ASSUME NEW o \in Outs, OutOK(o), o.n # 0
      PROVE  /\ Advance(o) \in Outs /\ OutOK(Advance(o))
             /\ o.sent + 1 = o.n => Advance(o) = Empty
             /\ o.sent + 1 # o.n => Advance(o).n = o.n /\ Advance(o).sent = o.sent + 1
             /\ NextPart(o) = Part(o.sent + 1, o.n) /\ o.sent + 1 \in 1 .. o.n
  <2>1. o.sent < o.n /\ o.n \in Nat /\ o.sent \in Nat
    BY <1>1, <1>3 DEF OutOK, Outs
  <2>2. CASE o.sent + 1 = o.n
    BY <1>1, <2>1, <2>2 DEF Advance, NextPart
  <2>3. CASE o.sent + 1 # o.n
    <3> DEFINE a == [o EXCEPT !.sent = @ + 1]
    <3>1. a \in Outs /\ a.n = o.n /\ a.sent = o.sent + 1
      BY <1>3, <2>1 DEF Outs
    <3>2. Advance(o) = a
      BY <2>3 DEF Advance
    <3> HIDE DEF a
    <3>3. a.sent < a.n
      BY <2>1, <2>3, <3>1
    <3> QED  BY <1>3, <2>1, <2>3, <3>1, <3>2, <3>3 DEF OutOK, NextPart
  <2> QED  BY <2>2, <2>3
<1>4. \A o \in Outs : OutOK(o) /\ o.n = 0 => o = Empty
  BY DEF OutOK
<1> QED  BY <1>1, <1>2, <1>3, <1>4

-----------------------------------------------------------------------------
(* The invariant, of a channel h = chan[c], the queue q and the servers p *)

\* The places in the queue of the frames of type t for c
At(q, c, t) == {i \in DOMAIN q : q[i].dest = c /\ q[i].type = t}
Data(q, c) == At(q, c, "data")

\* A channel that is not connected, or waits for nothing, has nothing half received
\* or half sent; frames of data are for a channel that waits for them.
Owned(h, q, c) ==
    /\ \A i \in Data(q, c) : h.server = q[i].src /\ h.waits /\ h.tx.n = 0
    /\ h.server = Nobody => h.rx = <<>> /\ h.tx.n = 0
    /\ ~h.waits => h.rx = <<>> /\ h.tx.n = 0
    /\ h.tx.n > 0 => h.rx = <<>>
    /\ Len(h.rx) <= RxSize + 1

\* Frames up to k are on their way.
Upto(h, q, c, k) == \A j \in Len(h.rx) + 1 .. k : \E i \in Data(q, c) : q[i].part.k = j

\* The frames on their way are of one message, in order, and continue what was
\* received (which says nothing once the buffer has overflowed).
Ordered(h, q, c) ==
    /\ \A i, j \in Data(q, c) : q[i].part.n = q[j].part.n /\ (i < j => q[i].part.k < q[j].part.k)
    /\ Len(h.rx) <= RxSize => \A i \in Data(q, c) :
         /\ Len(h.rx) < q[i].part.k /\ h.rx = First(Len(h.rx), q[i].part.n)
         /\ Upto(h, q, c, q[i].part.k)

\* A connection that was made or ended is known to the channel, or the frame that
\* says so is on its way, after the data of the connection.
Linked(h, q, p, c) ==
    /\ \A i \in At(q, c, "connected") : h.server = Nobody
    /\ \A i, j \in At(q, c, "connected") : i = j
    /\ \A i \in At(q, c, "disconnect") :
         \/ h.server = q[i].src
         \/ \E j \in At(q, c, "connected") : j < i /\ q[j].src = q[i].src
    /\ \A i, j \in At(q, c, "disconnect") : i = j
    /\ \A i \in At(q, c, "disconnect"), j \in Data(q, c) : j < i
    /\ \A r \in Servers : p[r].client = c =>
         /\ At(q, c, "disconnect") = {}
         /\ \/ h.server = r
            \/ h.server = Nobody /\ \E i \in At(q, c, "connected") : q[i].src = r

\* A server s of c has received what c has sent of its message.  It has been asked,
\* and its client waits, or it is answering: what is on its way is what it sent.
Serves(h, q, s, r, c) ==
    /\ s.parts = First(h.tx.sent, h.tx.n)
    /\ s.asked > 0 => s.out.n = 0 /\ h.rx = <<>> /\ Data(q, c) = {}
    /\ s.asked > 0 \/ s.out.n > 0 => h.server = r /\ h.waits /\ h.tx.n = 0
    /\ s.out.n > 0 =>
         /\ \A i \in Data(q, c) : q[i].part.n = s.out.n /\ q[i].part.k <= s.out.sent
         /\ Len(h.rx) <= RxSize =>
              Len(h.rx) <= s.out.sent /\ h.rx = First(Len(h.rx), s.out.n) /\ Upto(h, q, c, s.out.sent)
Peered(h, q, p, c) == \A r \in Servers : p[r].client = c => Serves(h, q, p[r], r, c)

Matching(h, q, p, c) == Owned(h, q, c) /\ Ordered(h, q, c) /\ Linked(h, q, p, c) /\ Peered(h, q, p, c)

WholeInv ==
    /\ Types
    /\ \A c \in Chans : Matching(chan[c], frames, peer, c) /\ given[c] = <<>>
    /\ \A r \in Servers : Begins(peer[r].parts)

-----------------------------------------------------------------------------
(* The queue *)

Frames == Signals \cup Carriers

\* u is the queue q without its head, as far as the frames of type t for c go.
Shift(q, u, c, t) ==
    /\ \A i \in At(u, c, t) : i \in Nat \ {0} /\ i + 1 \in At(q, c, t) /\ u[i] = q[i + 1]
    /\ \A i \in At(q, c, t) : i \in Nat /\ (i = 1 \/ (i - 1 \in At(u, c, t) /\ u[i - 1] = q[i]))

\* The frames of a queue without its head, and with one more
LEMMA TailFacts ==
    ASSUME NEW q \in Seq(Frames), q # <<>>
    PROVE  /\ \A c, t : Shift(q, Tail(q), c, t)
           /\ q[1] = Head(q) /\ 1 \in DOMAIN q /\ Tail(q) \in Seq(Frames)
<1> DEFINE u == Tail(q)
<1>1. Len(q) \in Nat \ {0} /\ DOMAIN q = 1 .. Len(q) /\ q[1] = Head(q) /\ u \in Seq(Frames)
  OBVIOUS
<1>2. DOMAIN u = 1 .. Len(q) - 1 /\ \A i \in 1 .. Len(q) - 1 : u[i] = q[i + 1]
  OBVIOUS
<1> HIDE DEF u
<1>3. ASSUME NEW c, NEW t, NEW i \in At(u, c, t)
      PROVE  i \in Nat \ {0} /\ i + 1 \in At(q, c, t) /\ u[i] = q[i + 1]
  BY <1>1, <1>2, <1>3 DEF At
<1>4. ASSUME NEW c, NEW t, NEW i \in At(q, c, t)
      PROVE  i \in Nat /\ (i = 1 \/ (i - 1 \in At(u, c, t) /\ u[i - 1] = q[i]))
  <2>1. i \in 1 .. Len(q)
    BY <1>1, <1>4 DEF At
  <2>2. CASE i # 1
    <3>1. i - 1 \in 1 .. Len(q) - 1 /\ (i - 1) + 1 = i
      BY <1>1, <2>1, <2>2
    <3>2. u[i - 1] = q[i]
      BY <1>2, <3>1
    <3> QED  BY <1>2, <1>4, <2>1, <3>1, <3>2 DEF At
  <2> QED  BY <2>1, <2>2
<1>5. \A c, t : Shift(q, u, c, t)
  BY <1>3, <1>4 DEF Shift
<1>6. q[1] = Head(q) /\ 1 \in DOMAIN q /\ u \in Seq(Frames)
  BY <1>1
<1> QED  BY <1>5, <1>6, Zenon DEF u

\* u is the queue q with the frame f at place e, for the frames of type t for c.
Longer(q, u, f, e, c, t) ==
    /\ \A i \in At(q, c, t) : i \in Nat /\ i < e /\ u[i] = q[i]
    /\ f.dest = c /\ f.type = t => At(u, c, t) = At(q, c, t) \cup {e}
    /\ f.dest # c \/ f.type # t => At(u, c, t) = At(q, c, t)

\* A queue with one more frame is longer by it.
LEMMA AppendFacts ==
    ASSUME NEW q \in Seq(Frames), NEW f \in Frames
    PROVE  \E e \in Nat \ {0} :
              /\ Append(q, f)[e] = f /\ Append(q, f) \in Seq(Frames)
              /\ \A c, t : Longer(q, Append(q, f), f, e, c, t)
<1> DEFINE e == Len(q) + 1
           u == Append(q, f)
<1>1. Len(q) \in Nat /\ DOMAIN q = 1 .. Len(q) /\ DOMAIN u = 1 .. e /\ u \in Seq(Frames)
  OBVIOUS
<1>2. u[e] = f /\ \A i \in 1 .. Len(q) : u[i] = q[i]
  OBVIOUS
<1>3. 1 .. e = (1 .. Len(q)) \cup {e} /\ e \notin 1 .. Len(q) /\ e \in Nat
  BY <1>1
<1>4. ASSUME NEW c, NEW t, NEW i \in At(q, c, t) PROVE i \in Nat /\ i < e /\ u[i] = q[i]
  BY <1>1, <1>2, <1>4 DEF At
<1> HIDE DEF e, u
<1>5. ASSUME NEW c, NEW t, f.dest = c, f.type = t PROVE At(u, c, t) = At(q, c, t) \cup {e}
  BY <1>1, <1>2, <1>3, <1>5 DEF At
<1>6. ASSUME NEW c, NEW t, f.dest # c \/ f.type # t PROVE At(u, c, t) = At(q, c, t)
  BY <1>1, <1>2, <1>3, <1>6 DEF At
<1>7. \A c, t : Longer(q, u, f, e, c, t)
  BY <1>4, <1>5, <1>6 DEF Longer
<1>8. e \in Nat \ {0} /\ u[e] = f /\ u \in Seq(Frames)
  BY <1>1, <1>2 DEF e
<1> QED  BY <1>7, <1>8, Zenon DEF u

\* Neither does such a frame say anything of its connection.
LEMMA LinkedTail ==
    ASSUME NEW q \in Seq(Frames), q # <<>>, NEW c, NEW h, NEW k, k.server = h.server, NEW p,
           Linked(h, q, p, c), 1 \notin At(q, c, "connected") \cup At(q, c, "disconnect")
    PROVE  Linked(k, Tail(q), p, c)
<1> DEFINE u == Tail(q)
           C(s) == At(s, c, "connected")
           X(s) == At(s, c, "disconnect")
           D(s) == Data(s, c)
<1>1. \A i \in D(u) : i \in Nat /\ i + 1 \in D(q) /\ u[i] = q[i + 1]
  <2>1. Shift(q, u, c, "data")
    BY TailFacts
  <2> HIDE DEF u
  <2> QED  BY <2>1 DEF Shift, Data
<1>2. /\ \A i \in C(u) : i \in Nat /\ i + 1 \in C(q) /\ u[i] = q[i + 1]
      /\ \A i \in C(q) : i \in Nat /\ i - 1 \in C(u) /\ u[i - 1] = q[i]
  <2>1. Shift(q, u, c, "connected")
    BY TailFacts
  <2> HIDE DEF u
  <2> QED  BY <2>1 DEF Shift
<1>3. /\ \A i \in X(u) : i \in Nat /\ i + 1 \in X(q) /\ u[i] = q[i + 1]
      /\ \A i \in X(q) : i \in Nat /\ i - 1 \in X(u) /\ u[i - 1] = q[i]
  <2>1. Shift(q, u, c, "disconnect")
    BY TailFacts
  <2> HIDE DEF u
  <2> QED  BY <2>1 DEF Shift
<1> HIDE DEF u
<1>4. /\ \A i \in C(u) : k.server = Nobody
      /\ \A i, j \in C(u) : i = j
  BY <1>2 DEF Linked
<1>5. ASSUME NEW i \in X(u)
      PROVE  k.server = u[i].src \/ \E j \in C(u) : j < i /\ u[j].src = u[i].src
  <2>1. i + 1 \in X(q) /\ u[i] = q[i + 1] /\ i \in Nat
    BY <1>3
  <2>2. CASE h.server = q[i + 1].src
    BY <2>1, <2>2
  <2>3. CASE \E j \in C(q) : j < i + 1 /\ q[j].src = q[i + 1].src
    <3>1. PICK j \in C(q) : j < i + 1 /\ q[j].src = q[i + 1].src
      BY <2>3
    <3>2. j \in Nat /\ j - 1 \in C(u) /\ u[j - 1] = q[j]
      BY <1>2
    <3>3. j - 1 < i /\ u[j - 1].src = u[i].src
      BY <2>1, <3>1, <3>2
    <3> QED  BY <3>2, <3>3
  <2> QED  BY <2>1, <2>2, <2>3 DEF Linked
<1>6. /\ \A i, j \in X(u) : i = j
      /\ \A i \in X(u), j \in D(u) : j < i
  BY <1>1, <1>3 DEF Linked
<1>7. ASSUME NEW r \in Servers, p[r].client = c
      PROVE  /\ X(u) = {}
             /\ \/ k.server = r
                \/ k.server = Nobody /\ \E i \in C(u) : u[i].src = r
  BY <1>2, <1>3, <1>7 DEF Linked
<1> QED  BY <1>4, <1>5, <1>6, <1>7 DEF Linked, u

\* A frame that was received, and is no concern of c, leaves c as it was.
LEMMA TailKeeps ==
    ASSUME NEW q \in Seq(Frames), q # <<>>, NEW c, NEW h, NEW p, Matching(h, q, p, c),
           1 \notin Data(q, c) \cup At(q, c, "connected") \cup At(q, c, "disconnect")
    PROVE  Matching(h, Tail(q), p, c)
<1> DEFINE u == Tail(q)
           D(s) == Data(s, c)
<1>1. /\ \A i \in D(u) : i \in Nat /\ i + 1 \in D(q) /\ u[i] = q[i + 1]
      /\ \A i \in D(q) : i \in Nat /\ i - 1 \in D(u) /\ u[i - 1] = q[i]
  <2>1. Shift(q, u, c, "data")
    BY TailFacts
  <2> HIDE DEF u
  <2> QED  BY <2>1 DEF Shift, Data
<1> HIDE DEF u
<1>4. Owned(h, u, c)
  BY <1>1 DEF Matching, Owned
<1>5. ASSUME NEW k, Upto(h, q, c, k) PROVE Upto(h, u, c, k)
  <2> SUFFICES ASSUME NEW j \in Len(h.rx) + 1 .. k PROVE \E i \in D(u) : u[i].part.k = j
    BY DEF Upto
  <2>1. PICK i \in D(q) : q[i].part.k = j
    BY <1>5 DEF Upto
  <2> QED  BY <1>1, <2>1
<1>6. Ordered(h, u, c)
  <2>1. ASSUME NEW i \in D(u), NEW j \in D(u)
        PROVE  u[i].part.n = u[j].part.n /\ (i < j => u[i].part.k < u[j].part.k)
    <3>1. /\ i \in Nat /\ i + 1 \in D(q) /\ u[i] = q[i + 1]
          /\ j \in Nat /\ j + 1 \in D(q) /\ u[j] = q[j + 1]
      BY <1>1
    <3>2. i < j => i + 1 < j + 1
      BY <3>1
    <3>3. Ordered(h, q, c)
      BY DEF Matching
    <3> QED  BY <3>1, <3>2, <3>3 DEF Ordered
  <2> QED  BY <1>1, <1>5, <2>1 DEF Matching, Ordered
<1>7. Linked(h, u, p, c)
  BY LinkedTail DEF Matching, u
<1>8. \A s, r : Serves(h, q, s, r, c) => Serves(h, u, s, r, c)
  BY <1>1, <1>5 DEF Serves
<1>9. Peered(h, u, p, c)
  BY <1>8 DEF Matching, Peered
<1> QED  BY <1>4, <1>6, <1>7, <1>9 DEF Matching, u

\* A frame that is queued, and is no concern of c, leaves c as it was.
LEMMA AppendKeeps ==
    ASSUME NEW q \in Seq(Frames), NEW f \in Frames, NEW c, NEW h, NEW p, Matching(h, q, p, c),
           f.dest # c \/ f.type \in {"xoff", "xon"}
    PROVE  Matching(h, Append(q, f), p, c)
<1> DEFINE u == Append(q, f)
<1>1. PICK e \in Nat \ {0} : \A t : Longer(q, u, f, e, c, t)
  BY AppendFacts
<1> HIDE DEF u
<1>2. Data(u, c) = Data(q, c) /\ \A i \in Data(q, c) : u[i] = q[i]
  BY <1>1 DEF Data, Longer
<1>3. /\ At(u, c, "connected") = At(q, c, "connected") /\ \A i \in At(q, c, "connected") : u[i] = q[i]
      /\ At(u, c, "disconnect") = At(q, c, "disconnect") /\ \A i \in At(q, c, "disconnect") : u[i] = q[i]
  BY <1>1 DEF Longer
<1>4. Owned(h, u, c)
  BY <1>2 DEF Matching, Owned
<1>5. ASSUME NEW k, Upto(h, q, c, k) PROVE Upto(h, u, c, k)
  <2> SUFFICES ASSUME NEW j \in Len(h.rx) + 1 .. k PROVE \E i \in Data(u, c) : u[i].part.k = j
    BY DEF Upto
  <2>1. PICK i \in Data(q, c) : q[i].part.k = j
    BY <1>5 DEF Upto
  <2> QED  BY <1>2, <2>1
<1>6. Ordered(h, u, c)
  BY <1>2, <1>5 DEF Matching, Ordered
<1>7. Linked(h, u, p, c)
  BY <1>2, <1>3 DEF Matching, Linked
<1>8. \A s, r : Serves(h, q, s, r, c) => Serves(h, u, s, r, c)
  BY <1>2, <1>5 DEF Serves
<1>9. Peered(h, u, p, c)
  BY <1>8 DEF Matching, Peered
<1> QED  BY <1>4, <1>6, <1>7, <1>9 DEF Matching, u

\* So does a change of servers that do not serve c.
LEMMA PeersKeep ==
    ASSUME NEW q, NEW c, NEW h, NEW p, NEW z, Matching(h, q, p, c),
           \A r \in Servers : z[r].client = c =>
              /\ p[r].client = c /\ z[r].parts = p[r].parts
              /\ z[r].asked = p[r].asked /\ z[r].out = p[r].out
    PROVE  Matching(h, q, z, c)
<1>1. Linked(h, q, z, c)
  BY DEF Matching, Linked
<1>2. Peered(h, q, z, c)
  BY DEF Matching, Peered, Serves
<1> QED  BY <1>1, <1>2 DEF Matching

\* A channel has one server at most.
LEMMA OneServer ==
    ASSUME NEW q, NEW c, NEW h, NEW p, Linked(h, q, p, c), NEW r \in Servers, NEW s \in Servers,
           p[r].client = c, p[s].client = c, Nobody \notin Servers
    PROVE  r = s
BY DEF Linked

-----------------------------------------------------------------------------
(* What is received *)

\* A message that ends is whole, and its channel waits no longer; another frame
\* continues the message.
LEMMA RxDataFacts ==
    ASSUME NEW q \in Seq(Frames), q # <<>>, NEW c, NEW h \in Chan, NEW p, Matching(h, q, p, c),
           1 \in Data(q, c), FrameOK(q[1]), \A i \in DOMAIN q : FrameOK(q[i]),
           \A r \in Servers : p[r] \in Peer /\ OutOK(p[r].out),
           MuxDataParameters, NEW rx,
           rx = IF Len(h.rx) < RxSize + 1 THEN Append(h.rx, q[1].part) ELSE h.rx
    PROVE  /\ h.server = q[1].src /\ h.tx.n = 0
           /\ rx \in Seq(Parts)
           /\ q[1].complete /\ Len(rx) <= RxSize => Whole(rx)
           /\ Matching([h EXCEPT !.rx = IF q[1].complete THEN <<>> ELSE rx,
                              !.waits = @ /\ ~q[1].complete], Tail(q), p, c)
<1> DEFINE f == q[1]
           u == Tail(q)
           e == f.part
           L == Len(h.rx)
           k == [h EXCEPT !.rx = IF f.complete THEN <<>> ELSE rx, !.waits = @ /\ ~f.complete]
<1>1. /\ \A i \in Data(u, c) : i \in Nat \ {0} /\ i + 1 \in Data(q, c) /\ u[i] = q[i + 1]
      /\ \A i \in Data(q, c) : i \in Nat /\ (i = 1 \/ (i - 1 \in Data(u, c) /\ u[i - 1] = q[i]))
  <2>1. Shift(q, u, c, "data")
    BY TailFacts
  <2> HIDE DEF u
  <2> QED  BY <2>1 DEF Shift, Data
<1> HIDE DEF u
<1>3. /\ Owned(h, q, c) /\ Ordered(h, q, c) /\ Linked(h, q, p, c) /\ Peered(h, q, p, c)
      /\ RxSize \in Nat
  BY DEF Matching, MuxDataParameters
<1>4. h.server = f.src /\ h.waits /\ h.tx.n = 0 /\ L <= RxSize + 1 /\ L \in Nat /\ h.rx \in Seq(Parts)
  BY <1>3 DEF Owned, Chan
<1>5. /\ f \in Carriers /\ f.type = "data" /\ e.k \in 1 .. e.n /\ (f.complete <=> e.k = e.n)
      /\ e \in Parts /\ e = Part(e.k, e.n) /\ f.complete \in BOOLEAN /\ e.k \in Nat /\ e.n \in Nat
  <2>1. f \in Frames /\ f.type = "data"
    BY DEF Data, At
  <2>2. f \in Carriers
    BY <2>1 DEF Frames, Signals, Carriers
  <2> QED  BY <2>1, <2>2 DEF Carriers, FrameOK, Parts, Part
\* The others of the message come after it.
<1>6. \A i \in Data(q, c) : i # 1 => q[i].part.n = e.n /\ e.k < q[i].part.k
  BY <1>1, <1>3 DEF Ordered
<1>7. ASSUME NEW i \in Data(q, c)
      PROVE  q[i].part.k \in Nat /\ q[i].part.n \in Nat /\ q[i].part.k <= q[i].part.n
  <2>1. i \in DOMAIN q /\ q[i] \in Frames /\ q[i].type = "data"
    BY DEF Data, At
  <2>2. q[i] \in Carriers
    BY <2>1 DEF Frames, Signals, Carriers
  <2> QED  BY <2>1, <2>2 DEF Carriers, Parts, FrameOK
<1>8. f.complete => Data(u, c) = {}
  <2> SUFFICES ASSUME f.complete, NEW i \in Data(u, c) PROVE FALSE
    OBVIOUS
  <2>1. i + 1 \in Data(q, c) /\ i + 1 # 1
    BY <1>1
  <2> QED  BY <1>5, <1>6, <1>7, <2>1
\* Until the buffer is full, it is the next frame.
<1>9. ASSUME L <= RxSize PROVE e.k = L + 1 /\ rx = First(L + 1, e.n) /\ Len(rx) = L + 1
  <2>1. L < e.k /\ h.rx = First(L, e.n) /\ Upto(h, q, c, e.k)
    BY <1>3, <1>9 DEF Ordered
  <2>2. L + 1 \in L + 1 .. e.k
    BY <1>4, <1>5, <2>1
  <2>3. PICK i \in Data(q, c) : q[i].part.k = L + 1
    BY <2>1, <2>2 DEF Upto
  <2>4. i = 1
    BY <1>4, <1>5, <1>6, <2>1, <2>3
  <2>5. e.k = L + 1 /\ e.n \in Nat
    BY <1>5, <2>3, <2>4
  <2>6. rx = Append(First(L, e.n), Part(L + 1, e.n))
    BY <1>3, <1>4, <1>5, <1>9, <2>1, <2>5
  <2>7. rx = First(L + 1, e.n)
    BY <1>4, <2>5, <2>6, FirstFacts
  <2>8. Len(First(L + 1, e.n)) = L + 1
    <3>1. L + 1 \in Nat
      BY <1>4
    <3> QED  BY <2>5, <3>1, FirstFacts
  <2> QED  BY <2>5, <2>7, <2>8
<1>10. ASSUME ~(L <= RxSize) PROVE rx = h.rx /\ Len(rx) = RxSize + 1
  BY <1>3, <1>4, <1>10
<1>11. rx \in Seq(Parts) /\ Len(rx) \in Nat /\ Len(rx) <= RxSize + 1
  BY <1>3, <1>4, <1>5, <1>9, <1>10
<1>12. ASSUME f.complete, Len(rx) <= RxSize PROVE Whole(rx)
  <2>1. L <= RxSize
    BY <1>3, <1>4, <1>10, <1>12
  <2>2. rx = First(e.n, e.n) /\ e.n \in Nat \ {0}
    BY <1>5, <1>9, <1>12, <2>1
  <2>3. Whole(First(e.n, e.n))
    BY <2>2, FirstFacts
  <2> QED  BY <2>2, <2>3
<1>13. /\ k.server = h.server /\ k.tx = h.tx /\ k.rx = (IF f.complete THEN <<>> ELSE rx)
       /\ (k.waits <=> h.waits /\ ~f.complete)
  BY DEF Chan
<1> HIDE DEF k
<1>14. Owned(k, u, c)
  <2>1. \A i \in Data(u, c) : k.server = u[i].src /\ k.waits /\ k.tx.n = 0
    BY SMTT(30), <1>1, <1>3, <1>8, <1>13 DEF Owned
  <2>2. h.server # Nobody
    BY <1>4, <1>5 DEF Carriers, MuxDataParameters
  <2>3. Len(k.rx) <= RxSize + 1
    BY <1>3, <1>11, <1>13
  <2> QED  BY <1>4, <1>13, <2>1, <2>2, <2>3 DEF Owned
\* The frames that are left continue what is received.
<1>15. ASSUME ~f.complete, NEW j \in Nat, Upto(h, q, c, j), L <= RxSize PROVE Upto(k, u, c, j)
  <2> SUFFICES ASSUME NEW m \in L + 2 .. j PROVE \E i \in Data(u, c) : u[i].part.k = m
    BY SMTT(30), <1>4, <1>9, <1>13, <1>15 DEF Upto
  <2>1. m \in L + 1 .. j /\ m # L + 1
    BY <1>4
  <2>2. PICK i \in Data(q, c) : q[i].part.k = m
    BY <1>15, <2>1 DEF Upto
  <2>3. i # 1
    BY <1>9, <1>15, <2>1, <2>2
  <2> QED  BY <1>1, <2>2, <2>3
<1>16. Ordered(k, u, c)
  <2>1. \A i, j \in Data(u, c) : u[i].part.n = u[j].part.n /\ (i < j => u[i].part.k < u[j].part.k)
    <3> SUFFICES ASSUME NEW i \in Data(u, c), NEW j \in Data(u, c)
                 PROVE  u[i].part.n = u[j].part.n /\ (i < j => u[i].part.k < u[j].part.k)
      OBVIOUS
    <3>1. /\ i \in Nat /\ i + 1 \in Data(q, c) /\ u[i] = q[i + 1]
          /\ j \in Nat /\ j + 1 \in Data(q, c) /\ u[j] = q[j + 1]
      BY <1>1
    <3>2. i < j => i + 1 < j + 1
      BY <3>1
    <3>3. Ordered(h, q, c)
      BY <1>3
    <3> QED  BY <3>1, <3>2, <3>3 DEF Ordered
  <2>2. ASSUME Len(k.rx) <= RxSize, NEW i \in Data(u, c)
        PROVE  /\ Len(k.rx) < u[i].part.k /\ k.rx = First(Len(k.rx), u[i].part.n)
               /\ Upto(k, u, c, u[i].part.k)
    <3>1. ~f.complete /\ k.rx = rx
      BY <1>8, <1>13, <2>2
    <3>2. L <= RxSize
      BY <1>4, <1>10, <2>2, <3>1
    <3>3. i + 1 \in Data(q, c) /\ u[i] = q[i + 1] /\ i + 1 # 1
      BY <1>1, <2>2
    <3>4. u[i].part.n = e.n /\ e.k < u[i].part.k /\ u[i].part.k \in Nat
      BY <1>6, <1>7, <3>3
    <3>5. Upto(h, q, c, u[i].part.k)
      BY <1>3, <3>2, <3>3 DEF Ordered
    <3> QED  BY <1>9, <1>15, <3>1, <3>2, <3>4, <3>5
  <2> QED  BY <2>1, <2>2 DEF Ordered
<1>17. Linked(k, u, p, c)
  <2>1. 1 \notin At(q, c, "connected") \cup At(q, c, "disconnect")
    BY DEF Data, At
  <2> QED  BY <1>3, <1>13, <2>1, LinkedTail DEF u
<1>18. ASSUME NEW r \in Servers, p[r].client = c PROVE Serves(k, u, p[r], r, c)
  <2> DEFINE s == p[r]
  <2>1. Serves(h, q, s, r, c)
    BY <1>3, <1>18 DEF Peered
  <2>2. s.asked \in Nat /\ ~(s.asked > 0)
    BY <2>1 DEF Serves, Peer
  <2>3. s.out.n \in Nat /\ s.out.sent \in Nat /\ (s.out.n = 0 \/ s.out.sent < s.out.n)
    BY OutFacts DEF Peer, Outs, OutOK
  <2> SUFFICES Serves(k, u, s, r, c)
    OBVIOUS
  <2> HIDE DEF s
  <2>4. CASE ~(s.out.n > 0)
    BY <1>13, <2>1, <2>2, <2>4 DEF Serves
  <2>5. CASE s.out.n > 0
    <3>1. e.n = s.out.n /\ e.k <= s.out.sent
      BY <2>1, <2>5 DEF Serves
    <3>2. ~f.complete
      BY <1>5, <2>3, <2>5, <3>1
    <3>3. \A i \in Data(u, c) : u[i].part.n = s.out.n /\ u[i].part.k <= s.out.sent
      BY <1>1, <2>1, <2>5 DEF Serves
    <3>4. ASSUME Len(k.rx) <= RxSize
          PROVE  Len(k.rx) <= s.out.sent /\ k.rx = First(Len(k.rx), s.out.n) /\ Upto(k, u, c, s.out.sent)
      <4>1. L <= RxSize
        BY <1>4, <1>10, <1>13, <3>2, <3>4
      <4>2. Upto(h, q, c, s.out.sent)
        BY <2>1, <2>5, <4>1 DEF Serves
      <4> QED  BY <1>9, <1>13, <1>15, <2>3, <3>1, <3>2, <4>1, <4>2
    <3> QED  BY <1>13, <2>1, <2>2, <2>5, <3>2, <3>3, <3>4 DEF Serves
  <2> QED  BY <2>4, <2>5
<1>19. Matching(k, u, p, c)
  BY <1>14, <1>16, <1>17, <1>18 DEF Matching, Peered
<1> QED  BY <1>4, <1>11, <1>12, <1>19 DEF k, u

\* A channel that is connected had nothing half done.
LEMMA RxConnectedFacts ==
    ASSUME NEW q \in Seq(Frames), q # <<>>, NEW c, NEW h \in Chan, NEW p, Matching(h, q, p, c),
           1 \in At(q, c, "connected"), OutOK(h.tx), MuxDataParameters
    PROVE  Matching([h EXCEPT !.server = q[1].src, !.waits = FALSE], Tail(q), p, c)
<1> DEFINE r0 == q[1].src
           k == [h EXCEPT !.server = r0, !.waits = FALSE]
           u == Tail(q)
           C(s) == At(s, c, "connected")
           X(s) == At(s, c, "disconnect")
<1>1. /\ Owned(h, q, c) /\ Ordered(h, q, c) /\ Linked(h, q, p, c) /\ Peered(h, q, p, c)
  BY DEF Matching
<1>2. h.server = Nobody /\ h.rx = <<>> /\ h.tx.n = 0 /\ r0 \in Servers /\ r0 # Nobody
  <2>1. q[1] \in Frames
    BY DEF At
  <2> QED  BY <1>1, <2>1 DEF Linked, Owned, Frames, Signals, Carriers, MuxDataParameters
<1>3. Data(q, c) = {}
  <2>1. \A i \in Data(q, c) : q[i].src \in Servers
    BY DEF Data, At, Frames, Signals, Carriers
  <2> QED  BY <1>1, <1>2, <2>1 DEF Owned, MuxDataParameters
<1>4. Data(u, c) = {}
  <2>1. Shift(q, u, c, "data")
    BY TailFacts
  <2> HIDE DEF u
  <2> QED  BY <1>3, <2>1 DEF Shift, Data
<1>5. C(u) = {}
  <2>1. Shift(q, u, c, "connected")
    BY TailFacts
  <2> HIDE DEF u
  <2>2. ASSUME NEW i \in C(u) PROVE FALSE
    <3>1. i \in Nat \ {0} /\ i + 1 \in C(q)
      BY <2>1 DEF Shift
    <3> QED  BY <1>1, <3>1 DEF Linked
  <2> QED  BY <2>2
<1>6. /\ \A i \in X(u) : i \in Nat /\ i + 1 \in X(q) /\ u[i] = q[i + 1]
      /\ X(q) = {} => X(u) = {}
  <2>1. Shift(q, u, c, "disconnect")
    BY TailFacts
  <2> HIDE DEF u
  <2> QED  BY <2>1 DEF Shift
<1>7. k.server = r0 /\ ~k.waits /\ k.rx = <<>> /\ k.tx = h.tx
  BY <1>2 DEF Chan
<1> HIDE DEF k, u, r0
<1>8. Owned(k, u, c)
  <2>1. Len(k.rx) <= RxSize + 1
    BY <1>1, <1>2, <1>7 DEF Owned
  <2> QED  BY <1>2, <1>4, <1>7, <2>1 DEF Owned
<1>9. Ordered(k, u, c)
  BY <1>4 DEF Ordered
<1>10. \A i \in X(q) : q[i].src = r0
  BY <1>1, <1>2 DEF Linked, r0, At, Frames, Signals, Carriers, MuxDataParameters
<1>11. Linked(k, u, p, c)
  <2>1. ASSUME NEW r \in Servers, p[r].client = c
        PROVE  X(u) = {} /\ k.server = r
    <3>1. X(q) = {} /\ (h.server = r \/ \E i \in C(q) : q[i].src = r)
      BY <1>1, <2>1 DEF Linked
    <3>2. h.server # r
      BY <1>2 DEF MuxDataParameters
    <3>3. PICK i \in C(q) : q[i].src = r
      BY <3>1, <3>2
    <3>4. i = 1
      BY <1>1 DEF Linked
    <3> QED  BY <1>6, <1>7, <3>1, <3>3, <3>4 DEF r0
  <2>2. \A i \in X(u) : k.server = u[i].src
    BY <1>6, <1>7, <1>10
  <2>3. \A i, j \in X(u) : i = j
    BY <1>1, <1>6 DEF Linked
  <2> QED  BY <1>4, <1>5, <2>1, <2>2, <2>3 DEF Linked
<1>12. ASSUME NEW r \in Servers, p[r].client = c PROVE Serves(k, u, p[r], r, c)
  BY <1>1, <1>2, <1>7, <1>12 DEF Peered, Serves, MuxDataParameters
<1> QED  BY <1>8, <1>9, <1>11, <1>12 DEF Matching, Peered, k, u, r0

\* A channel whose connection ends forgets what was half done.
LEMMA RxDisconnectFacts ==
    ASSUME NEW q \in Seq(Frames), q # <<>>, NEW c, NEW h \in Chan, NEW p, Matching(h, q, p, c),
           1 \in At(q, c, "disconnect"), MuxDataParameters
    PROVE  /\ h.server = q[1].src
           /\ Matching([h EXCEPT !.server = Nobody, !.rx = <<>>, !.tx = Empty], Tail(q), p, c)
<1> DEFINE k == [h EXCEPT !.server = Nobody, !.rx = <<>>, !.tx = Empty]
           u == Tail(q)
           C(s) == At(s, c, "connected")
           X(s) == At(s, c, "disconnect")
<1>1. /\ Owned(h, q, c) /\ Ordered(h, q, c) /\ Linked(h, q, p, c) /\ Peered(h, q, p, c)
      /\ RxSize \in Nat
  BY DEF Matching, MuxDataParameters
<1>2. h.server = q[1].src /\ q[1].src # Nobody
  <2>1. q[1] \in Frames /\ q[1].src \in Servers
    BY DEF At, Frames, Signals, Carriers
  <2>2. \A j \in C(q) : j \in Nat /\ ~(j < 1)
    BY DEF At
  <2> QED  BY <1>1, <2>1, <2>2 DEF Linked, MuxDataParameters
<1>3. Data(q, c) = {}
  <2>1. \A j \in Data(q, c) : j \in Nat /\ ~(j < 1)
    BY DEF Data, At
  <2> QED  BY <1>1, <2>1 DEF Linked
<1>4. Data(u, c) = {}
  <2>1. Shift(q, u, c, "data")
    BY TailFacts
  <2> HIDE DEF u
  <2> QED  BY <1>3, <2>1 DEF Shift, Data
<1>5. C(u) = {}
  <2>1. Shift(q, u, c, "connected")
    BY TailFacts
  <2> HIDE DEF u
  <2> QED  BY <1>1, <1>2, <2>1 DEF Shift, Linked
<1>6. X(u) = {}
  <2>1. Shift(q, u, c, "disconnect")
    BY TailFacts
  <2> HIDE DEF u
  <2>2. ASSUME NEW i \in X(u) PROVE FALSE
    <3>1. i \in Nat \ {0} /\ i + 1 \in X(q)
      BY <2>1 DEF Shift
    <3> QED  BY <1>1, <3>1 DEF Linked
  <2> QED  BY <2>2
<1>7. \A r \in Servers : p[r].client # c
  BY <1>1 DEF Linked
<1>8. k.server = Nobody /\ k.rx = <<>> /\ k.tx = Empty
  BY DEF Chan
<1> HIDE DEF k, u
<1>9. Owned(k, u, c)
  BY <1>1, <1>4, <1>8, OutFacts DEF Owned
<1>10. Ordered(k, u, c) /\ Linked(k, u, p, c) /\ Peered(k, u, p, c)
  BY <1>4, <1>5, <1>6, <1>7 DEF Ordered, Linked, Peered
<1> QED  BY <1>2, <1>9, <1>10 DEF Matching, k, u

-----------------------------------------------------------------------------
(* What is sent *)

\* An idle channel that waits for nothing may send a message.
LEMMA SayFacts ==
    ASSUME NEW q \in Seq(Frames), NEW c, NEW h \in Chan, NEW p, Matching(h, q, p, c), OutOK(h.tx),
           h.server # Nobody, h.tx.n = 0, ~h.waits, NEW n \in Nat \ {0},
           \A r \in Servers : p[r] \in Peer
    PROVE  Matching([h EXCEPT !.tx = Start(n), !.waits = TRUE], q, p, c)
<1> DEFINE k == [h EXCEPT !.tx = Start(n), !.waits = TRUE]
<1>1. /\ Owned(h, q, c) /\ Ordered(h, q, c) /\ Linked(h, q, p, c) /\ Peered(h, q, p, c)
  BY DEF Matching
<1>2. h.rx = <<>> /\ Data(q, c) = {} /\ h.tx = Empty
  <2>1. h.tx \in Outs
    BY DEF Chan
  <2> QED  BY <1>1, <2>1, OutFacts DEF Owned
<1>3. k.server = h.server /\ k.rx = h.rx /\ k.tx = Start(n) /\ k.waits
  BY DEF Chan
<1> HIDE DEF k
<1>4. Owned(k, q, c)
  BY <1>1, <1>2, <1>3 DEF Owned
<1>5. Ordered(k, q, c) /\ Linked(k, q, p, c)
  BY <1>1, <1>2, <1>3 DEF Ordered, Linked
<1>6. ASSUME NEW r \in Servers, p[r].client = c PROVE Serves(k, q, p[r], r, c)
  <2>1. Serves(h, q, p[r], r, c)
    BY <1>1, <1>6 DEF Peered
  <2>2. ~(p[r].asked > 0) /\ ~(p[r].out.n > 0)
    BY <2>1 DEF Serves
  <2>3. p[r].parts = First(Start(n).sent, Start(n).n)
    <3>1. First(0, 0) = <<>> /\ First(0, n) = <<>>
      BY FirstFacts
    <3> QED  BY <1>2, <2>1, <3>1, OutFacts DEF Serves
  <2> QED  BY <1>3, <2>2, <2>3 DEF Serves
<1> QED  BY <1>4, <1>5, <1>6 DEF Matching, Peered, k

\* A frame is sent: the server that is connected adds it to what it has.
LEMMA TransmitFacts ==
    ASSUME NEW q \in Seq(Frames), NEW c, NEW h \in Chan, NEW p, NEW z, Matching(h, q, p, c), OutOK(h.tx),
           h.tx.n # 0, h.server \in Servers, \A r \in Servers : p[r] \in Peer,
           MuxDataParameters,
           \A s \in Servers : s # h.server => z[s] = p[s],
           p[h.server].client = c =>
               z[h.server] = [p[h.server] EXCEPT !.parts = Received(@, NextPart(h.tx)),
                                                 !.asked = IF h.tx.sent + 1 = h.tx.n THEN 1 ELSE @],
           p[h.server].client # c => z[h.server] = p[h.server]
    PROVE  Matching([h EXCEPT !.tx = Advance(@)], q, z, c)
<1> DEFINE k == [h EXCEPT !.tx = Advance(@)]
           r == h.server
<1>1. /\ Owned(h, q, c) /\ Ordered(h, q, c) /\ Linked(h, q, p, c) /\ Peered(h, q, p, c)
  BY DEF Matching
<1>2. /\ h.tx \in Outs /\ h.tx.n \in Nat /\ h.tx.sent \in Nat
      /\ h.rx = <<>> /\ Data(q, c) = {} /\ h.waits /\ r # Nobody
  BY <1>1 DEF Chan, Outs, Owned, MuxDataParameters
<1>3. k.server = r /\ k.rx = h.rx /\ k.waits = h.waits /\ k.tx = Advance(h.tx)
  BY DEF Chan
<1> HIDE DEF k
<1>4. Owned(k, q, c) /\ Ordered(k, q, c)
  <2>1. k.tx.n > 0 => k.rx = <<>>
    BY <1>2, <1>3
  <2> QED  BY <1>1, <1>2, <1>3, <2>1 DEF Owned, Ordered
<1>5. \A s \in Servers : z[s].client = p[s].client
  BY ZenonT(30) DEF Peer
<1>6. Linked(k, q, z, c)
  BY <1>1, <1>3, <1>5 DEF Linked
<1>7. ASSUME NEW s \in Servers, z[s].client = c PROVE Serves(k, q, z[s], s, c)
  <2>1. s = r /\ p[r].client = c
    BY <1>1, <1>2, <1>5, <1>7 DEF Linked
  <2>2. Serves(h, q, p[r], r, c)
    BY <1>1, <2>1 DEF Peered
  <2>3. p[r] \in Peer /\ p[r].parts = First(h.tx.sent, h.tx.n) /\ ~(p[r].out.n > 0) /\ ~(p[r].asked > 0)
    BY <1>2, <2>2 DEF Serves
  <2>4. p[r].out.n = 0 /\ p[r].asked = 0
    BY <2>3 DEF Peer, Outs
  <2>5. /\ z[r].parts = Received(p[r].parts, NextPart(h.tx)) /\ z[r].out = p[r].out
        /\ z[r].asked = IF h.tx.sent + 1 = h.tx.n THEN 1 ELSE 0
    BY <2>1, <2>4 DEF Peer
  <2>6. z[r].parts = IF h.tx.sent + 1 = h.tx.n THEN <<>> ELSE First(h.tx.sent + 1, h.tx.n)
    BY <1>2, <2>3, <2>5, OutFacts, ReceivedFacts
  <2>7. z[r].parts = First(k.tx.sent, k.tx.n)
    <3>1. CASE h.tx.sent + 1 = h.tx.n
      <4>1. First(0, 0) = <<>>
        BY FirstFacts
      <4> QED  BY <1>2, <1>3, <2>6, <3>1, <4>1, OutFacts
    <3>2. CASE h.tx.sent + 1 # h.tx.n
      BY <1>2, <1>3, <2>6, <3>2, OutFacts
    <3> QED  BY <3>1, <3>2
  <2>8. z[r].asked > 0 => k.tx.n = 0
    BY <1>2, <1>3, <2>5, OutFacts
  <2> QED  BY <1>2, <1>3, <2>1, <2>4, <2>5, <2>7, <2>8 DEF Serves
<1> QED  BY <1>4, <1>6, <1>7 DEF Matching, Peered, k

-----------------------------------------------------------------------------
(* What remote servers do *)

\* A server accepts a channel that no other serves, and knows nothing of it.
LEMMA RemoteConnectsFacts ==
    ASSUME NEW q \in Seq(Frames), NEW c, NEW h \in Chan, NEW p, NEW z, NEW r \in Servers,
           Matching(h, q, p, c), OutOK(h.tx), MuxDataParameters,
           h.server = Nobody, At(q, c, "connected") = {}, \A s \in Servers : p[s].client # c,
           NEW f \in Frames, f.type = "connected", f.src = r, f.dest = c,
           \A s \in Servers \ {r} : z[s] = p[s],
           z[r].parts = <<>>, z[r].asked = 0, z[r].out = Empty
    PROVE  Matching(h, Append(q, f), z, c)
<1> DEFINE u == Append(q, f)
           C(s) == At(s, c, "connected")
           X(s) == At(s, c, "disconnect")
<1>1. /\ Owned(h, q, c) /\ Ordered(h, q, c) /\ Linked(h, q, p, c)
  BY DEF Matching
<1>2. PICK e \in Nat \ {0} : u[e] = f /\ \A t : Longer(q, u, f, e, c, t)
  BY AppendFacts
<1> HIDE DEF u
<1>3. Data(u, c) = Data(q, c) /\ C(u) = {e} /\ X(u) = X(q) /\ u[e] = f
  BY <1>2 DEF Data, Longer
<1>4. Data(q, c) = {}
  <2>1. \A i \in Data(q, c) : q[i].src \in Servers
    BY DEF Data, At, Frames, Signals, Carriers
  <2> QED  BY <1>1, <2>1 DEF Owned, MuxDataParameters
<1>5. X(q) = {}
  <2>1. \A i \in X(q) : q[i].src \in Servers
    BY DEF At, Frames, Signals, Carriers
  <2> QED  BY <1>1, <2>1 DEF Linked, MuxDataParameters
<1>6. Owned(h, u, c) /\ Ordered(h, u, c)
  BY <1>1, <1>3, <1>4 DEF Owned, Ordered
<1>7. \A s \in Servers : z[s].client = c => s = r
  OBVIOUS
<1>8. Linked(h, u, z, c)
  BY <1>3, <1>4, <1>5, <1>7 DEF Linked
<1>9. h.tx = Empty
  BY <1>1, OutFacts DEF Owned, Chan
<1>10. z[r].parts = First(h.tx.sent, h.tx.n)
  <2>1. First(0, 0) = <<>>
    BY FirstFacts
  <2> QED  BY <1>9, <2>1, OutFacts
<1>11. Serves(h, u, z[r], r, c)
  BY <1>10, OutFacts DEF Serves
<1> QED  BY <1>6, <1>7, <1>8, <1>11 DEF Matching, Peered, u

\* A server that disconnects says so after all it has sent.
LEMMA RemoteDisconnectsFacts ==
    ASSUME NEW q \in Seq(Frames), NEW c, NEW h \in Chan, NEW p, NEW z, NEW r \in Servers,
           Matching(h, q, p, c), MuxDataParameters, p[r].client = c,
           NEW f \in Frames, f.type = "disconnect", f.src = r, f.dest = c,
           \A s \in Servers \ {r} : z[s] = p[s], z[r].client # c
    PROVE  Matching(h, Append(q, f), z, c)
<1> DEFINE u == Append(q, f)
           C(s) == At(s, c, "connected")
           X(s) == At(s, c, "disconnect")
<1>1. /\ Owned(h, q, c) /\ Ordered(h, q, c) /\ Linked(h, q, p, c)
  BY DEF Matching
<1>2. PICK e \in Nat \ {0} : u[e] = f /\ \A t : Longer(q, u, f, e, c, t)
  BY AppendFacts
<1> HIDE DEF u
<1>3. /\ Data(u, c) = Data(q, c) /\ \A i \in Data(q, c) : u[i] = q[i] /\ i < e
      /\ C(u) = C(q) /\ \A i \in C(q) : u[i] = q[i] /\ i < e
      /\ X(u) = X(q) \cup {e} /\ u[e] = f
  BY <1>2 DEF Data, Longer
<1>4. X(q) = {} /\ (h.server = r \/ \E i \in C(q) : q[i].src = r)
  BY <1>1 DEF Linked
<1>5. \A k : Upto(h, q, c, k) => Upto(h, u, c, k)
  BY <1>3 DEF Upto
<1>6. Owned(h, u, c) /\ Ordered(h, u, c)
  BY <1>1, <1>3, <1>5 DEF Owned, Ordered
<1>7. \A s \in Servers : z[s].client # c
  <2> SUFFICES ASSUME NEW s \in Servers, z[s].client = c PROVE FALSE
    OBVIOUS
  <2>1. s # r /\ p[s].client = c
    OBVIOUS
  <2> QED  BY <1>1, <2>1, OneServer DEF MuxDataParameters
<1>8. Linked(h, u, z, c)
  <2>1. \A i \in X(u) : i = e
    BY <1>3, <1>4
  <2>2. h.server = u[e].src \/ \E j \in C(u) : j < e /\ u[j].src = u[e].src
    BY <1>3, <1>4
  <2>3. /\ \A i \in C(u) : h.server = Nobody
        /\ \A i, j \in C(u) : i = j
    BY <1>1, <1>3 DEF Linked
  <2> QED  BY <1>3, <1>7, <2>1, <2>2, <2>3 DEF Linked
<1> QED  BY <1>6, <1>7, <1>8 DEF Matching, Peered, u

\* A server that was asked may answer.
LEMMA RemoteRepliesFacts ==
    ASSUME NEW q \in Seq(Frames), NEW c, NEW h \in Chan, NEW p, NEW z, NEW r \in Servers,
           Matching(h, q, p, c), p[r].client = c, p[r].asked > 0, NEW n \in Nat \ {0},
           \A s \in Servers \ {r} : z[s] = p[s],
           z[r].client = c, z[r].parts = p[r].parts, z[r].asked = 0, z[r].out = Start(n)
    PROVE  Matching(h, q, z, c)
<1>1. /\ Owned(h, q, c) /\ Ordered(h, q, c) /\ Linked(h, q, p, c) /\ Peered(h, q, p, c)
  BY DEF Matching
<1>2. \A s \in Servers : z[s].client = p[s].client
  OBVIOUS
<1>3. Linked(h, q, z, c)
  BY <1>1, <1>2 DEF Linked
<1>4. Serves(h, q, p[r], r, c)
  BY <1>1 DEF Peered
<1>5. h.rx = <<>> /\ Data(q, c) = {} /\ h.server = r /\ h.waits /\ h.tx.n = 0
  BY <1>4 DEF Serves
<1>6. Start(n).n = n /\ Start(n).sent = 0 /\ Len(h.rx) = 0 /\ h.rx = First(0, n) /\ Upto(h, q, c, 0)
  <2>1. First(0, n) = <<>> /\ Len(h.rx) = 0
    BY <1>5, FirstFacts
  <2>2. Upto(h, q, c, 0)
    BY <2>1 DEF Upto
  <2> QED  BY <1>5, <2>1, <2>2, OutFacts
<1>7. z[r].parts = First(h.tx.sent, h.tx.n)
  BY <1>4 DEF Serves
<1>8. Serves(h, q, z[r], r, c)
  BY <1>5, <1>6, <1>7 DEF Serves
<1>9. ASSUME NEW s \in Servers \ {r}, z[s].client = c PROVE Serves(h, q, z[s], s, c)
  <2>1. z[s] = p[s] /\ p[s].client = c
    BY <1>9
  <2>2. Serves(h, q, p[s], s, c)
    BY <1>1, <2>1 DEF Peered
  <2> QED  BY <2>1, <2>2
<1> QED  BY <1>1, <1>3, <1>8, <1>9 DEF Matching, Peered

\* A frame of its answer continues what it has sent.
LEMMA RemoteSendsFacts ==
    ASSUME NEW q \in Seq(Frames), NEW c, NEW h \in Chan, NEW p, NEW z, NEW r \in Servers,
           Matching(h, q, p, c), p[r].client = c, p[r] \in Peer, OutOK(p[r].out), p[r].out.n # 0,
           MuxDataParameters,
           NEW f \in Carriers, f.type = "data", f.src = r, f.dest = c, f.part = NextPart(p[r].out),
           \A i \in Data(q, c) : q[i].part \in Parts,
           \A s \in Servers \ {r} : z[s] = p[s],
           z[r].client = c, z[r].parts = p[r].parts, z[r].asked = p[r].asked,
           z[r].out = Advance(p[r].out)
    PROVE  Matching(h, Append(q, f), z, c)
<1> DEFINE u == Append(q, f)
           o == p[r].out
           C(s) == At(s, c, "connected")
           X(s) == At(s, c, "disconnect")
           D(s) == Data(s, c)
<1>1. /\ Owned(h, q, c) /\ Ordered(h, q, c) /\ Linked(h, q, p, c) /\ Peered(h, q, p, c)
  BY DEF Matching
<1>2. PICK e \in Nat \ {0} : u[e] = f /\ \A t : Longer(q, u, f, e, c, t)
  <2>1. f \in Frames
    BY DEF Frames
  <2> QED  BY <2>1, AppendFacts
<1> HIDE DEF u
<1>3. /\ D(u) = D(q) \cup {e} /\ \A i \in D(q) : i \in Nat /\ u[i] = q[i] /\ i < e
      /\ C(u) = C(q) /\ \A i \in C(q) : u[i] = q[i]
      /\ X(u) = X(q) /\ u[e] = f
  BY <1>2 DEF Data, Longer
<1>4. Serves(h, q, p[r], r, c)
  BY <1>1 DEF Peered
<1>5. /\ o \in Outs /\ o.n \in Nat \ {0} /\ o.sent \in Nat /\ o.sent + 1 <= o.n
      /\ p[r].asked \in Nat
  BY OutFacts DEF Peer, Outs, OutOK
<1>6. /\ h.server = r /\ h.waits /\ h.tx.n = 0 /\ ~(p[r].asked > 0)
      /\ \A i \in D(q) : q[i].part.n = o.n /\ q[i].part.k <= o.sent
      /\ Len(h.rx) <= RxSize =>
              Len(h.rx) <= o.sent /\ h.rx = First(Len(h.rx), o.n) /\ Upto(h, q, c, o.sent)
  BY <1>4, <1>5 DEF Serves
<1>7. f.part.k = o.sent + 1 /\ f.part.n = o.n
  BY <1>5, OutFacts DEF Part
<1>8. \A i \in D(q) : q[i].part.k \in Nat
  BY DEF Parts
<1> HIDE DEF o
<1>9. Owned(h, u, c)
  <2>1. \A i \in D(u) : h.server = u[i].src /\ h.waits /\ h.tx.n = 0
    BY <1>1, <1>3, <1>6 DEF Owned
  <2>2. h.server # Nobody
    BY <1>6 DEF MuxDataParameters
  <2> QED  BY <1>1, <1>6, <2>1, <2>2 DEF Owned
<1>10. \A k : Upto(h, q, c, k) => Upto(h, u, c, k)
  BY <1>3 DEF Upto
<1>11. ASSUME Len(h.rx) <= RxSize, Len(h.rx) \in Nat PROVE Upto(h, u, c, o.sent + 1)
  <2> SUFFICES ASSUME NEW j \in Len(h.rx) + 1 .. o.sent + 1 PROVE \E i \in D(u) : u[i].part.k = j
    BY DEF Upto
  <2>1. CASE j = o.sent + 1
    BY <1>3, <1>7, <2>1
  <2>2. CASE j # o.sent + 1
    <3>1. j \in Len(h.rx) + 1 .. o.sent
      BY <1>5, <1>11, <2>2
    <3>2. Upto(h, u, c, o.sent)
      BY <1>6, <1>10, <1>11
    <3> QED  BY <3>1, <3>2 DEF Upto
  <2> QED  BY <2>1, <2>2
<1>12. Len(h.rx) \in Nat
  BY DEF Chan
<1>13. Ordered(h, u, c)
  <2>1. ASSUME NEW i \in D(u), NEW j \in D(u)
        PROVE  u[i].part.n = u[j].part.n /\ (i < j => u[i].part.k < u[j].part.k)
    <3>1. u[i].part.n = o.n /\ u[j].part.n = o.n
      BY <1>3, <1>6, <1>7
    <3>2. ASSUME i < j PROVE u[i].part.k < u[j].part.k
      <4>1. i # e
        BY <1>2, <1>3, <3>2
      <4>2. i \in D(q) /\ u[i] = q[i]
        BY <1>3, <4>1
      <4>3. CASE j = e
        <5>1. u[j].part.k = o.sent + 1
          BY <1>3, <1>7, <4>3
        <5>2. u[i].part.k <= o.sent /\ u[i].part.k \in Nat
          BY <1>6, <1>8, <4>2
        <5> QED  BY <1>5, <5>1, <5>2
      <4>4. CASE j # e
        BY <1>1, <1>3, <3>2, <4>2, <4>4 DEF Ordered
      <4> QED  BY <4>3, <4>4
    <3> QED  BY <3>1, <3>2
  <2>2. ASSUME Len(h.rx) <= RxSize, NEW i \in D(u)
        PROVE  /\ Len(h.rx) < u[i].part.k /\ h.rx = First(Len(h.rx), u[i].part.n)
               /\ Upto(h, u, c, u[i].part.k)
    <3>1. CASE i = e
      BY <1>3, <1>5, <1>6, <1>7, <1>11, <1>12, <2>2, <3>1
    <3>2. CASE i # e
      BY <1>1, <1>3, <1>10, <2>2, <3>2 DEF Ordered
    <3> QED  BY <3>1, <3>2
  <2> QED  BY <2>1, <2>2 DEF Ordered
<1>14. X(q) = {} /\ C(q) = {}
  <2>1. h.server # Nobody
    BY <1>6 DEF MuxDataParameters
  <2> QED  BY <1>1, <2>1 DEF Linked
<1>15. \A s \in Servers : z[s].client = c => s = r
  <2> SUFFICES ASSUME NEW s \in Servers, z[s].client = c, s # r PROVE FALSE
    OBVIOUS
  <2>1. p[s].client = c
    OBVIOUS
  <2> QED  BY <1>1, <2>1, OneServer DEF MuxDataParameters
<1>16. Linked(h, u, z, c)
  BY <1>3, <1>6, <1>14, <1>15 DEF Linked
<1>17. Serves(h, u, z[r], r, c)
  <2>1. z[r].parts = First(h.tx.sent, h.tx.n) /\ ~(z[r].asked > 0)
    BY <1>4, <1>6 DEF Serves
  <2>2. CASE o.sent + 1 = o.n
    <3>1. z[r].out.n = 0
      BY <1>5, <2>2, OutFacts DEF o
    <3> QED  BY <2>1, <3>1 DEF Serves
  <2>3. CASE o.sent + 1 # o.n
    <3>1. z[r].out.n = o.n /\ z[r].out.sent = o.sent + 1
      BY <1>5, <2>3, OutFacts DEF o
    <3>2. \A i \in D(u) : u[i].part.n = o.n /\ u[i].part.k <= o.sent + 1
      BY <1>3, <1>5, <1>6, <1>7, <1>8
    <3>3. Len(h.rx) <= RxSize =>
              Len(h.rx) <= o.sent + 1 /\ h.rx = First(Len(h.rx), o.n) /\ Upto(h, u, c, o.sent + 1)
      BY <1>5, <1>6, <1>11, <1>12
    <3> QED  BY <1>6, <2>1, <3>1, <3>2, <3>3 DEF Serves
  <2> QED  BY <2>2, <2>3
<1> QED  BY <1>9, <1>13, <1>15, <1>16, <1>17 DEF Matching, Peered, u

-----------------------------------------------------------------------------
(* The invariant and the actions *)

\* What the types of the state say of one frame, one channel, one server
LEMMA StateFacts ==
    ASSUME Types, MuxDataParameters
    PROVE  /\ frames \in Seq(Frames) /\ RxSize \in Nat \ {0} /\ Nobody \notin Servers
           /\ \A i \in DOMAIN frames : FrameOK(frames[i])
           /\ \A c \in Chans : chan[c] \in Chan /\ OutOK(chan[c].tx)
           /\ \A r \in Servers : peer[r] \in Peer /\ OutOK(peer[r].out)
           /\ \A c : \A i \in Data(frames, c) : frames[i] \in Carriers
<1>1. frames \in Seq(Frames) /\ RxSize \in Nat \ {0} /\ Nobody \notin Servers
  BY DEF Types, Frames, MuxDataParameters
<1>2. \A c : \A i \in Data(frames, c) : frames[i] \in Carriers
  BY <1>1 DEF Data, At, Frames, Signals, Carriers
<1> QED  BY <1>1, <1>2 DEF Types

\* A frame that is queued, and one that is received, leave a queue of frames.
LEMMA QueueFacts ==
    ASSUME Types
    PROVE  /\ frames # <<>> => /\ Tail(frames) \in Seq(Signals \cup Carriers)
                               /\ \A i \in DOMAIN Tail(frames) : FrameOK(Tail(frames)[i])
           /\ \A f \in Signals \cup Carriers : FrameOK(f) =>
                 /\ Append(frames, f) \in Seq(Signals \cup Carriers)
                 /\ \A i \in DOMAIN Append(frames, f) : FrameOK(Append(frames, f)[i])
<1>1. frames \in Seq(Signals \cup Carriers) /\ \A i \in 1 .. Len(frames) : FrameOK(frames[i])
  BY DEF Types
<1>2. ASSUME frames # <<>>
      PROVE  /\ Tail(frames) \in Seq(Signals \cup Carriers)
             /\ \A i \in DOMAIN Tail(frames) : FrameOK(Tail(frames)[i])
  <2> DEFINE u == Tail(frames)
  <2>1. /\ u \in Seq(Signals \cup Carriers) /\ DOMAIN u = 1 .. Len(frames) - 1
        /\ \A i \in 1 .. Len(frames) - 1 : u[i] = frames[i + 1]
    BY <1>1, <1>2
  <2> HIDE DEF u
  <2>2. \A i \in 1 .. Len(frames) - 1 : i + 1 \in 1 .. Len(frames)
    BY <1>1
  <2>3. \A i \in DOMAIN u : FrameOK(u[i])
    BY <1>1, <2>1, <2>2
  <2> QED  BY <2>1, <2>3 DEF u
<1>3. ASSUME NEW f \in Signals \cup Carriers, FrameOK(f)
      PROVE  /\ Append(frames, f) \in Seq(Signals \cup Carriers)
             /\ \A i \in DOMAIN Append(frames, f) : FrameOK(Append(frames, f)[i])
  <2> DEFINE u == Append(frames, f)
  <2>1. /\ u \in Seq(Signals \cup Carriers) /\ DOMAIN u = 1 .. Len(frames) + 1
        /\ u[Len(frames) + 1] = f /\ \A i \in 1 .. Len(frames) : u[i] = frames[i]
    BY <1>1
  <2> HIDE DEF u
  <2>2. \A i \in 1 .. Len(frames) + 1 : i \in 1 .. Len(frames) \/ i = Len(frames) + 1
    BY <1>1
  <2>3. \A i \in DOMAIN u : FrameOK(u[i])
    BY <1>1, <1>3, <2>1, <2>2
  <2> QED  BY <2>1, <2>3 DEF u
<1> QED  BY <1>2, <1>3

\* The initial states
LEMMA InitWhole == MuxDataParameters /\ MuxInit => WholeInv
<1> SUFFICES ASSUME MuxDataParameters, MuxInit PROVE WholeInv
  OBVIOUS
<1>1. DOMAIN frames = {} /\ frames = <<>>
  BY DEF MuxInit
<1>2. /\ \A c \in Chans : chan[c] = [server |-> Nobody, rx |-> <<>>, tx |-> Empty, waits |-> FALSE]
      /\ \A r \in Servers : peer[r] = [client |-> Nobody, stopped |-> FALSE, out |-> Empty,
                                      parts |-> <<>>, asked |-> 0]
      /\ \A c \in Chans : given[c] = <<>>
  BY DEF MuxInit
<1>3. Types
  <2>1. chan \in [Chans -> Chan] /\ \A c \in Chans : OutOK(chan[c].tx)
    BY OutFacts DEF MuxInit, Chan
  <2>2. peer \in [Servers -> Peer] /\ \A r \in Servers : OutOK(peer[r].out)
    BY OutFacts DEF MuxInit, Peer
  <2>3. last \in 0 .. Len(Channels)
    BY DEF MuxInit, MuxDataParameters
  <2>4. blocked \subseteq Servers
    BY DEF MuxInit
  <2>5. frames \in Seq(Signals \cup Carriers) /\ \A i \in DOMAIN frames : FrameOK(frames[i])
    <3>1. frames \in Seq(Signals \cup Carriers)
      BY <1>1
    <3> QED  BY <1>1, <3>1
  <2> QED  BY <2>1, <2>2, <2>3, <2>4, <2>5 DEF Types
<1>4. \A c, t : At(frames, c, t) = {}
  BY <1>1 DEF At
<1>5. ASSUME NEW c \in Chans PROVE Matching(chan[c], frames, peer, c)
  <2>1. /\ chan[c].server = Nobody /\ chan[c].rx = <<>> /\ chan[c].tx = Empty /\ ~chan[c].waits
        /\ chan[c].tx.n = 0 /\ ~(chan[c].tx.n > 0) /\ Len(chan[c].rx) = 0 /\ RxSize \in Nat
    BY <1>2, OutFacts DEF MuxDataParameters
  <2>2. \A r \in Servers : peer[r].client # c
    BY <1>2 DEF MuxDataParameters
  <2>3. Owned(chan[c], frames, c) /\ Ordered(chan[c], frames, c)
    BY <1>4, <2>1 DEF Owned, Ordered, Data
  <2>4. Linked(chan[c], frames, peer, c) /\ Peered(chan[c], frames, peer, c)
    BY <1>4, <2>2 DEF Linked, Peered, Data
  <2> QED  BY <2>3, <2>4 DEF Matching
<1>6. \A r \in Servers : Begins(peer[r].parts)
  BY <1>2 DEF Begins
<1> QED  BY <1>2, <1>3, <1>5, <1>6 DEF WholeInv

\* A frame is received.
LEMMA RxWhole ==
    ASSUME MuxDataParameters, WholeInv, Rx
    PROVE  WholeInv'
<1> DEFINE f == Head(frames)
           c0 == f.dest
           h == chan[c0]
<1>1. /\ Types /\ frames # <<>> /\ frames' = Tail(frames) /\ last' = last /\ peer' = peer
      /\ \A c \in Chans : Matching(chan[c], frames, peer, c) /\ given[c] = <<>>
      /\ \A r \in Servers : Begins(peer[r].parts)
  BY DEF WholeInv, Rx
<1>2. /\ frames \in Seq(Frames) /\ RxSize \in Nat \ {0} /\ Nobody \notin Servers
      /\ \A i \in DOMAIN frames : FrameOK(frames[i])
      /\ \A c \in Chans : chan[c] \in Chan /\ OutOK(chan[c].tx)
      /\ \A r \in Servers : peer[r] \in Peer /\ OutOK(peer[r].out)
      /\ chan \in [Chans -> Chan] /\ blocked \subseteq Servers
  BY <1>1, StateFacts DEF Types
<1>3. 1 \in DOMAIN frames /\ frames[1] = f /\ f \in Frames /\ c0 \in Chans /\ f.src \in Servers
  <2>1. 1 \in DOMAIN frames /\ frames[1] = f /\ f \in Frames
    BY <1>1, <1>2
  <2> QED  BY <2>1 DEF Frames, Signals, Carriers
<1>4. h \in Chan /\ OutOK(h.tx) /\ Matching(h, frames, peer, c0)
  BY <1>1, <1>2, <1>3
\* Channels that the frame does not concern
<1>5. ASSUME NEW c \in Chans, c # c0 \/ f.type \in {"xoff", "xon"}
      PROVE  Matching(chan[c], frames', peer', c)
  <2>1. 1 \notin Data(frames, c) \cup At(frames, c, "connected") \cup At(frames, c, "disconnect")
    BY <1>3, <1>5 DEF Data, At
  <2> QED  BY <1>1, <1>2, <2>1, TailKeeps
\* It is enough to look at the one that it is for.
<1>6. ASSUME NEW k \in Chan, OutOK(k.tx), chan' = [chan EXCEPT ![c0] = k], blocked' = blocked,
             Matching(k, frames', peer', c0), \A c \in Chans : given'[c] = <<>>
      PROVE  WholeInv'
  <2>1. chan' \in [Chans -> Chan] /\ chan'[c0] = k /\ \A c \in Chans \ {c0} : chan'[c] = chan[c]
    BY <1>2, <1>3, <1>6
  <2>2. \A c \in Chans : OutOK(chan'[c].tx)
    BY <1>2, <1>6, <2>1
  <2>3. Types'
    BY <1>1, <1>6, <2>1, <2>2, QueueFacts DEF Types
  <2>4. \A c \in Chans : Matching(chan'[c], frames', peer', c)
    BY <1>5, <1>6, <2>1
  <2> QED  BY <1>1, <1>6, <2>3, <2>4 DEF WholeInv
<1>7. CASE f.type = "data" /\ RxData(f) /\ blocked' = blocked
  <2> DEFINE rx == IF Len(h.rx) < RxSize + 1 THEN Append(h.rx, f.part) ELSE h.rx
             k == [h EXCEPT !.rx = IF f.complete THEN <<>> ELSE rx, !.waits = @ /\ ~f.complete]
  <2>1. 1 \in Data(frames, c0)
    BY <1>3, <1>7 DEF Data, At
  <2>2. /\ h.server = f.src /\ h.tx.n = 0 /\ rx \in Seq(Parts)
        /\ f.complete /\ Len(rx) <= RxSize => Whole(rx)
        /\ Matching(k, Tail(frames), peer, c0)
    <3>1. /\ rx = IF Len(h.rx) < RxSize + 1 THEN Append(h.rx, frames[1].part) ELSE h.rx
          /\ FrameOK(frames[1]) /\ Matching(h, frames, peer, c0) /\ h \in Chan
      BY <1>2, <1>3, <1>4
    <3> HIDE DEF rx, h, c0
    <3>2. /\ h.server = frames[1].src /\ h.tx.n = 0 /\ rx \in Seq(Parts)
          /\ frames[1].complete /\ Len(rx) <= RxSize => Whole(rx)
          /\ Matching([h EXCEPT !.rx = IF frames[1].complete THEN <<>> ELSE rx,
                              !.waits = @ /\ ~frames[1].complete], Tail(frames), peer, c0)
      BY <1>1, <1>2, <2>1, <3>1, RxDataFacts
    <3> HIDE DEF f
    <3> QED  BY <1>3, <3>2, Zenon
  <2>3. k \in Chan /\ OutOK(k.tx)
    <3> HIDE DEF rx, h
    <3>1. (h.waits /\ ~f.complete) \in BOOLEAN /\ <<>> \in Seq(Parts)
      OBVIOUS
    <3>2. (IF f.complete THEN <<>> ELSE rx) \in Seq(Parts)
      BY <2>2, <3>1
    <3> DEFINE w == h.waits /\ ~f.complete
               y == IF f.complete THEN <<>> ELSE rx
    <3> HIDE DEF w, y
    <3>3. [h EXCEPT !.rx = y, !.waits = w] \in Chan /\ [h EXCEPT !.rx = y, !.waits = w].tx = h.tx
      <4>1. w \in BOOLEAN /\ y \in Seq(Parts)
        BY <3>1, <3>2 DEF w, y
      <4> QED  BY <1>4, <4>1 DEF Chan
    <3> QED  BY <1>4, <3>3 DEF w, y
  <2>4. /\ chan' = [chan EXCEPT ![c0] = k]
        /\ given' = IF f.complete /\ Len(rx) <= RxSize
                    THEN [given EXCEPT ![c0] = IF Whole(rx) THEN <<>> ELSE rx] ELSE given
    <3>1. ~(h.server # f.src \/ h.tx.n > 0)
      BY <2>2
    <3>2. /\ chan' = [chan EXCEPT ![c0] = k]
          /\ given' = IF f.complete /\ Len(rx) <= RxSize
                    THEN [given EXCEPT ![c0] = IF Whole(rx) THEN <<>> ELSE rx] ELSE given
      BY <1>7, <3>1 DEF RxData
    <3> QED  BY <3>2
  <2>5. \A c \in Chans : given'[c] = <<>>
    <3> HIDE DEF rx
    <3>1. CASE f.complete /\ Len(rx) <= RxSize
      <4>1. given' = [given EXCEPT ![c0] = <<>>]
        BY <2>2, <2>4, <3>1
      <4> QED  BY <1>1, <4>1
    <3>2. CASE ~(f.complete /\ Len(rx) <= RxSize)
      BY <1>1, <2>4, <3>2
    <3> QED  BY <3>1, <3>2
  <2> HIDE DEF k
  <2> QED  BY <1>1, <1>6, <1>7, <2>2, <2>3, <2>4, <2>5
<1>8. CASE f.type = "connected" /\ RxConnected(f) /\ blocked' = blocked /\ given' = given
  <2> DEFINE k == [h EXCEPT !.server = f.src, !.waits = FALSE]
  <2>1. 1 \in At(frames, c0, "connected")
    BY <1>3, <1>8 DEF At
  <2>2. Matching(k, Tail(frames), peer, c0)
    BY <1>1, <1>2, <1>3, <1>4, <2>1, RxConnectedFacts
  <2>3. k \in Chan /\ OutOK(k.tx)
    BY <1>3, <1>4 DEF Chan
  <2>4. chan' = [chan EXCEPT ![c0] = k]
    BY <1>8 DEF RxConnected
  <2> HIDE DEF k
  <2> QED  BY <1>1, <1>6, <1>8, <2>2, <2>3, <2>4
<1>9. CASE f.type = "disconnect" /\ RxDisconnect(f) /\ blocked' = blocked /\ given' = given
  <2> DEFINE k == [h EXCEPT !.server = Nobody, !.rx = <<>>, !.tx = Empty]
  <2>1. 1 \in At(frames, c0, "disconnect")
    BY <1>3, <1>9 DEF At
  <2>2. h.server = f.src /\ Matching(k, Tail(frames), peer, c0)
    <3> HIDE DEF h, c0, f
    <3> QED  BY <1>1, <1>2, <1>3, <1>4, <2>1, RxDisconnectFacts
  <2>3. k \in Chan /\ OutOK(k.tx)
    <3> HIDE DEF h
    <3>1. Empty \in Outs /\ OutOK(Empty) /\ <<>> \in Seq(Parts)
      BY OutFacts
    <3> QED  BY <1>4, <3>1 DEF Chan
  <2>4. chan' = [chan EXCEPT ![c0] = k]
    BY <1>9, <2>2 DEF RxDisconnect
  <2> HIDE DEF k
  <2> QED  BY <1>1, <1>6, <1>9, <2>2, <2>3, <2>4
<1>10. CASE /\ f.type \in {"xoff", "xon"} /\ (RxXoff(f) \/ RxXon(f))
            /\ chan' = chan /\ given' = given
  <2>1. blocked' \subseteq Servers
    BY <1>2, <1>3, <1>10 DEF RxXoff, RxXon
  <2>2. Types'
    BY <1>1, <1>10, <2>1, QueueFacts DEF Types
  <2> QED  BY <1>1, <1>5, <1>10, <2>2 DEF WholeInv
<1> QED  BY <1>7, <1>8, <1>9, <1>10 DEF Rx

\* An idle channel sends a message.
LEMMA SayWhole ==
    ASSUME MuxDataParameters, Unasked = FALSE, WholeInv, NEW c0 \in Chans, Say(c0, Long)
    PROVE  WholeInv'
<1> DEFINE h == chan[c0]
           k == [h EXCEPT !.tx = Start(Long), !.waits = TRUE]
<1>1. /\ Types /\ last' = last /\ blocked' = blocked /\ frames' = frames /\ peer' = peer /\ given' = given
      /\ \A c \in Chans : Matching(chan[c], frames, peer, c) /\ given[c] = <<>>
      /\ \A r \in Servers : Begins(peer[r].parts)
      /\ h.server # Nobody /\ h.tx.n = 0 /\ ~h.waits
      /\ chan' = [chan EXCEPT ![c0] = k]
  BY DEF WholeInv, Say
<1>2. /\ frames \in Seq(Frames) /\ h \in Chan /\ OutOK(h.tx) /\ \A r \in Servers : peer[r] \in Peer
      /\ chan \in [Chans -> Chan] /\ \A c \in Chans : OutOK(chan[c].tx)
  BY <1>1, StateFacts DEF Types
<1>3. Long \in Nat \ {0}
  BY DEF MuxDataParameters
<1>4. Matching(k, frames, peer, c0)
  BY <1>1, <1>2, <1>3, SayFacts
<1>5. k \in Chan /\ OutOK(k.tx)
  BY <1>2, <1>3, OutFacts DEF Chan
<1> HIDE DEF k, h
<1>6. chan' \in [Chans -> Chan] /\ chan'[c0] = k /\ \A c \in Chans \ {c0} : chan'[c] = chan[c]
  BY <1>1, <1>2, <1>5
<1>7. \A c \in Chans : OutOK(chan'[c].tx)
  BY <1>2, <1>5, <1>6
<1>8. Types'
  BY <1>1, <1>6, <1>7 DEF Types
<1>9. \A c \in Chans : Matching(chan'[c], frames', peer', c)
  BY <1>1, <1>4, <1>6
<1> QED  BY <1>1, <1>8, <1>9 DEF WholeInv

\* The next channel is one that is ready; there is none only if none is ready.
LEMMA NextReadyFacts ==
    ASSUME Types, MuxDataParameters
    PROVE  NextReady = 0 \/ (NextReady \in 1 .. Len(Channels) /\ Ready(NextReady))
<1> DEFINE ready == {n \in last + 1 .. Len(Channels) : Ready(n)}
<1>1. last \in Nat /\ Len(Channels) \in Nat
  BY DEF Types, MuxDataParameters
<1>2. CASE ready = {}
  BY <1>2, Zenon DEF NextReady
<1>3. CASE ready # {}
  <2>1. ready \in SUBSET Nat
    BY <1>1
  <2>2. \E n \in ready : \A m \in ready : n <= m
    <3> HIDE DEF ready
    <3> QED  BY <1>3, <2>1, Least
  <2>3. NextReady = CHOOSE n \in ready : \A m \in ready : n <= m
    BY <1>3, Zenon DEF NextReady
  <2>4. NextReady \in ready
    <3> HIDE DEF ready
    <3> QED  BY <2>2, <2>3
  <2> QED  BY <1>1, <2>4
<1> QED  BY <1>2, <1>3

\* A frame is sent, of a channel that is connected.
LEMMA TransmitWhole ==
    ASSUME MuxDataParameters, WholeInv, NEW c0 \in Chans, chan[c0].tx.n > 0,
           Transmit(c0), last' \in 0 .. Len(Channels), UNCHANGED <<blocked, frames, given>>
    PROVE  WholeInv'
<1> DEFINE h == chan[c0]
           r0 == h.server
           k == [h EXCEPT !.tx = Advance(@)]
           o == [peer[r0] EXCEPT !.parts = Received(@, NextPart(h.tx)),
                                 !.asked = IF h.tx.sent + 1 = h.tx.n THEN 1 ELSE @]
<1>1. /\ Types /\ blocked' = blocked /\ frames' = frames /\ given' = given
      /\ \A c \in Chans : Matching(chan[c], frames, peer, c) /\ given[c] = <<>>
      /\ \A r \in Servers : Begins(peer[r].parts)
  BY DEF WholeInv
<1>2. /\ frames \in Seq(Frames) /\ h \in Chan /\ OutOK(h.tx) /\ RxSize \in Nat \ {0} /\ Nobody \notin Servers
      /\ \A r \in Servers : peer[r] \in Peer /\ OutOK(peer[r].out)
      /\ chan \in [Chans -> Chan] /\ \A c \in Chans : OutOK(chan[c].tx)
      /\ peer \in [Servers -> Peer]
  BY <1>1, StateFacts DEF Types
<1>3. Matching(h, frames, peer, c0) /\ Owned(h, frames, c0)
  BY <1>1 DEF Matching
<1>4. h.tx \in Outs /\ h.tx.n # 0 /\ r0 \in Servers
  <2>1. h.tx \in Outs /\ h.tx.n # 0 /\ r0 \in Servers \cup {Nobody}
    BY <1>2 DEF Chan, Outs
  <2> QED  BY <1>3, <2>1 DEF Owned
<1>5. chan' = [chan EXCEPT ![c0] = k]
  <2>1. chan' = [chan EXCEPT ![c0].tx = Advance(h.tx)]
    BY DEF Transmit
  <2> QED  BY <2>1
<1>6. /\ peer[r0].client # c0 => peer' = peer
      /\ peer[r0].client = c0 => peer' = [peer EXCEPT ![r0] = o]
  BY DEF Transmit
<1>7. k \in Chan /\ OutOK(k.tx) /\ k.tx = Advance(h.tx)
  <2>1. Advance(h.tx) \in Outs /\ OutOK(Advance(h.tx))
    BY <1>2, <1>4, OutFacts
  <2> QED  BY <1>2, <2>1 DEF Chan
<1>8. o \in Peer /\ o.client = peer[r0].client /\ o.out = peer[r0].out
  <2> DEFINE w == Received(peer[r0].parts, NextPart(h.tx))
             y == IF h.tx.sent + 1 = h.tx.n THEN 1 ELSE peer[r0].asked
  <2>1. NextPart(h.tx) \in Parts
    BY <1>4 DEF NextPart, Part, Parts, Outs
  <2>2. w \in Seq(Parts)
    BY <1>2, <1>4, <2>1 DEF Received, Peer
  <2>3. y \in Nat
    BY <1>2, <1>4 DEF Peer
  <2>4. o = [peer[r0] EXCEPT !.parts = w, !.asked = y]
    OBVIOUS
  <2> HIDE DEF w, y, o
  <2> QED  BY <1>2, <1>4, <2>2, <2>3, <2>4 DEF Peer
<1>9. /\ \A s \in Servers : s # r0 => peer'[s] = peer[s]
      /\ peer[r0].client = c0 => peer'[r0] = o
      /\ peer[r0].client # c0 => peer'[r0] = peer[r0]
      /\ peer' \in [Servers -> Peer]
  <2> HIDE DEF o, r0
  <2> QED  BY <1>2, <1>4, <1>6, <1>8
<1>10. Matching(k, frames, peer', c0)
  BY <1>2, <1>3, <1>4, <1>9, TransmitFacts, ZenonT(60)
<1>11. \A s \in Servers : peer'[s].client = peer[s].client /\ peer'[s].out = peer[s].out
  <2> HIDE DEF o, r0
  <2> QED  BY <1>8, <1>9
<1> HIDE DEF k, o
<1>12. chan' \in [Chans -> Chan] /\ chan'[c0] = k /\ \A c \in Chans \ {c0} : chan'[c] = chan[c]
  BY <1>2, <1>5, <1>7
<1>13. Types'
  <2>1. \A c \in Chans : OutOK(chan'[c].tx)
    BY <1>2, <1>7, <1>12
  <2>2. \A s \in Servers : OutOK(peer'[s].out)
    BY <1>2, <1>11
  <2> QED  BY <1>1, <1>9, <1>12, <2>1, <2>2 DEF Types
<1>14. ASSUME NEW c \in Chans PROVE Matching(chan'[c], frames', peer', c)
  <2>1. CASE c = c0
    BY <1>1, <1>10, <1>12, <2>1
  <2>2. CASE c # c0
    <3>1. ASSUME NEW s \in Servers, peer'[s].client = c
          PROVE  peer'[s] = peer[s]
      BY <1>9, <1>11, <2>2, <3>1
    <3> QED  BY <1>1, <1>12, <2>2, <3>1, PeersKeep
  <2> QED  BY <2>1, <2>2
<1>15. ASSUME NEW s \in Servers PROVE Begins(peer'[s].parts)
  <2>1. CASE peer'[s] = peer[s]
    BY <1>1, <2>1
  <2>2. CASE peer'[s] # peer[s]
    <3>1. s = r0 /\ peer'[s].client = c0
      BY <1>8, <1>9, <1>11, <2>2
    <3>2. peer'[s].parts = First(k.tx.sent, k.tx.n)
      BY <1>10, <3>1 DEF Matching, Peered, Serves
    <3>3. k.tx.sent \in Nat /\ k.tx.n \in Nat
      BY <1>7 DEF Chan, Outs
    <3>4. Begins(First(k.tx.sent, k.tx.n))
      BY <3>3, FirstFacts
    <3> QED  BY <3>2, <3>4, Zenon
  <2> QED  BY <2>1, <2>2
<1> QED  BY <1>1, <1>13, <1>14, <1>15 DEF WholeInv

\* A frame is sent, or none is ready to be.
LEMMA TxWhole ==
    ASSUME MuxDataParameters, WholeInv, Tx
    PROVE  WholeInv'
<1>1. last' = NextReady /\ UNCHANGED <<blocked, frames, given>> /\ Types
  BY DEF Tx, WholeInv
<1>2. CASE last' = 0
  <2>1. UNCHANGED <<chan, blocked, frames, peer, given>>
    BY <1>2 DEF Tx
  <2>2. last' \in 0 .. Len(Channels)
    BY <1>2 DEF MuxDataParameters
  <2> QED  BY <2>1, <2>2 DEF WholeInv, Types
<1>3. CASE last' # 0
  <2>1. last' \in 1 .. Len(Channels) /\ Ready(last')
    BY <1>1, <1>3, NextReadyFacts
  <2>2. Channels[last'] \in Chans /\ chan[Channels[last']].tx.n > 0
    BY <2>1 DEF Chans, Ready
  <2>3. Transmit(Channels[last'])
    BY <1>3 DEF Tx
  <2>4. last' \in 0 .. Len(Channels)
    BY <2>1 DEF MuxDataParameters
  <2> QED  BY <1>1, <2>2, <2>3, <2>4, TransmitWhole
<1> QED  BY <1>2, <1>3

\* The state after a remote server r has changed to o, and has sent f or nothing
LEMMA RemoteKeeps ==
    ASSUME MuxDataParameters, WholeInv, NEW r \in Servers, NEW o \in Peer, OutOK(o.out),
           peer' = [peer EXCEPT ![r] = o], UNCHANGED <<chan, last, blocked, given>>,
           Begins(o.parts), NEW c0 \in Chans,
           o.client \in {Nobody, c0}, peer[r].client \in {Nobody, c0},
           \/ frames' = frames
           \/ \E f \in Frames : FrameOK(f) /\ f.dest = c0 /\ frames' = Append(frames, f),
           Matching(chan[c0], frames', peer', c0)
    PROVE  WholeInv'
<1>1. /\ Types /\ \A c \in Chans : Matching(chan[c], frames, peer, c) /\ given[c] = <<>>
      /\ \A s \in Servers : Begins(peer[s].parts)
  BY DEF WholeInv
<1>2. /\ frames \in Seq(Frames) /\ Nobody \notin Chans /\ peer \in [Servers -> Peer]
      /\ \A s \in Servers : OutOK(peer[s].out)
  BY <1>1, StateFacts DEF MuxDataParameters, Types
<1>3. peer' \in [Servers -> Peer] /\ peer'[r] = o /\ \A s \in Servers \ {r} : peer'[s] = peer[s]
  BY <1>2
<1>4. \A s \in Servers : OutOK(peer'[s].out) /\ Begins(peer'[s].parts)
  BY <1>1, <1>2, <1>3
<1>5. frames' \in Seq(Signals \cup Carriers) /\ \A i \in DOMAIN frames' : FrameOK(frames'[i])
  <2>1. CASE frames' = frames
    BY <1>1, <2>1 DEF Types
  <2>2. CASE \E f \in Frames : FrameOK(f) /\ f.dest = c0 /\ frames' = Append(frames, f)
    BY <1>1, <2>2, QueueFacts DEF Frames
  <2> QED  BY <2>1, <2>2
<1>6. Types'
  BY <1>1, <1>3, <1>4, <1>5 DEF Types
<1>7. ASSUME NEW c \in Chans PROVE Matching(chan'[c], frames', peer', c)
  <2>1. CASE c = c0
    BY <2>1
  <2>2. CASE c # c0
    <3>1. Matching(chan[c], frames', peer, c)
      <4>1. CASE frames' = frames
        BY <1>1, <4>1
      <4>2. CASE \E f \in Frames : FrameOK(f) /\ f.dest = c0 /\ frames' = Append(frames, f)
        BY <1>1, <1>2, <2>2, <4>2, AppendKeeps
      <4> QED  BY <4>1, <4>2
    <3>2. \A s \in Servers : peer'[s].client = c => peer'[s] = peer[s]
      BY <1>2, <1>3, <2>2
    <3>3. Matching(chan[c], frames', peer', c)
      BY <3>1, <3>2, PeersKeep, ZenonT(60)
    <3> QED  BY <3>3
  <2> QED  BY <2>1, <2>2
<1> QED  BY <1>1, <1>4, <1>6, <1>7 DEF WholeInv

\* A remote server accepts a connection.
LEMMA RemoteConnectsWhole ==
    ASSUME MuxDataParameters, WholeInv, NEW r \in Servers, NEW c0 \in Chans, RemoteConnects(r, c0),
           UNCHANGED <<chan, last, blocked, given>>
    PROVE  WholeInv'
<1> DEFINE f == [type |-> "connected", src |-> r, dest |-> c0]
           o == [peer[r] EXCEPT !.client = c0, !.parts = <<>>, !.asked = 0,
                                !.stopped = FALSE, !.out = Empty]
<1>1. /\ chan[c0].server = Nobody
      /\ \A n \in 1 .. Len(frames) : frames[n].dest = c0 => frames[n].type # "connected"
      /\ \A s \in Servers : peer[s].client # c0
      /\ peer[r].client = Nobody /\ frames' = Append(frames, f) /\ peer' = [peer EXCEPT ![r] = o]
  BY DEF RemoteConnects, Sends, Asks
<1>2. /\ Types /\ Matching(chan[c0], frames, peer, c0)
      /\ frames \in Seq(Frames) /\ chan[c0] \in Chan /\ OutOK(chan[c0].tx)
      /\ peer[r] \in Peer /\ peer \in [Servers -> Peer]
  BY StateFacts DEF WholeInv, Types
<1>3. At(frames, c0, "connected") = {}
  BY <1>1, <1>2, SMTT(40) DEF At
<1>4. f \in Frames /\ FrameOK(f) /\ f.type = "connected" /\ f.src = r /\ f.dest = c0
  BY DEF Frames, Signals, FrameOK
<1>5. /\ o \in Peer /\ o.client = c0 /\ o.parts = <<>> /\ o.asked = 0 /\ o.out = Empty
      /\ OutOK(o.out) /\ Begins(o.parts)
  <2>1. Empty \in Outs /\ OutOK(Empty) /\ <<>> \in Seq(Parts)
    BY OutFacts
  <2>2. o \in Peer /\ o.client = c0 /\ o.parts = <<>> /\ o.asked = 0 /\ o.out = Empty
    BY <1>2, <2>1 DEF Peer
  <2> QED  BY <2>1, <2>2 DEF Begins
<1> HIDE DEF f, o
<1>6. peer'[r] = o /\ \A s \in Servers \ {r} : peer'[s] = peer[s]
  BY <1>1, <1>2
<1>7. Matching(chan[c0], frames', peer', c0)
  BY <1>1, <1>2, <1>3, <1>4, <1>5, <1>6, RemoteConnectsFacts
<1> QED  BY <1>1, <1>4, <1>5, <1>7, RemoteKeeps

\* A remote server disconnects.
LEMMA RemoteDisconnectsWhole ==
    ASSUME MuxDataParameters, WholeInv, NEW r \in Servers, RemoteDisconnects(r),
           UNCHANGED <<chan, last, blocked, given>>
    PROVE  WholeInv'
<1> DEFINE c0 == peer[r].client
           f == [type |-> "disconnect", src |-> r, dest |-> c0]
           o == [peer[r] EXCEPT !.client = Nobody]
<1>1. c0 # Nobody /\ frames' = Append(frames, f) /\ peer' = [peer EXCEPT ![r] = o]
  BY DEF RemoteDisconnects, Sends, Frame
<1>2. /\ Types /\ peer[r] \in Peer /\ OutOK(peer[r].out) /\ Begins(peer[r].parts)
      /\ peer \in [Servers -> Peer] /\ frames \in Seq(Frames)
  BY StateFacts DEF WholeInv, Types
<1>3. c0 \in Chans
  BY <1>1, <1>2 DEF Peer
<1>4. Matching(chan[c0], frames, peer, c0) /\ chan[c0] \in Chan
  BY <1>2, <1>3, StateFacts DEF WholeInv
<1>5. f \in Frames /\ FrameOK(f) /\ f.type = "disconnect" /\ f.src = r /\ f.dest = c0
  BY <1>3 DEF Frames, Signals, FrameOK
<1>6. /\ o \in Peer /\ o.client = Nobody /\ OutOK(o.out) /\ Begins(o.parts)
  BY <1>2 DEF Peer
<1> HIDE DEF f, o
<1>7. peer'[r] = o /\ \A s \in Servers \ {r} : peer'[s] = peer[s]
  BY <1>1, <1>2
<1>8. Matching(chan[c0], frames', peer', c0)
  <2>1. peer'[r].client # c0
    BY <1>1, <1>6, <1>7
  <2> HIDE DEF c0
  <2>2. peer[r].client = c0
    BY DEF c0
  <2> QED  BY <1>1, <1>2, <1>3, <1>4, <1>5, <1>7, <2>1, <2>2, RemoteDisconnectsFacts
<1>9. peer[r].client \in {Nobody, c0} /\ o.client \in {Nobody, c0}
  BY <1>6
<1> HIDE DEF c0
<1> QED  BY <1>1, <1>3, <1>5, <1>6, <1>8, <1>9, RemoteKeeps

\* A remote server stops or restarts a channel.
LEMMA RemoteStopsWhole ==
    ASSUME MuxDataParameters, WholeInv, NEW r \in Servers, RemoteStops(r),
           UNCHANGED <<chan, last, blocked, given>>
    PROVE  WholeInv'
<1> DEFINE c0 == peer[r].client
           t == IF peer[r].stopped THEN "xon" ELSE "xoff"
           f == [type |-> t, src |-> r, dest |-> c0]
           o == [peer[r] EXCEPT !.stopped = ~@]
<1>1. c0 # Nobody /\ frames' = Append(frames, f) /\ peer' = [peer EXCEPT ![r] = o]
  <2>1. peer' = [peer EXCEPT ![r].stopped = ~@]
    BY DEF RemoteStops
  <2> QED  BY <2>1 DEF RemoteStops, Sends, Frame
<1>2. /\ Types /\ peer[r] \in Peer /\ OutOK(peer[r].out) /\ Begins(peer[r].parts)
      /\ peer \in [Servers -> Peer] /\ frames \in Seq(Frames)
  BY StateFacts DEF WholeInv, Types
<1>3. c0 \in Chans /\ t \in {"xoff", "xon"}
  BY <1>1, <1>2 DEF Peer
<1>4. Matching(chan[c0], frames, peer, c0)
  BY <1>2, <1>3 DEF WholeInv
<1> HIDE DEF t
<1>5. f \in Frames /\ FrameOK(f) /\ f.type \in {"xoff", "xon"} /\ f.dest = c0
  BY <1>3 DEF Frames, Signals, FrameOK
<1>6. /\ o \in Peer /\ o.client = c0 /\ OutOK(o.out) /\ Begins(o.parts)
      /\ o.parts = peer[r].parts /\ o.asked = peer[r].asked /\ o.out = peer[r].out
  BY <1>2 DEF Peer
<1> HIDE DEF f, o
<1>7. peer'[r] = o /\ \A s \in Servers \ {r} : peer'[s] = peer[s]
  BY <1>1, <1>2
<1>8. peer[r].client = c0 /\ o.client \in {Nobody, c0}
  BY <1>6
<1> HIDE DEF c0
<1>9. Matching(chan[c0], frames', peer, c0)
  BY <1>1, <1>2, <1>4, <1>5, AppendKeeps
<1>10. \A s \in Servers : peer'[s].client = c0 =>
          /\ peer[s].client = c0 /\ peer'[s].parts = peer[s].parts
          /\ peer'[s].asked = peer[s].asked /\ peer'[s].out = peer[s].out
  BY <1>6, <1>7, <1>8
<1>11. Matching(chan[c0], frames', peer', c0)
  BY <1>9, <1>10, PeersKeep
<1> QED  BY <1>1, <1>3, <1>5, <1>6, <1>8, <1>11, RemoteKeeps

\* A remote server answers what it was asked.
LEMMA RemoteRepliesWhole ==
    ASSUME MuxDataParameters, Unasked = FALSE, WholeInv, NEW r \in Servers, NEW n \in 1 .. Long,
           RemoteReplies(r, n), UNCHANGED <<chan, last, blocked, given>>
    PROVE  WholeInv'
<1> DEFINE c0 == peer[r].client
           o == [peer[r] EXCEPT !.out = Start(n), !.asked = 0]
<1>1. c0 # Nobody /\ peer[r].asked > 0 /\ frames' = frames /\ peer' = [peer EXCEPT ![r] = o]
  BY DEF RemoteReplies
<1>2. /\ Types /\ peer[r] \in Peer /\ OutOK(peer[r].out) /\ Begins(peer[r].parts)
      /\ peer \in [Servers -> Peer] /\ frames \in Seq(Frames)
  BY StateFacts DEF WholeInv, Types
<1>3. c0 \in Chans /\ n \in Nat \ {0}
  BY <1>1, <1>2 DEF Peer, MuxDataParameters
<1>4. Matching(chan[c0], frames, peer, c0) /\ chan[c0] \in Chan
  BY <1>2, <1>3, StateFacts DEF WholeInv
<1>5. /\ o \in Peer /\ o.client = c0 /\ OutOK(o.out) /\ Begins(o.parts)
      /\ o.parts = peer[r].parts /\ o.asked = 0 /\ o.out = Start(n)
  <2>1. Start(n) \in Outs /\ OutOK(Start(n))
    BY <1>3, OutFacts
  <2> QED  BY <1>2, <2>1 DEF Peer
<1> HIDE DEF o
<1>6. peer'[r] = o /\ \A s \in Servers \ {r} : peer'[s] = peer[s]
  BY <1>1, <1>2
<1>7. peer[r].client = c0 /\ o.client \in {Nobody, c0}
  BY <1>5
<1> HIDE DEF c0
<1>8. Matching(chan[c0], frames', peer', c0)
  BY <1>1, <1>2, <1>3, <1>4, <1>5, <1>6, <1>7, RemoteRepliesFacts
<1> QED  BY <1>1, <1>3, <1>5, <1>7, <1>8, RemoteKeeps

\* A remote server sends a frame of its answer.
LEMMA RemoteSendsWhole ==
    ASSUME MuxDataParameters, WholeInv, NEW r \in Servers, RemoteSends(r),
           UNCHANGED <<chan, last, blocked, given>>
    PROVE  WholeInv'
<1> DEFINE c0 == peer[r].client
           x == peer[r].out
           f == [type |-> "data", src |-> r, dest |-> c0,
                 complete |-> x.sent + 1 = x.n, part |-> NextPart(x)]
           o == [peer[r] EXCEPT !.out = Advance(@)]
<1>1. c0 # Nobody /\ x.n > 0 /\ frames' = Append(frames, f) /\ peer' = [peer EXCEPT ![r] = o]
  <2>1. peer' = [peer EXCEPT ![r].out = Advance(@)]
    BY DEF RemoteSends
  <2> QED  BY <2>1 DEF RemoteSends, Sends
<1>2. /\ Types /\ peer[r] \in Peer /\ OutOK(x) /\ Begins(peer[r].parts)
      /\ peer \in [Servers -> Peer] /\ frames \in Seq(Frames)
      /\ \A c : \A i \in Data(frames, c) : frames[i].part \in Parts
  BY StateFacts DEF WholeInv, Types, Carriers
<1>3. c0 \in Chans /\ x \in Outs /\ x.n # 0
  BY <1>1, <1>2 DEF Peer, Outs
<1>4. Matching(chan[c0], frames, peer, c0) /\ chan[c0] \in Chan
  BY <1>2, <1>3, StateFacts DEF WholeInv
<1>5. /\ NextPart(x) = Part(x.sent + 1, x.n) /\ x.sent + 1 \in 1 .. x.n
      /\ Advance(x) \in Outs /\ OutOK(Advance(x)) /\ x.n \in Nat /\ x.sent \in Nat
  BY <1>2, <1>3, OutFacts DEF Outs
<1>6. /\ f \in Carriers /\ FrameOK(f)
      /\ f.type = "data" /\ f.src = r /\ f.dest = c0 /\ f.part = NextPart(x)
  <2>1. NextPart(x) \in Parts /\ NextPart(x).k = x.sent + 1 /\ NextPart(x).n = x.n
    BY <1>5 DEF Part, Parts
  <2>2. (x.sent + 1 = x.n) \in BOOLEAN
    OBVIOUS
  <2>3. f \in Carriers
    BY <1>3, <2>1, <2>2 DEF Carriers
  <2>4. FrameOK(f)
    BY <1>5, <2>1 DEF FrameOK
  <2> QED  BY <2>3, <2>4
<1>7. /\ o \in Peer /\ o.client = c0 /\ OutOK(o.out) /\ Begins(o.parts)
      /\ o.parts = peer[r].parts /\ o.asked = peer[r].asked /\ o.out = Advance(x)
  BY <1>2, <1>5 DEF Peer
<1> HIDE DEF f, o
<1>8. peer'[r] = o /\ \A s \in Servers \ {r} : peer'[s] = peer[s]
  BY <1>1, <1>2
<1>9. peer[r].client = c0 /\ o.client \in {Nobody, c0} /\ peer[r].out = x
  BY <1>7
<1> HIDE DEF c0, x
<1>10. Matching(chan[c0], frames', peer', c0)
  BY <1>1, <1>2, <1>3, <1>4, <1>6, <1>7, <1>8, <1>9, RemoteSendsFacts
<1>11. f \in Frames
  BY <1>6 DEF Frames
<1> QED  BY <1>1, <1>3, <1>6, <1>7, <1>9, <1>10, <1>11, RemoteKeeps

-----------------------------------------------------------------------------
(* Messages are whole *)

\* A step keeps the invariant.
LEMMA StepWhole ==
    ASSUME MuxDataParameters, Unasked = FALSE, WholeInv, [MuxNext]_mvars
    PROVE  WholeInv'
<1>1. CASE Rx
  BY <1>1, RxWhole
<1>2. CASE Tx
  BY <1>2, TxWhole
<1>3. ASSUME NEW c \in Chans, Say(c, Long) PROVE WholeInv'
  BY <1>3, SayWhole
<1>4. ASSUME NEW r \in Servers, Remote(r) PROVE WholeInv'
  <2>1. UNCHANGED <<chan, last, blocked, given>>
    BY <1>4 DEF Remote
  <2>2. ASSUME NEW c \in Chans, RemoteConnects(r, c) PROVE WholeInv'
    BY <2>1, <2>2, RemoteConnectsWhole
  <2>3. CASE RemoteDisconnects(r)
    BY <2>1, <2>3, RemoteDisconnectsWhole
  <2>4. CASE RemoteStops(r)
    BY <2>1, <2>4, RemoteStopsWhole
  <2>5. CASE RemoteSends(r)
    BY <2>1, <2>5, RemoteSendsWhole
  <2>6. ASSUME NEW n \in 1 .. Long, RemoteReplies(r, n) PROVE WholeInv'
    BY <2>1, <2>6, RemoteRepliesWhole
  <2> QED  BY <1>4, <2>2, <2>3, <2>4, <2>5, <2>6 DEF Remote
<1>5. CASE UNCHANGED mvars
  BY <1>5 DEF mvars, WholeInv, Types
<1> QED  BY <1>1, <1>2, <1>3, <1>4, <1>5 DEF MuxNext

\* The frames of all channels, on their way and half received, are those of the
\* messages that were sent (mux_poll_rx_data_decoded, mux_poll_tx_data), when servers
\* only answer what they were asked.
THEOREM MuxInvariant ==
    ASSUME MuxDataParameters, Unasked = FALSE
    PROVE  MuxSpec => []WholeInv
<1>1. MuxInit => WholeInv
  BY InitWhole
<1>2. WholeInv /\ [MuxNext]_mvars => WholeInv'
  BY StepWhole
<1> QED  BY <1>1, <1>2, PTL DEF MuxSpec

\* So messages are whole, whatever connections are made and end in between.
THEOREM MessagesWhole ==
    ASSUME MuxDataParameters, Unasked = FALSE
    PROVE  MuxSpec => []WholeOK
<1>1. WholeInv => WholeOK
  BY DEF WholeInv, WholeOK
<1> QED  BY <1>1, MuxInvariant, PTL

-----------------------------------------------------------------------------
(* Channels are stopped while their servers want it *)

\* The places in the queue of what r says of stopping
Said(q, r) == {i \in DOMAIN q : q[i].src = r /\ q[i].type \in {"xoff", "xon"}}

\* The last thing it says, or what is known when it says nothing, is what it wants;
\* without a client it wants nothing.
Stops(q, known, s, r) ==
    /\ Said(q, r) = {} => (known <=> s.stopped)
    /\ \A i \in Said(q, r) : (\A j \in Said(q, r) : j <= i) => (q[i].type = "xoff" <=> s.stopped)
    /\ s.client = Nobody => ~s.stopped

StopInv == \A r \in Servers : Stops(frames, r \in blocked, peer[r], r)

\* u is the queue q with the frame f at place e, for what r says.
Says(q, u, f, e, r) ==
    /\ u[e] = f
    /\ \A i \in Said(q, r) : i \in Nat /\ i < e /\ u[i] = q[i]
    /\ f.src = r /\ f.type \in {"xoff", "xon"} => Said(u, r) = Said(q, r) \cup {e}
    /\ f.src # r \/ f.type \notin {"xoff", "xon"} => Said(u, r) = Said(q, r)

\* Said of a queue without its head, and with one more
LEMMA SaidFacts ==
    ASSUME NEW q \in Seq(Frames), NEW r
    PROVE  /\ q # <<>> =>
              /\ \A i \in Said(Tail(q), r) : i \in Nat \ {0} /\ i + 1 \in Said(q, r) /\ Tail(q)[i] = q[i + 1]
              /\ \A i \in Said(q, r) : i \in Nat /\ (i = 1 \/ i - 1 \in Said(Tail(q), r))
           /\ \A f \in Frames : \E e \in Nat : Says(q, Append(q, f), f, e, r)
<1>1. Len(q) \in Nat /\ DOMAIN q = 1 .. Len(q)
  OBVIOUS
<1>2. ASSUME q # <<>>
      PROVE  /\ \A i \in Said(Tail(q), r) : i \in Nat \ {0} /\ i + 1 \in Said(q, r) /\ Tail(q)[i] = q[i + 1]
             /\ \A i \in Said(q, r) : i \in Nat /\ (i = 1 \/ i - 1 \in Said(Tail(q), r))
  <2> DEFINE u == Tail(q)
  <2>1. DOMAIN u = 1 .. Len(q) - 1 /\ \A i \in 1 .. Len(q) - 1 : u[i] = q[i + 1]
    BY <1>2
  <2> HIDE DEF u
  <2>2. ASSUME NEW i \in Said(u, r)
        PROVE  i \in Nat \ {0} /\ i + 1 \in Said(q, r) /\ u[i] = q[i + 1]
    BY <1>1, <2>1 DEF Said
  <2>3. ASSUME NEW i \in Said(q, r), i # 1 PROVE i - 1 \in Said(u, r)
    <3>1. i - 1 \in 1 .. Len(q) - 1 /\ (i - 1) + 1 = i
      BY <1>1, <2>3 DEF Said
    <3>2. u[i - 1] = q[i]
      BY <2>1, <3>1
    <3> QED  BY <2>1, <3>1, <3>2 DEF Said
  <2>4. \A i \in Said(q, r) : i \in Nat
    BY <1>1 DEF Said
  <2> QED  BY <2>2, <2>3, <2>4 DEF u
<1>3. ASSUME NEW f \in Frames
      PROVE  \E e \in Nat : Says(q, Append(q, f), f, e, r)
  <2> DEFINE e == Len(q) + 1
             u == Append(q, f)
  <2>1. DOMAIN u = 1 .. e /\ u[e] = f /\ (\A i \in 1 .. Len(q) : u[i] = q[i]) /\ e \in Nat
    OBVIOUS
  <2>2. 1 .. e = (1 .. Len(q)) \cup {e} /\ e \notin 1 .. Len(q)
    BY <1>1
  <2>3. \A i \in Said(q, r) : i \in Nat /\ i < e /\ u[i] = q[i]
    BY <1>1, <2>1 DEF Said
  <2> HIDE DEF e, u
  <2>4. ASSUME f.src = r, f.type \in {"xoff", "xon"} PROVE Said(u, r) = Said(q, r) \cup {e}
    BY <1>1, <2>1, <2>2, <2>4 DEF Said
  <2>5. ASSUME f.src # r \/ f.type \notin {"xoff", "xon"} PROVE Said(u, r) = Said(q, r)
    BY <1>1, <2>1, <2>2, <2>5 DEF Said
  <2>6. u[e] = f /\ e \in Nat
    BY <2>1
  <2>7. Says(q, u, f, e, r)
    BY <2>3, <2>4, <2>5, <2>6 DEF Says
  <2> QED  BY <2>6, <2>7 DEF u
<1> QED  BY <1>2, <1>3

\* A frame is received: what it says is known from then on.
LEMMA TailStops ==
    ASSUME NEW q \in Seq(Frames), q # <<>>, NEW r, NEW b \in BOOLEAN, NEW d \in BOOLEAN, NEW s,
           Stops(q, b, s, r),
           1 \in Said(q, r) => (d <=> q[1].type = "xoff"),
           1 \notin Said(q, r) => (d <=> b)
    PROVE  Stops(Tail(q), d, s, r)
<1> DEFINE u == Tail(q)
<1>1. /\ \A i \in Said(u, r) : i \in Nat \ {0} /\ i + 1 \in Said(q, r) /\ u[i] = q[i + 1]
      /\ \A i \in Said(q, r) : i \in Nat /\ (i = 1 \/ i - 1 \in Said(u, r))
  BY SaidFacts
<1> HIDE DEF u
<1>2. ASSUME Said(u, r) = {} PROVE d <=> s.stopped
  <2>1. CASE 1 \in Said(q, r)
    <3>1. \A j \in Said(q, r) : j <= 1
      BY <1>1, <1>2
    <3> QED  BY <2>1, <3>1 DEF Stops
  <2>2. CASE 1 \notin Said(q, r)
    <3>1. Said(q, r) = {}
      BY <1>1, <1>2, <2>2
    <3> QED  BY <2>2, <3>1 DEF Stops
  <2> QED  BY <2>1, <2>2
<1>3. ASSUME NEW i \in Said(u, r), \A j \in Said(u, r) : j <= i
      PROVE  u[i].type = "xoff" <=> s.stopped
  <2>1. ASSUME NEW j \in Said(q, r) PROVE j <= i + 1
    <3>1. j \in Nat /\ i \in Nat /\ (j = 1 \/ j - 1 <= i)
      BY <1>1, <1>3
    <3> QED  BY <3>1
  <2> QED  BY <1>1, <2>1 DEF Stops
<1> QED  BY <1>2, <1>3 DEF Stops, u

\* What says nothing of stopping leaves it as it was.
LEMMA StopsKeep ==
    ASSUME NEW q, NEW u, NEW r, NEW b, NEW s, NEW t, Stops(q, b, s, r),
           Said(u, r) = Said(q, r), \A i \in Said(q, r) : u[i] = q[i],
           t.stopped <=> s.stopped, t.client = Nobody => ~t.stopped
    PROVE  Stops(u, b, t, r)
BY DEF Stops

\* A channel is stopped exactly while its server wants it (mux_poll_rx_channel_stop,
\* mux_poll_rx_channel_start), when a server does not disconnect before it has said
\* that the channel may go on.
LEMMA StepStops ==
    ASSUME MuxDataParameters, Stale = FALSE, Types, StopInv, [MuxNext]_mvars
    PROVE  StopInv'
<1>1. /\ frames \in Seq(Frames) /\ \A r \in Servers : peer[r] \in Peer
      /\ peer \in [Servers -> Peer] /\ Nobody \notin Servers \cup Chans
  BY StateFacts DEF Types, MuxDataParameters
\* Nothing is said, and nobody wants anything else.
<1>2. ASSUME UNCHANGED <<frames, blocked>>,
             \A r \in Servers : peer'[r].stopped = peer[r].stopped /\ peer'[r].client = peer[r].client
      PROVE  StopInv'
  BY <1>2 DEF StopInv, Stops
\* A server r says f, and becomes o.
<1>3. ASSUME NEW r \in Servers, NEW o \in Peer, NEW f \in Frames, f.src = r,
             blocked' = blocked, peer' = [peer EXCEPT ![r] = o], frames' = Append(frames, f),
             o.client = Nobody => ~o.stopped,
             f.type \in {"xoff", "xon"} => (f.type = "xoff" <=> o.stopped),
             f.type \notin {"xoff", "xon"} => (o.stopped <=> peer[r].stopped)
      PROVE  StopInv'
  <2> SUFFICES ASSUME NEW s \in Servers
               PROVE  Stops(frames', s \in blocked, peer'[s], s)
    BY <1>3 DEF StopInv
  <2>1. PICK e \in Nat : Says(frames, frames', f, e, s)
    BY <1>1, <1>3, SaidFacts
  <2>2. Stops(frames, s \in blocked, peer[s], s)
    BY DEF StopInv
  <2>3. peer'[r] = o /\ \A t \in Servers \ {r} : peer'[t] = peer[t]
    BY <1>1, <1>3
  <2>4. CASE s = r /\ f.type \in {"xoff", "xon"}
    <3>1. Said(frames', s) = Said(frames, s) \cup {e} /\ frames'[e] = f
      BY <1>3, <2>1, <2>4 DEF Says
    <3>2. ASSUME NEW i \in Said(frames', s), \A j \in Said(frames', s) : j <= i PROVE i = e
      BY <2>1, <3>1, <3>2 DEF Says
    <3> QED  BY <1>3, <2>3, <2>4, <3>1, <3>2 DEF Stops
  <2>5. CASE s # r \/ f.type \notin {"xoff", "xon"}
    <3>1. Said(frames', s) = Said(frames, s) /\ \A i \in Said(frames, s) : frames'[i] = frames[i]
      BY <1>3, <2>1, <2>5 DEF Says
    <3>2. (peer'[s].stopped <=> peer[s].stopped) /\ (peer'[s].client = Nobody => ~peer'[s].stopped)
      <4>1. CASE s = r
        BY <1>3, <2>3, <2>5, <4>1
      <4>2. CASE s # r
        BY <2>2, <2>3, <4>2 DEF Stops
      <4> QED  BY <4>1, <4>2
    <3> QED  BY <2>2, <3>1, <3>2, StopsKeep
  <2> QED  BY <2>4, <2>5
<1>4. CASE Rx
  <2> DEFINE f == Head(frames)
  <2>1. frames # <<>> /\ frames' = Tail(frames) /\ peer' = peer /\ frames[1] = f /\ 1 \in DOMAIN frames
    BY <1>1, <1>4 DEF Rx
  <2>2. /\ f.type = "xoff" => blocked' = blocked \cup {f.src}
        /\ f.type = "xon" => blocked' = blocked \ {f.src}
        /\ f.type \notin {"xoff", "xon"} => blocked' = blocked
    BY <1>4 DEF Rx, RxXoff, RxXon
  <2> HIDE DEF f
  <2>3. ASSUME NEW s \in Servers PROVE Stops(frames', s \in blocked', peer'[s], s)
    <3>1. 1 \in Said(frames, s) => (s \in blocked' <=> frames[1].type = "xoff")
      BY <2>1, <2>2 DEF Said
    <3>2. 1 \notin Said(frames, s) => (s \in blocked' <=> s \in blocked)
      BY <2>1, <2>2 DEF Said
    <3>3. Stops(frames, s \in blocked, peer[s], s)
      BY DEF StopInv
    <3> DEFINE b == s \in blocked
               d == s \in blocked'
    <3>4. b \in BOOLEAN /\ d \in BOOLEAN
      OBVIOUS
    <3> HIDE DEF b, d
    <3>5. Stops(frames, b, peer[s], s)
      BY <3>3 DEF b
    <3>6. /\ 1 \in Said(frames, s) => (d <=> frames[1].type = "xoff")
          /\ 1 \notin Said(frames, s) => (d <=> b)
      BY <3>1, <3>2 DEF b, d
    <3>7. Stops(Tail(frames), d, peer[s], s)
      BY <1>1, <2>1, <3>4, <3>5, <3>6, TailStops
    <3> QED  BY <2>1, <3>7 DEF d
  <2> QED  BY <2>3 DEF StopInv
<1>5. CASE Tx
  <2>1. UNCHANGED <<frames, blocked>>
    BY <1>5 DEF Tx
  <2>2. ASSUME NEW r \in Servers
        PROVE  peer'[r].stopped = peer[r].stopped /\ peer'[r].client = peer[r].client
    <3>1. CASE peer' = peer
      BY <3>1
    <3>2. last' = 0 \/ Transmit(Channels[last'])
      BY <1>5 DEF Tx
    <3>3. CASE last' = 0
      BY <1>5, <3>1, <3>3 DEF Tx
    <3>4. CASE Transmit(Channels[last'])
      <4> DEFINE c == Channels[last']
      <4>1. \/ peer' = peer
            \/ peer' = [peer EXCEPT ![chan[c].server].parts = Received(@, NextPart(chan[c].tx)),
                                    ![chan[c].server].asked = IF chan[c].tx.sent + 1 = chan[c].tx.n THEN 1 ELSE @]
        BY <3>4 DEF Transmit
      <4>2. ASSUME NEW v, peer' = [peer EXCEPT ![v].parts = Received(@, NextPart(chan[c].tx)),
                                    ![v].asked = IF chan[c].tx.sent + 1 = chan[c].tx.n THEN 1 ELSE @]
            PROVE  peer'[r].stopped = peer[r].stopped /\ peer'[r].client = peer[r].client
        BY <1>1, <4>2 DEF Peer
      <4> QED  BY <3>1, <4>1, <4>2
    <3> QED  BY <3>2, <3>3, <3>4
  <2> QED  BY <1>2, <2>1, <2>2
<1>6. ASSUME NEW c \in Chans, Say(c, Long) PROVE StopInv'
  BY <1>2, <1>6 DEF Say
<1>7. ASSUME NEW r \in Servers, Remote(r) PROVE StopInv'
  <2>1. blocked' = blocked /\ Stops(frames, r \in blocked, peer[r], r)
    BY <1>7 DEF Remote, StopInv
  <2>2. ASSUME NEW c \in Chans, RemoteConnects(r, c) PROVE StopInv'
    <3> DEFINE o == [peer[r] EXCEPT !.client = c, !.parts = <<>>, !.asked = 0,
                                    !.stopped = FALSE, !.out = Empty]
               f == [type |-> "connected", src |-> r, dest |-> c]
    <3>1. peer' = [peer EXCEPT ![r] = o] /\ frames' = Append(frames, f) /\ peer[r].client = Nobody
      BY <2>2 DEF RemoteConnects, Sends
    <3>2. o \in Peer /\ o.stopped = FALSE
      <4>1. Empty \in Outs /\ <<>> \in Seq(Parts)
        BY OutFacts
      <4> QED  BY <1>1, <4>1 DEF Peer
    <3>3. f \in Frames /\ f.src = r /\ f.type \notin {"xoff", "xon"}
      BY DEF Frames, Signals
    <3> HIDE DEF o, f
    <3>4. ~peer[r].stopped
      BY <2>1, <3>1 DEF Stops
    <3> QED  BY <1>3, <2>1, <3>1, <3>2, <3>3, <3>4
  <2>3. CASE RemoteDisconnects(r)
    <3> DEFINE o == [peer[r] EXCEPT !.client = Nobody]
               f == [type |-> "disconnect", src |-> r, dest |-> peer[r].client]
    <3>1. /\ peer' = [peer EXCEPT ![r] = o] /\ frames' = Append(frames, f)
          /\ peer[r].client # Nobody /\ ~peer[r].stopped
      BY <2>3 DEF RemoteDisconnects, Sends, Frame
    <3>2. o \in Peer /\ o.stopped = peer[r].stopped
      BY <1>1 DEF Peer
    <3>3. f \in Frames /\ f.src = r /\ f.type \notin {"xoff", "xon"}
      BY <1>1, <3>1 DEF Frames, Signals, Peer
    <3> HIDE DEF o, f
    <3> QED  BY <1>3, <2>1, <3>1, <3>2, <3>3
  <2>4. CASE RemoteStops(r)
    <3> DEFINE t == IF peer[r].stopped THEN "xon" ELSE "xoff"
               o == [peer[r] EXCEPT !.stopped = ~@]
               f == [type |-> t, src |-> r, dest |-> peer[r].client]
    <3>1. /\ peer' = [peer EXCEPT ![r] = o] /\ frames' = Append(frames, f)
          /\ peer[r].client # Nobody
      <4>1. peer' = [peer EXCEPT ![r].stopped = ~@]
        BY <2>4 DEF RemoteStops
      <4> QED  BY <2>4, <4>1 DEF RemoteStops, Sends, Frame
    <3>2. o \in Peer /\ (o.stopped <=> ~peer[r].stopped) /\ o.client = peer[r].client
      BY <1>1 DEF Peer
    <3>3. t \in {"xoff", "xon"} /\ (t = "xoff" <=> ~peer[r].stopped)
      OBVIOUS
    <3> HIDE DEF t
    <3>4. f \in Frames /\ f.src = r /\ f.type = t
      BY <1>1, <3>1, <3>3 DEF Frames, Signals, Peer
    <3> HIDE DEF o, f
    <3> QED  BY <1>3, <2>1, <3>1, <3>2, <3>3, <3>4
  <2>5. CASE RemoteSends(r)
    <3> DEFINE x == peer[r].out
               o == [peer[r] EXCEPT !.out = Advance(@)]
               f == [type |-> "data", src |-> r, dest |-> peer[r].client,
                     complete |-> x.sent + 1 = x.n, part |-> NextPart(x)]
    <3>1. /\ peer' = [peer EXCEPT ![r] = o] /\ frames' = Append(frames, f)
          /\ peer[r].client # Nobody /\ x.n > 0
      <4>1. peer' = [peer EXCEPT ![r].out = Advance(@)]
        BY <2>5 DEF RemoteSends
      <4> QED  BY <2>5, <4>1 DEF RemoteSends, Sends
    <3>2. /\ x \in Outs /\ OutOK(x) /\ x.n # 0
      BY <1>1, <3>1, StateFacts DEF Peer, Outs
    <3>3. /\ NextPart(x) = Part(x.sent + 1, x.n) /\ Advance(x) \in Outs /\ x.n \in Nat /\ x.sent \in Nat
      BY <3>2, OutFacts DEF Outs
    <3>4. o \in Peer /\ o.stopped = peer[r].stopped /\ o.client = peer[r].client
      BY <1>1, <3>3 DEF Peer
    <3>5. f \in Frames /\ f.src = r /\ f.type \notin {"xoff", "xon"}
      <4>1. NextPart(x) \in Parts /\ (x.sent + 1 = x.n) \in BOOLEAN /\ peer[r].client \in Chans
        BY <1>1, <3>1, <3>3 DEF Part, Parts, Peer
      <4> QED  BY <4>1 DEF Frames, Carriers
    <3> HIDE DEF o, f
    <3> QED  BY <1>3, <2>1, <3>1, <3>4, <3>5
  <2>6. ASSUME NEW n \in 1 .. Long, RemoteReplies(r, n) PROVE StopInv'
    <3>1. frames' = frames /\ peer' = [peer EXCEPT ![r] = [@ EXCEPT !.out = Start(n), !.asked = 0]]
      BY <2>6 DEF RemoteReplies
    <3>2. \A s \in Servers : peer'[s].stopped = peer[s].stopped /\ peer'[s].client = peer[s].client
      BY <1>1, <3>1 DEF Peer
    <3> QED  BY <1>2, <2>1, <3>1, <3>2
  <2> QED  BY <1>7, <2>2, <2>3, <2>4, <2>5, <2>6 DEF Remote
<1>8. CASE UNCHANGED mvars
  BY <1>8 DEF mvars, StopInv
<1> QED  BY <1>4, <1>5, <1>6, <1>7, <1>8 DEF MuxNext

\* What channels carry is whole, and they carry it while they may.
THEOREM MuxSafe ==
    ASSUME MuxDataParameters, Unasked = FALSE, Stale = FALSE
    PROVE  MuxSpec => []MuxOK
<1>1. MuxInit => StopInv
  <2> SUFFICES ASSUME MuxInit, NEW r \in Servers PROVE Stops(frames, r \in blocked, peer[r], r)
    BY DEF StopInv
  <2>1. Said(frames, r) = {} /\ r \notin blocked /\ peer[r].stopped = FALSE
    BY DEF MuxInit, Said
  <2> QED  BY <2>1 DEF Stops
<1>2. WholeInv /\ StopInv /\ [MuxNext]_mvars => StopInv'
  BY StepStops DEF WholeInv
<1>3. WholeInv /\ StopInv => MuxOK
  <2> SUFFICES ASSUME WholeInv, StopInv PROVE MuxOK
    OBVIOUS
  <2>1. WholeOK
    BY DEF WholeInv, WholeOK
  <2>2. ASSUME NEW r \in Servers,
               \A n \in 1 .. Len(frames) : frames[n].src = r => frames[n].type \notin {"xoff", "xon"}
        PROVE  r \in blocked <=> peer[r].stopped
    <3>1. frames \in Seq(Signals \cup Carriers)
      BY DEF WholeInv, Types
    <3>2. Said(frames, r) = {}
      BY <2>2, <3>1 DEF Said
    <3> QED  BY <3>2 DEF StopInv, Stops
  <2>3. StoppedOK
    BY <2>2 DEF StoppedOK
  <2> QED  BY <2>1, <2>3 DEF MuxOK
<1> QED  BY <1>1, <1>2, <1>3, MuxInvariant, PTL DEF MuxSpec

=============================================================================
