--------------------------- MODULE ChannelsProofs ---------------------------
(***************************************************************************)
(* Proofs about Channels: the inductive invariant of the control plane of  *)
(* the multiplexor, and the safety properties that follow from it.         *)
(*                                                                         *)
(* A handler composes routines that call one another, so the proof follows *)
(* the calls: for each routine of Channels one lemma says what it leaves   *)
(* of the state m that it was given, as a predicate of m and its result k, *)
(* and the lemma of an action puts those of its routines together.  The    *)
(* predicates are kept closed where the lemmas are used.                   *)
(***************************************************************************)
EXTENDS Channels, Integers, Induction, TLAPS

\* A queued connection frame asks for a server under the number it will have.
ConnectOK(f) == f.kind = "connect" => f.name \in User /\ f.src \in {0, RemoteNum[f.name]}
CtrlOK(q) == q \in Seq(Ctrl) /\ \A i \in DOMAIN q : ConnectOK(q[i])

\* Channels are created in an order that gives each the number which the remote
\* gives its server: the link, a file service, NCP, the clipboard.
Numbered(m) ==
    /\ \A u \in User : m.num[u] \in {0, RemoteNum[u]}
    /\ \A u \in m.open : m.num[u] = RemoteNum[u]
    /\ ~(Files \subseteq m.open)
    /\ CtrlOK(m.ctrl)

\* Shares follow connections, connections need channels and the right server.
Served(m) ==
    /\ m.share = {u \in Shared : m.server[u] # 0}
    /\ \A u \in User : m.server[u] # 0 => u \in m.open
    /\ \A u \in User : m.server[u] \in {0, RemoteNum[u]}

\* Every layer stands on the one below, down to the LINK channel.
Layered(m) ==
    /\ m.open \ {"link"} # {} => m.unified
    /\ m.unified => "link" \in m.open
    /\ "clip" \in m.open => m.cache = "connected"
    /\ m.cache # "off" => m.unified
    /\ m.connected => m.partial
    /\ m.partial => m.unified
    /\ "rfsv32" \in m.open => m.era
    /\ "rfsv16" \in m.open => ~m.era
    /\ m.client # 0 => "link" \in m.open

\* An upload waits for a file service that is there.
Awaited(m) == m.uploads # {} => m.share \cap Files # {}

\* Sound holds inside a handler too, Good between two handlers: while share_destroy
\* fails its users one by one, some of them still wait for what has gone.
Sound(m) == m \in MuxState /\ Numbered(m) /\ Served(m) /\ Layered(m)
Good(m) == Sound(m) /\ Awaited(m) /\ (m.regs # <<>> => "link" \in m.share)

\* What no routine below the sessions and unified.c changes.
Same(m, k) ==
    /\ k.up = m.up /\ k.ending = m.ending /\ k.era = m.era /\ k.regs = m.regs
    /\ k.unified = m.unified /\ k.partial = m.partial /\ k.connected = m.connected
    /\ k.cache = m.cache /\ k.client = m.client

-----------------------------------------------------------------------------
(* Frames, connections and channels.                                       *)

\* The numbers of the remote servers.
LEMMA Numbers ==
    /\ RemoteNum \in [User -> 1 .. 4]
    /\ RemoteNum["link"] = 1 /\ RemoteNum["rfsv32"] = 2 /\ RemoteNum["rfsv16"] = 2
    /\ RemoteNum["ncp"] = 3 /\ RemoteNum["clip"] = 4
BY DEF RemoteNum, User, Files

\* Every frame that PsiFS queues is a control frame that asks for no wrong number.
LEMMA CtrlFacts ==
    /\ \A c \in Num, u \in User :
          Connect(c, u) \in Ctrl /\ (c \in {0, RemoteNum[u]} => ConnectOK(Connect(c, u)))
    /\ \A n, c \in Num : Response(n, c) \in Ctrl /\ ConnectOK(Response(n, c))
    /\ \A c \in Num : Closed(c) \in Ctrl /\ ConnectOK(Closed(c))
    /\ \A c, n \in Num : Disconnect(c, n) \in Ctrl /\ ConnectOK(Disconnect(c, n))
    /\ \A era \in BOOLEAN : Info(era) \in Ctrl /\ ConnectOK(Info(era))
    /\ NcpEnd \in Ctrl /\ ConnectOK(NcpEnd)
<1>1. ASSUME NEW c \in Num, NEW u \in User
      PROVE  Connect(c, u) \in Ctrl /\ (c \in {0, RemoteNum[u]} => ConnectOK(Connect(c, u)))
  <2>1. Connect(c, u) \in Ctrl
    BY DEF Ctrl, Connect, Num
  <2> QED  BY <2>1 DEF Connect, ConnectOK
<1>2. \A n, c \in Num : Response(n, c) \in Ctrl /\ ConnectOK(Response(n, c))
  BY DEF Ctrl, Response, Num, ConnectOK
<1>3. \A c \in Num : Closed(c) \in Ctrl /\ ConnectOK(Closed(c))
  BY DEF Ctrl, Closed, Num, ConnectOK
<1>4. \A c, n \in Num : Disconnect(c, n) \in Ctrl /\ ConnectOK(Disconnect(c, n))
  BY DEF Ctrl, Disconnect, Num, ConnectOK
<1>5. \A era \in BOOLEAN : Info(era) \in Ctrl /\ ConnectOK(Info(era))
  BY DEF Ctrl, Info, Num, ConnectOK
<1>6. NcpEnd \in Ctrl /\ ConnectOK(NcpEnd)
  BY DEF Ctrl, NcpEnd, Num, ConnectOK
<1> QED BY <1>1, <1>2, <1>3, <1>4, <1>5, <1>6

\* Queueing such a frame keeps the queue so.
LEMMA CtrlQueued ==
    ASSUME NEW q, CtrlOK(q), NEW f \in Ctrl, ConnectOK(f)
    PROVE  CtrlOK(Append(q, f))
<1>1. q \in Seq(Ctrl)
  BY DEF CtrlOK
<1>2. Append(q, f) \in Seq(Ctrl)
  BY <1>1
<1>3. \A i \in DOMAIN Append(q, f) : (i \in DOMAIN q /\ Append(q, f)[i] = q[i]) \/ Append(q, f)[i] = f
  BY <1>1
<1> QED  BY <1>2, <1>3 DEF CtrlOK

\* m with its server connection with u cut, and what was queued on the way
Cut(m, u, q) == [m EXCEPT !.ctrl = q, !.server = [@ EXCEPT ![u] = 0], !.share = @ \ {u}]
Shut(m, u, q) == [m EXCEPT !.ctrl = q, !.server = [@ EXCEPT ![u] = 0], !.share = @ \ {u},
                           !.open = @ \ {u}]

-----------------------------------------------------------------------------
(* The routines that end connections and channels.                         *)

\* What is left of m when the connection of u, or its channel, has gone.
Unserved(m, u, k) ==
    /\ Sound(k) /\ Same(m, k)
    /\ k.open = m.open /\ k.share = m.share \ {u} /\ k.uploads = m.uploads
Removed(m, u, k) ==
    /\ Sound(k) /\ Same(m, k)
    /\ k.open = m.open \ {u} /\ k.share = m.share \ {u} /\ k.uploads = m.uploads

\* Cutting a connection keeps the state sound.
LEMMA CutSound ==
    ASSUME NEW m, Sound(m), NEW u \in User, NEW q, CtrlOK(q)
    PROVE  Unserved(m, u, Cut(m, u, q))
<1> DEFINE k == Cut(m, u, q)
<1>1. m \in MuxState /\ q \in Seq(Ctrl)
  BY DEF Sound, CtrlOK
<1>2. k \in MuxState
  <2>1. [m.server EXCEPT ![u] = 0] \in [User -> Num]
    BY <1>1 DEF MuxState, Num
  <2> QED  BY <1>1, <2>1 DEF MuxState, Cut
<1>3. Same(m, k) /\ k.open = m.open /\ k.share = m.share \ {u}
           /\ k.uploads = m.uploads /\ k.num = m.num /\ k.retried = m.retried /\ k.ctrl = q
           /\ k.server = [m.server EXCEPT ![u] = 0]
  BY <1>1 DEF Same, MuxState, Cut
<1> HIDE DEF k
<1>4. Numbered(k)
  BY <1>3 DEF Numbered, Sound, CtrlOK
<1>5. Served(k)
  BY <1>1, <1>3 DEF Served, Sound, MuxState
<1>6. Layered(k)
  BY <1>3 DEF Layered, Sound, Same
<1> QED BY <1>2, <1>3, <1>4, <1>5, <1>6 DEF Sound, Unserved, k

\* So does removing a channel with its connection.
LEMMA ShutSound ==
    ASSUME NEW m, Sound(m), NEW u \in User, u # "link", NEW q, CtrlOK(q)
    PROVE  Removed(m, u, Shut(m, u, q))
<1> DEFINE k == Shut(m, u, q)
<1>1. m \in MuxState /\ q \in Seq(Ctrl)
  BY DEF Sound, CtrlOK
<1>2. k \in MuxState
  <2>1. [m.server EXCEPT ![u] = 0] \in [User -> Num]
    BY <1>1 DEF MuxState, Num
  <2> QED  BY <1>1, <2>1 DEF MuxState, Shut
<1>3. Same(m, k) /\ k.open = m.open \ {u} /\ k.share = m.share \ {u}
           /\ k.uploads = m.uploads /\ k.num = m.num /\ k.retried = m.retried /\ k.ctrl = q
           /\ k.server = [m.server EXCEPT ![u] = 0]
  BY <1>1 DEF Same, MuxState, Shut
<1> HIDE DEF k
<1>4. Numbered(k)
  BY <1>3 DEF Numbered, Sound, CtrlOK
<1>5. Served(k)
  BY <1>1, <1>3 DEF Served, Sound, MuxState
<1>6. Layered(k)
  BY <1>3 DEF Layered, Sound, Same
<1> QED BY <1>2, <1>3, <1>4, <1>5, <1>6 DEF Sound, Removed, k

\* mux_chan_destroy up to the event, whether or not the remote is asked.
LEMMA AskedCtrl ==
    ASSUME NEW m, Sound(m), NEW u \in User, NEW now
    PROVE  \E q : /\ CtrlOK(q)
                  /\ ChanDisconnect(m, u, now) = [m EXCEPT !.ctrl = q, !.server = [@ EXCEPT ![u] = 0]]
<1>1. m \in MuxState /\ CtrlOK(m.ctrl)
  BY DEF Sound, Numbered, CtrlOK, MuxState
<1>2. CASE now
  <2>1. ChanDisconnect(m, u, now) = [m EXCEPT !.ctrl = m.ctrl, !.server = [@ EXCEPT ![u] = 0]]
    BY <1>1, <1>2 DEF ChanDisconnect, MuxState
  <2> QED  BY <1>1, <2>1
<1>3. CASE ~now
  <2> DEFINE f == Disconnect(m.num[u], m.server[u])
  <2>1. f \in Ctrl /\ ConnectOK(f)
    <3>1. m.num[u] \in Num /\ m.server[u] \in Num
      BY <1>1 DEF MuxState
    <3> QED  BY <3>1, CtrlFacts
  <2>2. CtrlOK(Append(m.ctrl, f))
    BY <1>1, <2>1, CtrlQueued
  <2>3. ChanDisconnect(m, u, now) = [m EXCEPT !.ctrl = Append(m.ctrl, f), !.server = [@ EXCEPT ![u] = 0]]
    BY <1>1, <1>3 DEF ChanDisconnect, MuxState, Queue
  <2> QED  BY <2>2, <2>3
<1> QED  BY <1>2, <1>3

\* ncp_end and rclip_end do nothing, or remove the channel.
LEMMA LeafEndIs ==
    ASSUME NEW m, Sound(m), NEW u \in Uploaders, NEW now
    PROVE  \/ LeafEnd(m, u, now) = m /\ u \notin m.open
           \/ \E q : CtrlOK(q) /\ LeafEnd(m, u, now) = Shut(m, u, q)
<1>1. m \in MuxState /\ CtrlOK(m.ctrl) /\ u \in User
  BY DEF Sound, Numbered, CtrlOK, MuxState, Uploaders, User
<1>2. CASE u \notin m.open
  BY <1>2 DEF LeafEnd
<1>3. CASE u \in m.open /\ m.server[u] = 0
  <2>1. LeafEnd(m, u, now) = [m EXCEPT !.open = @ \ {u}]
    BY <1>3 DEF LeafEnd, ChanDestroy
  <2>2. m.share \ {u} = m.share /\ [m.server EXCEPT ![u] = 0] = m.server
    BY <1>1, <1>3 DEF Sound, Served, MuxState
  <2>3. Shut(m, u, m.ctrl) = [m EXCEPT !.open = @ \ {u}]
    BY <1>1, <2>2 DEF Shut, MuxState
  <2> QED  BY <1>1, <2>1, <2>3
<1>4. CASE u \in m.open /\ m.server[u] # 0
  <2>1. PICK q : CtrlOK(q) /\ ChanDisconnect(m, u, now) = [m EXCEPT !.ctrl = q, !.server = [@ EXCEPT ![u] = 0]]
    BY <1>1, AskedCtrl
  <2> DEFINE d == [m EXCEPT !.ctrl = q, !.server = [@ EXCEPT ![u] = 0]]
  <2>2. LeafEnd(m, u, now) = [LeafDisconnected(d, u) EXCEPT !.open = @ \ {u}]
    BY <1>4, <2>1 DEF LeafEnd, ChanDestroy
  <2>3. CASE u = "clip"
    <3>1. d.server[u] = 0 /\ d.num[u] = RemoteNum[u] /\ d.ctrl = q
      BY <1>1, <1>4 DEF MuxState, Sound, Numbered
    <3>2. LeafDisconnected(d, u) = [d EXCEPT !.ctrl = Append(q, Connect(RemoteNum[u], u))]
      BY <2>3, <3>1 DEF LeafDisconnected, ChanConnect, Queue
    <3>3. CtrlOK(Append(q, Connect(RemoteNum[u], u)))
      <4>1. RemoteNum[u] \in Num
        BY <1>1, Numbers DEF Num
      <4> QED  BY <1>1, <2>1, <4>1, CtrlFacts, CtrlQueued
    <3>4. m.share \ {u} = m.share
      BY <1>1, <2>3 DEF MuxState, Shared
    <3>5. LeafEnd(m, u, now) = Shut(m, u, Append(q, Connect(RemoteNum[u], u)))
      BY ZenonT(30), <1>1, <2>2, <3>2, <3>4 DEF Shut, MuxState
    <3> QED  BY <3>3, <3>5
  <2>4. CASE u # "clip"
    <3>1. LeafDisconnected(d, u) = [d EXCEPT !.share = @ \ {u}]
      BY <2>4 DEF LeafDisconnected
    <3>2. LeafEnd(m, u, now) = Shut(m, u, q)
      BY <1>1, <2>2, <3>1 DEF Shut, MuxState
    <3> QED  BY <2>1, <3>2
  <2> QED  BY <2>3, <2>4
<1> QED  BY <1>2, <1>3, <1>4

\* Sound only looks at these.
LEMMA SoundSame ==
    ASSUME NEW m, Sound(m), NEW k \in MuxState, Same(m, k) \/ Same(m, [k EXCEPT !.regs = m.regs]),
           k.ctrl = m.ctrl, k.open = m.open, k.num = m.num, k.share = m.share,
           k.server = m.server
    PROVE  Sound(k)
<1>1. Layered(k)
  <2>1. /\ k.unified = m.unified /\ k.partial = m.partial /\ k.connected = m.connected
        /\ k.cache = m.cache /\ k.client = m.client /\ k.era = m.era
    BY DEF Same, MuxState
  <2> QED  BY <2>1 DEF Sound, Layered
<1>2. Numbered(k) /\ Served(k)
  BY DEF Sound, Numbered, Served
<1> QED  BY <1>1, <1>2 DEF Sound

\* In both cases the channel is gone and nothing else is.
LEMMA LeafEndFacts ==
    ASSUME NEW m, Sound(m), NEW u \in Uploaders, NEW now
    PROVE  Removed(m, u, LeafEnd(m, u, now))
<1>1. u \in User /\ u # "link"
  BY DEF Uploaders, User
<1>2. CASE LeafEnd(m, u, now) = m /\ u \notin m.open
  <2>1. u \notin m.share
    BY <1>1, <1>2 DEF Sound, Served
  <2>2. Removed(m, u, m)
    BY <1>2, <2>1 DEF Same, Removed
  <2> QED  BY <1>2, <2>2
<1>3. CASE \E q : CtrlOK(q) /\ LeafEnd(m, u, now) = Shut(m, u, q)
  <2>1. PICK q : CtrlOK(q) /\ LeafEnd(m, u, now) = Shut(m, u, q)
    BY <1>3
  <2>2. Removed(m, u, Shut(m, u, q))
    BY <1>1, <2>1, ShutSound
  <2> QED  BY <2>1, <2>2
<1> QED  BY <1>2, <1>3, LeafEndIs

\* What is left of m when the upload that u waits for has failed.
Failed(m, u, k) ==
    /\ Sound(k) /\ Same(m, k)
    /\ k.open = m.open \ {u} /\ k.share = m.share \ {u} /\ k.uploads = m.uploads \ {u}

\* An upload that fails takes its channel with it.
LEMMA UploadFailedFacts ==
    ASSUME NEW m, Sound(m), NEW u \in Uploaders
    PROVE  Failed(m, u, UploadFailed(m, u))
<1> DEFINE n == [m EXCEPT !.uploads = @ \ {u}]
           k == LeafEnd(n, u, FALSE)
<1>1. m \in MuxState
  BY DEF Sound
<1>2. n \in MuxState /\ Same(m, n) /\ n.ctrl = m.ctrl /\ n.open = m.open /\ n.num = m.num
      /\ n.share = m.share /\ n.server = m.server /\ n.uploads = m.uploads \ {u}
  BY <1>1 DEF MuxState, Same
<1>3. Sound(n)
  BY <1>2, SoundSame
<1>4. Removed(n, u, k)
  BY <1>3, LeafEndFacts
<1>5. UploadFailed(m, u) = k
  BY DEF UploadFailed
<1> HIDE DEF n, k
<1>6. Failed(m, u, k)
  BY <1>2, <1>4 DEF Same, Failed, Removed
<1> QED  BY <1>5, <1>6

\* What a routine that only takes away leaves of m.
Below(m, k) ==
    /\ Sound(k) /\ Same(m, k)
    /\ k.open \subseteq m.open /\ ("link" \in k.open <=> "link" \in m.open)
    /\ k.share \subseteq m.share /\ ("link" \in k.share <=> "link" \in m.share)

\* What is left of m when the file service u has gone, and when its channel has.
Unserviced(m, u, k) ==
    /\ Below(m, k) /\ u \in k.open
    /\ k.share \cap Files = (m.share \cap Files) \ {u} /\ k.uploads = {}

\* The end of a file service fails every upload, and leaves the rest sound.
LEMMA FilesDisconnectedFacts ==
    ASSUME NEW m, Sound(m), NEW u \in Files, u \in m.open, NEW q, CtrlOK(q)
    PROVE  Unserviced(m, u, FilesDisconnected([m EXCEPT !.ctrl = q, !.server = [@ EXCEPT ![u] = 0]], u))
<1> DEFINE d == [m EXCEPT !.ctrl = q, !.server = [@ EXCEPT ![u] = 0]]
           left == Cut(m, u, q)
           one == IF "clip" \in m.uploads THEN UploadFailed(left, "clip") ELSE left
           two == IF "ncp" \in m.uploads THEN UploadFailed(one, "ncp") ELSE one
<1>1. m \in MuxState /\ u \in User /\ u \notin Uploaders /\ u # "link"
      /\ "clip" \in Uploaders /\ "ncp" \in Uploaders /\ "link" \notin Uploaders
      /\ "clip" \notin Files /\ "ncp" \notin Files /\ "link" \notin Files
  BY DEF Sound, Files, User, Uploaders
<1>2. FilesDisconnected(d, u) = two
  <2>1. [d EXCEPT !.share = @ \ {u}] = left
    BY <1>1 DEF Cut, MuxState
  <2>2. d.uploads = m.uploads
    BY <1>1 DEF MuxState
  <2> QED  BY <2>1, <2>2 DEF FilesDisconnected
<1>3. Unserved(m, u, left)
  BY <1>1, CutSound
<1> HIDE DEF left, d
<1>4. /\ Sound(one) /\ Same(m, one)
      /\ one.open \subseteq m.open /\ u \in one.open /\ ("link" \in one.open <=> "link" \in m.open)
      /\ one.share \subseteq m.share \ {u} /\ ("link" \in one.share <=> "link" \in m.share)
      /\ one.share \cap Files = (m.share \cap Files) \ {u}
      /\ one.uploads \subseteq m.uploads \ {"clip"}
  <2>1. CASE "clip" \in m.uploads
    <3>1. Failed(left, "clip", one)
      <4>1. Sound(left) /\ one = UploadFailed(left, "clip")
        BY <1>3, <2>1 DEF Unserved
      <4> QED  BY <1>1, <4>1, UploadFailedFacts
    <3> HIDE DEF one
    <3> QED  BY <1>1, <1>3, <3>1 DEF Same, Failed, Unserved
  <2>2. CASE "clip" \notin m.uploads
    <3>1. one = left
      BY <2>2
    <3> HIDE DEF one
    <3> QED  BY <1>1, <1>3, <2>2, <3>1 DEF Unserved
  <2> QED  BY <2>1, <2>2
<1> HIDE DEF one
<1>5. /\ Sound(two) /\ Same(m, two)
      /\ two.open \subseteq m.open /\ u \in two.open /\ ("link" \in two.open <=> "link" \in m.open)
      /\ two.share \subseteq m.share \ {u} /\ ("link" \in two.share <=> "link" \in m.share)
      /\ two.share \cap Files = (m.share \cap Files) \ {u}
      /\ two.uploads \subseteq m.uploads \ {"clip", "ncp"}
  <2>1. CASE "ncp" \in m.uploads
    <3>1. Failed(one, "ncp", two)
      <4>1. two = UploadFailed(one, "ncp")
        BY <2>1
      <4> QED  BY <1>1, <1>4, <4>1, UploadFailedFacts
    <3> HIDE DEF two
    <3> QED  BY <1>1, <1>4, <3>1 DEF Same, Failed
  <2>2. CASE "ncp" \notin m.uploads
    <3>1. two = one
      BY <2>2
    <3> HIDE DEF two
    <3> QED  BY <1>1, <1>4, <2>2, <3>1
  <2> QED  BY <2>1, <2>2
<1> HIDE DEF two
<1>6. two.uploads = {}
  BY <1>1, <1>5 DEF MuxState, Uploaders
<1>7. Unserviced(m, u, two)
  BY <1>5, <1>6 DEF Below, Unserviced
<1> QED  BY <1>2, <1>7 DEF d

\* What is left of m when a channel of the file service has ended.
FilesGone(m, u, k) ==
    /\ Below(m, k) /\ u \notin k.open
    /\ k.share \cap Files = (m.share \cap Files) \ {u}
    /\ u \in m.share => k.uploads = {}
    /\ u \notin m.share => k.uploads = m.uploads

\* rfsv32_end and rfsv16_end.
LEMMA FilesEndFacts ==
    ASSUME NEW m, Sound(m), NEW u \in Files, NEW now
    PROVE  FilesGone(m, u, FilesEnd(m, u, now))
<1>1. m \in MuxState /\ u \in User /\ u # "link" /\ u \in Shared /\ "link" \notin Files
  BY DEF Sound, Files, User, Shared
<1>2. CASE u \notin m.open
  <2>1. FilesEnd(m, u, now) = m /\ u \notin m.share
    BY <1>1, <1>2 DEF FilesEnd, Sound, Served
  <2>2. FilesGone(m, u, m)
    BY <1>2, <2>1 DEF FilesGone, Below, Same
  <2> QED  BY <2>1, <2>2
<1>3. CASE u \in m.open
  <2> DEFINE a == IF m.server[u] = 0 THEN m ELSE FilesDisconnected(ChanDisconnect(m, u, now), u)
             k == Shut(a, u, a.ctrl)
  <2>1. FilesEnd(m, u, now) = [a EXCEPT !.open = @ \ {u}]
    BY <1>3 DEF FilesEnd, ChanDestroy
  <2>2. /\ Below(m, a) /\ a.server[u] = 0 /\ u \notin a.share
        /\ a.share \cap Files = (m.share \cap Files) \ {u}
        /\ u \in m.share => a.uploads = {}
        /\ u \notin m.share => a.uploads = m.uploads
    <3>1. CASE m.server[u] = 0
      <4>1. u \notin m.share
        BY <3>1 DEF Sound, Served
      <4>2. a = m
        BY <3>1
      <4> HIDE DEF a
      <4> QED  BY <3>1, <4>1, <4>2 DEF Below, Same
    <3>2. CASE m.server[u] # 0
      <4>1. u \in m.share
        BY <1>1, <3>2 DEF Sound, Served
      <4>2. PICK q : /\ CtrlOK(q)
                     /\ ChanDisconnect(m, u, now)
                          = [m EXCEPT !.ctrl = q, !.server = [@ EXCEPT ![u] = 0]]
        BY <1>1, AskedCtrl
      <4>3. Unserviced(m, u, a)
        <5>1. a = FilesDisconnected([m EXCEPT !.ctrl = q, !.server = [@ EXCEPT ![u] = 0]], u)
          BY <3>2, <4>2
        <5> HIDE DEF a
        <5> QED  BY <1>3, <4>2, <5>1, FilesDisconnectedFacts
      <4> HIDE DEF a
      <4>4. u \notin a.share
        BY <4>3 DEF Unserviced
      <4>5. a.server[u] = 0
        BY <1>1, <4>3, <4>4 DEF Unserviced, Below, Sound, Served
      <4> QED  BY <4>1, <4>3, <4>4, <4>5 DEF Unserviced
    <3> QED  BY <3>1, <3>2
  <2> HIDE DEF a
  <2>3. a \in MuxState /\ CtrlOK(a.ctrl) /\ Sound(a)
    BY <2>2 DEF Below, Sound, Numbered, CtrlOK, MuxState
  <2>4. FilesEnd(m, u, now) = k
    <3>1. [a.server EXCEPT ![u] = 0] = a.server /\ a.share \ {u} = a.share
      BY <1>1, <2>2, <2>3 DEF MuxState
    <3> QED  BY <2>1, <2>3, <3>1 DEF Shut, MuxState
  <2>5. Removed(a, u, k)
    BY <1>1, <2>3, ShutSound
  <2> HIDE DEF k
  <2>6. FilesGone(m, u, k)
    BY <1>1, <2>2, <2>5 DEF Below, Same, FilesGone, Removed
  <2> QED  BY <2>4, <2>6
<1> QED  BY <1>2, <1>3

\* ncpfile_upload and clipfile_upload only ever wait for a file service.
LEMMA UploadFacts ==
    ASSUME NEW m, Sound(m), Awaited(m), NEW u \in Uploaders
    PROVE  Awaited(Upload(m, u)) /\ Below(m, Upload(m, u))
<1>1. m \in MuxState /\ "link" \notin Uploaders /\ Uploaders \cap Files = {}
  BY DEF Sound, Uploaders, Files
<1>2. CASE m.share \cap Files = {}
  <2> DEFINE k == UploadFailed(m, u)
  <2>1. Failed(m, u, k)
    BY UploadFailedFacts
  <2>2. Upload(m, u) = k
    BY <1>2 DEF Upload
  <2> HIDE DEF k
  <2>3. Awaited(k) /\ Below(m, k)
    BY <1>1, <1>2, <2>1 DEF Awaited, Below, Failed
  <2> QED  BY <2>2, <2>3
<1>3. CASE m.share \cap Files # {}
  <2> DEFINE k == [m EXCEPT !.uploads = @ \cup {u}]
  <2>1. Upload(m, u) = k
    BY <1>3 DEF Upload
  <2>2. k \in MuxState /\ Same(m, k) /\ k.ctrl = m.ctrl /\ k.open = m.open /\ k.num = m.num
        /\ k.share = m.share /\ k.server = m.server
    BY <1>1 DEF MuxState, Same
  <2>3. Sound(k)
    BY <2>2, SoundSame
  <2> HIDE DEF k
  <2>4. Awaited(k) /\ Below(m, k)
    BY <1>3, <2>2, <2>3 DEF Awaited, Below
  <2> QED  BY <2>1, <2>4
<1> QED  BY <1>2, <1>3

\* A failed registration only takes away, and no upload is left to wait in vain.
LEMMA RegisterFailedFacts ==
    ASSUME NEW m, Sound(m), Awaited(m), NEW u \in User, u # "link"
    PROVE  Awaited(RegisterFailed(m, u)) /\ Below(m, RegisterFailed(m, u))
<1>1. m \in MuxState /\ "link" \notin Uploaders /\ Uploaders \cap Files = {}
  BY DEF Sound, Uploaders, Files
<1>2. CASE u \in Files
  <2> DEFINE k == FilesEnd(m, u, FALSE)
  <2>1. FilesGone(m, u, k)
    BY <1>2, FilesEndFacts
  <2>2. RegisterFailed(m, u) = k
    BY <1>2 DEF RegisterFailed
  <2> HIDE DEF k
  <2>3. Awaited(k) /\ Below(m, k)
    BY <2>1 DEF Awaited, FilesGone
  <2> QED  BY <2>2, <2>3
<1>3. CASE u \notin Files /\ u \in m.retried
  <2> DEFINE k == LeafEnd(m, u, FALSE)
  <2>1. u \in Uploaders
    BY <1>3 DEF User, Files, Uploaders
  <2>2. Removed(m, u, k)
    BY <2>1, LeafEndFacts
  <2>3. RegisterFailed(m, u) = k
    BY <1>3 DEF RegisterFailed
  <2> HIDE DEF k
  <2>4. Awaited(k) /\ Below(m, k)
    BY <1>1, <2>1, <2>2 DEF Awaited, Below, Removed
  <2> QED  BY <2>3, <2>4
<1>4. CASE u \notin Files /\ u \notin m.retried
  <2> DEFINE n == [m EXCEPT !.retried = @ \cup {u}]
             k == Upload(n, u)
  <2>1. u \in Uploaders
    BY <1>4 DEF User, Files, Uploaders
  <2>2. n \in MuxState /\ Same(m, n) /\ n.ctrl = m.ctrl /\ n.open = m.open /\ n.num = m.num
        /\ n.share = m.share /\ n.server = m.server /\ n.uploads = m.uploads
    BY <1>1, <2>1 DEF MuxState, Same
  <2>3. Sound(n)
    BY <2>2, SoundSame
  <2>4. RegisterFailed(m, u) = k
    BY <1>4 DEF RegisterFailed
  <2> HIDE DEF n
  <2>5. Awaited(n)
    BY <2>2 DEF Awaited
  <2>6. Awaited(k) /\ Below(n, k)
    BY <2>1, <2>3, <2>5, UploadFacts
  <2> HIDE DEF k
  <2>7. Below(m, k)
    BY <2>2, <2>6 DEF Below, Same
  <2> QED  BY <2>4, <2>6, <2>7
<1> QED  BY <1>2, <1>3, <1>4

-----------------------------------------------------------------------------
(* The end of the LINK channel: induction over those who wait for it.      *)

\* The calls of LinkDisconnected, one for each registration that waited.
LEMMA FailedFacts ==
    ASSUME NEW m, Sound(m), Awaited(m), NEW s \in Seq(User \ {"link"}),
           NEW f, f = [i \in 0 .. Len(s) |-> IF i = 0 THEN m ELSE RegisterFailed(f[i - 1], s[i])]
    PROVE  Awaited(f[Len(s)]) /\ Below(m, f[Len(s)])
<1> DEFINE P(k) == Awaited(k) /\ Below(m, k)
           T == {n \in 0 .. Len(s) : ~P(f[n])}
<1>1. Len(s) \in Nat /\ \A i \in 1 .. Len(s) : s[i] \in User /\ s[i] # "link"
  OBVIOUS
<1>2. f[0] = m /\ \A i \in 1 .. Len(s) : f[i] = RegisterFailed(f[i - 1], s[i])
  BY <1>1
<1>3. CASE T = {}
  BY <1>1, <1>3, SMTT(40)
<1>4. CASE T # {}
  <2>1. PICK n \in T : \A j \in T : n <= j
    <3>1. T \in SUBSET Nat
      OBVIOUS
    <3> HIDE DEF T
    <3> QED BY <3>1, <1>4, Least
  <2>2. n \in 0 .. Len(s) /\ ~P(f[n])
    BY <2>1
  <2>3. n # 0
    <3>1. P(m)
      BY DEF Below, Same
    <3> QED  BY <1>2, <2>2, <3>1
  <2>4. n - 1 \in 0 .. Len(s) /\ n - 1 \notin T /\ n \in 1 .. Len(s)
    BY <1>1, <2>1, <2>2, <2>3
  <2>5. P(f[n - 1])
    BY <2>4
  <2> HIDE DEF T
  <2> DEFINE a == f[n - 1]
             b == RegisterFailed(a, s[n])
  <2>6. f[n] = b
    BY <1>2, <2>4
  <2>7. Sound(a) /\ Awaited(a) /\ Below(m, a)
    BY <2>5 DEF Below
  <2> HIDE DEF a
  <2>8. Awaited(b) /\ Below(a, b)
    BY <1>1, <2>4, <2>7, RegisterFailedFacts
  <2> HIDE DEF b
  <2>9. Below(m, b)
    BY <2>7, <2>8 DEF Below, Same
  <2> QED  BY <2>2, <2>6, <2>8, <2>9
<1> QED  BY <1>3, <1>4

\* m without the share of the LINK channel and without registrations.
Unshared(m) == [m EXCEPT !.share = @ \ {"link"}, !.regs = <<>>]

\* The end of the LINK channel fails them all, one after another.
LEMMA LinkFailed ==
    ASSUME NEW m, NEW left, left = Unshared(m), Sound(left), Awaited(left), m \in MuxState
    PROVE  Awaited(LinkDisconnected(m, "link")) /\ Below(left, LinkDisconnected(m, "link"))
<1> DEFINE s == m.regs
           S == {k \in MuxState : Awaited(k) /\ Below(left, k)}
           R == [p \in S \X User |-> RegisterFailed(p[1], p[2])]
           F == CHOOSE f : f = [i \in 0 .. Len(s) |-> IF i = 0 THEN left ELSE RegisterFailed(f[i - 1], s[i])]
<1>1. s \in Seq(User \ {"link"}) /\ Len(s) \in Nat /\ \A i \in 1 .. Len(s) : s[i] \in User \ {"link"}
  BY DEF MuxState
<1> HIDE DEF s
<1>2. left \in S
  BY DEF Below, Same, Sound
<1>3. \A k \in S, u \in User \ {"link"} : R[<<k, u>>] = RegisterFailed(k, u) /\ R[<<k, u>>] \in S
  <2> SUFFICES ASSUME NEW k \in S, NEW u \in User \ {"link"}
               PROVE  R[<<k, u>>] = RegisterFailed(k, u) /\ R[<<k, u>>] \in S
    OBVIOUS
  <2>1. R[<<k, u>>] = RegisterFailed(k, u)
    OBVIOUS
  <2> HIDE DEF R
  <2> DEFINE b == RegisterFailed(k, u)
  <2>2. Sound(k) /\ Awaited(k) /\ Below(left, k)
    BY DEF Below
  <2>3. Awaited(b) /\ Below(k, b)
    BY <2>2, RegisterFailedFacts
  <2> HIDE DEF b
  <2>4. Below(left, b) /\ b \in MuxState
    BY <2>2, <2>3 DEF Below, Same, Sound
  <2> QED  BY <2>1, <2>3, <2>4 DEF b
<1> HIDE DEF R, S
<1>4. \E f : f = [i \in 0 .. Len(s) |-> IF i = 0 THEN left ELSE RegisterFailed(f[i - 1], s[i])]
  <2>1. PICK f \in [0 .. Len(s) -> S] : Runs(R, s, left, Len(s), f)
    <3>1. Stays(R, s, S, Len(s))
      BY <1>1, <1>3 DEF Stays
    <3> QED  BY <1>1, <1>2, <3>1, Run
  <2>2. \A i \in 1 .. Len(s) : f[i] = RegisterFailed(f[i - 1], s[i])
    <3> SUFFICES ASSUME NEW i \in 1 .. Len(s) PROVE f[i] = RegisterFailed(f[i - 1], s[i])
      OBVIOUS
    <3>1. i - 1 \in 0 .. Len(s) /\ s[i] \in User \ {"link"}
      BY <1>1
    <3>2. f[i - 1] \in S
      BY <2>1, <3>1
    <3> QED  BY <1>3, <2>1, <3>1, <3>2 DEF Runs
  <2>3. f = [i \in 0 .. Len(s) |-> IF i = 0 THEN left ELSE RegisterFailed(f[i - 1], s[i])]
    BY <1>1, <2>1, <2>2 DEF Runs
  <2> QED  BY <2>3
<1>5. F = [i \in 0 .. Len(s) |-> IF i = 0 THEN left ELSE RegisterFailed(F[i - 1], s[i])]
  BY <1>4
<1>6. LinkDisconnected(m, "link") = F[Len(s)]
  BY DEF LinkDisconnected, s, Unshared
<1> HIDE DEF F
<1>7. Awaited(F[Len(s)]) /\ Below(left, F[Len(s)])
  BY <1>1, <1>5, FailedFacts
<1> QED  BY <1>6, <1>7

-----------------------------------------------------------------------------
(* Whole handlers, and the layers above.                                   *)

\* What a handler leaves of m, when it starts and ends no session.
Kept(m, k) ==
    /\ k.up = m.up /\ k.ending = m.ending
    /\ "link" \in k.open <=> "link" \in m.open
    /\ m.open = {} => k.open = {}
Step(m, k) == Good(k) /\ Kept(m, k)

\* What Good says, conjunct by conjunct.
LEMMA GoodParts ==
    ASSUME NEW m, Good(m)
    PROVE  /\ m \in MuxState /\ Sound(m) /\ CtrlOK(m.ctrl) /\ m.ctrl \in Seq(Ctrl)
           /\ Numbered(m) /\ Served(m) /\ Layered(m) /\ Awaited(m)
           /\ m.regs # <<>> => "link" \in m.share
BY DEF Good, Sound, Numbered, CtrlOK

\* Queueing a frame is a step.
LEMMA QueueFacts ==
    ASSUME NEW m, Good(m), NEW f \in Ctrl,
           ConnectOK(f)
    PROVE  Step(m, Queue(m, f))
<1> DEFINE k == Queue(m, f)
           q == Append(m.ctrl, f)
<1>1. m \in MuxState /\ CtrlOK(m.ctrl) /\ m.ctrl \in Seq(Ctrl)
  BY GoodParts
<1>2. CtrlOK(q)
  BY <1>1, CtrlQueued
<1>3. k = [m EXCEPT !.ctrl = q]
  BY DEF Queue
<1>4. q \in Seq(Ctrl)
  BY <1>2 DEF CtrlOK
<1> HIDE DEF q, k
<1>5. k \in MuxState /\ Same(m, k) /\ k.ctrl = q /\ k.open = m.open /\ k.num = m.num
      /\ k.share = m.share /\ k.server = m.server /\ k.uploads = m.uploads
  BY <1>1, <1>3, <1>4 DEF MuxState, Same
<1>6. Numbered(k) /\ Served(k) /\ Awaited(k)
  BY <1>2, <1>5 DEF Good, Sound, Numbered, Served, Awaited
<1>7. Layered(k)
  BY <1>5 DEF Good, Sound, Layered, Same
<1>8. Step(m, k)
  BY <1>5, <1>6, <1>7 DEF Good, Sound, Step, Kept, Same
<1> QED  BY <1>8 DEF k

\* mux_chan_connect is a step.
LEMMA ConnectFacts ==
    ASSUME NEW m, Good(m), NEW u \in User
    PROVE  Step(m, ChanConnect(m, u))
<1> DEFINE f == Connect(m.num[u], u)
<1>1. CASE m.server[u] = 0
  <2>1. m.num[u] \in {0, RemoteNum[u]} /\ m.num[u] \in Num
    BY GoodParts DEF Numbered, MuxState
  <2>2. f \in Ctrl /\ ConnectOK(f)
    BY <2>1, CtrlFacts
  <2> HIDE DEF f
  <2>3. Step(m, Queue(m, f))
    BY <2>2, QueueFacts
  <2> QED  BY <1>1, <2>3 DEF ChanConnect, f
<1>2. CASE m.server[u] # 0
  BY <1>2 DEF ChanConnect, Step, Kept
<1> QED  BY <1>1, <1>2

\* What is left of m when its connection with the server of u has ended.
Dropped(m, u, k) ==
    /\ Good(k)
    /\ k.up = m.up /\ k.ending = m.ending /\ k.unified = m.unified /\ k.client = m.client
    /\ k.open \subseteq m.open /\ ("link" \in k.open <=> "link" \in m.open)
    /\ k.share \subseteq m.share \ {u}

\* The connection of the LINK channel ends: nobody waits for it any more.
LEMMA LinkDropped ==
    ASSUME NEW m, Good(m), NEW q, CtrlOK(q)
    PROVE  Dropped(m, "link", LinkDisconnected([m EXCEPT !.ctrl = q, !.server = [@ EXCEPT !["link"] = 0]],
                                               "link"))
<1> DEFINE d == [m EXCEPT !.ctrl = q, !.server = [@ EXCEPT !["link"] = 0]]
           cut == Cut(m, "link", q)
           left == Unshared(d)
           k == LinkDisconnected(d, "link")
<1>1. m \in MuxState /\ Sound(m) /\ Awaited(m) /\ "link" \in User /\ "link" \notin Files
      /\ q \in Seq(Ctrl) /\ (m.regs # <<>> => "link" \in m.share)
  BY GoodParts DEF User, Files, CtrlOK
<1>2. d \in MuxState
  <2>1. [m.server EXCEPT !["link"] = 0] \in [User -> Num]
    BY <1>1 DEF MuxState, Num
  <2> QED  BY <1>1, <2>1 DEF MuxState
<1>3. Unserved(m, "link", cut)
  BY <1>1, CutSound
<1>4. left = [cut EXCEPT !.regs = <<>>]
  BY <1>1 DEF Unshared, Cut, MuxState
<1> HIDE DEF d, cut, left, k
<1>5. cut \in MuxState /\ Sound(cut)
  BY <1>3 DEF Unserved, Sound
<1>6. left \in MuxState /\ left.regs = <<>> /\ left.ctrl = cut.ctrl /\ left.open = cut.open
      /\ left.num = cut.num /\ left.share = cut.share /\ left.server = cut.server
      /\ left.uploads = cut.uploads /\ left.up = cut.up /\ left.ending = cut.ending
      /\ left.era = cut.era /\ left.unified = cut.unified /\ left.partial = cut.partial
      /\ left.connected = cut.connected /\ left.cache = cut.cache /\ left.client = cut.client
  <2>1. <<>> \in Seq(User \ {"link"})
    OBVIOUS
  <2> QED  BY <1>4, <1>5, <2>1 DEF MuxState
<1>7. Layered(left) /\ Numbered(left) /\ Served(left)
  BY <1>5, <1>6 DEF Sound, Layered, Numbered, Served
<1>8. Sound(left)
  BY <1>6, <1>7 DEF Sound
<1>9. Awaited(left)
  BY <1>1, <1>3, <1>6 DEF Awaited, Unserved
<1>10. Awaited(k) /\ Below(left, k)
  BY <1>2, <1>8, <1>9, LinkFailed DEF left, k
<1>11. Dropped(m, "link", k)
  BY <1>1, <1>3, <1>6, <1>10 DEF Dropped, Good, Below, Same, Unserved
<1> QED  BY <1>11 DEF d, k

\* The connection of any channel ends.
LEMMA DisconnectedFacts ==
    ASSUME NEW m, Good(m), NEW u \in User, m.server[u] # 0
    PROVE  Dropped(m, u, Disconnected([m EXCEPT !.server[u] = 0], u))
<1> DEFINE d == [m EXCEPT !.server[u] = 0]
           q == m.ctrl
           cut == [m EXCEPT !.ctrl = q, !.server = [@ EXCEPT ![u] = 0]]
<1>1. m \in MuxState /\ Sound(m) /\ Awaited(m) /\ CtrlOK(q) /\ u \in m.open
      /\ (m.regs # <<>> => "link" \in m.share)
  BY GoodParts DEF Served
<1>2. d = cut
  BY <1>1 DEF MuxState
<1>3. CASE u = "link"
  <2>1. Dropped(m, "link", LinkDisconnected([m EXCEPT !.ctrl = q, !.server = [@ EXCEPT !["link"] = 0]],
                                            "link"))
    BY <1>1, LinkDropped
  <2>2. Disconnected(d, u) = LinkDisconnected(cut, "link")
    BY <1>2, <1>3 DEF Disconnected
  <2> QED  BY <1>3, <2>1, <2>2
<1>4. CASE u \in Files
  <2> DEFINE k == FilesDisconnected(cut, u)
  <2>1. Unserviced(m, u, k)
    BY <1>1, <1>4, FilesDisconnectedFacts
  <2>2. Disconnected(d, u) = k
    <3>1. u # "link"
      BY <1>4 DEF Files
    <3> QED  BY <1>2, <1>4, <3>1 DEF Disconnected
  <2> HIDE DEF k
  <2>3. Dropped(m, u, k)
    <3>1. u \notin k.share
      BY <1>4, <2>1 DEF Unserviced
    <3> QED  BY <1>1, <2>1, <3>1 DEF Unserviced, Below, Same, Dropped, Good, Awaited
  <2> QED  BY <2>2, <2>3
<1>5. CASE u \in Uploaders
  <2>1. u # "link" /\ u \notin Files
    BY <1>5 DEF Uploaders, Files
  <2>2. Disconnected(d, u) = LeafDisconnected(cut, u)
    BY <1>2, <2>1 DEF Disconnected
  <2> DEFINE n == Cut(m, u, q)
  <2>3. Unserved(m, u, n)
    BY <1>1, CutSound
  <2>4. n.server[u] = 0 /\ n.num[u] = m.num[u]
    BY <1>1 DEF MuxState, Cut
  <2>5. u = "clip" => cut = n
    <3>1. u = "clip" => m.share \ {u} = m.share
      BY <1>1 DEF MuxState, Shared
    <3> QED  BY <1>1, <3>1 DEF Cut, MuxState
  <2>6. [cut EXCEPT !.share = @ \ {u}] = n
    BY <1>1 DEF Cut, MuxState
  <2> HIDE DEF n
  <2>7. Good(n)
    BY <1>1, <2>1, <2>3 DEF Good, Unserved, Same, Awaited
  <2>8. Step(n, LeafDisconnected(cut, u))
    <3>1. CASE u = "clip"
      BY <2>5, <2>7, <3>1, ConnectFacts DEF LeafDisconnected
    <3>2. CASE u # "clip"
      BY <2>6, <2>7, <3>2 DEF LeafDisconnected, Step, Kept
    <3> QED  BY <3>1, <3>2
  <2>9. CASE u = "clip"
    <3> DEFINE k == ChanConnect(n, "clip")
    <3>1. LeafDisconnected(cut, u) = k /\ k = Queue(n, Connect(n.num["clip"], "clip"))
      <4>1. cut = n
        BY <2>5, <2>9
      <4> HIDE DEF cut
      <4>2. LeafDisconnected(cut, u) = k
        BY <2>9, <4>1 DEF LeafDisconnected
      <4>3. k = Queue(n, Connect(n.num["clip"], "clip"))
        BY <2>4, <2>9 DEF ChanConnect
      <4> QED  BY <4>2, <4>3
    <3>2. n \in MuxState
      BY <2>7 DEF Good, Sound
    <3>3. k.up = n.up /\ k.ending = n.ending /\ k.unified = n.unified /\ k.client = n.client
          /\ k.open = n.open /\ k.share = n.share
      BY <3>1, <3>2 DEF Queue, MuxState
    <3> HIDE DEF k
    <3>4. Dropped(m, u, k)
      BY <2>3, <2>8, <3>1, <3>3 DEF Dropped, Step, Unserved, Same
    <3> QED  BY <2>2, <3>1, <3>4
  <2>10. CASE u # "clip"
    <3>1. LeafDisconnected(cut, u) = n
      BY <2>6, <2>10 DEF LeafDisconnected
    <3>2. Dropped(m, u, n)
      BY <2>3, <2>7 DEF Dropped, Unserved, Same
    <3> QED  BY <2>2, <3>1, <3>2
  <2> QED  BY <2>9, <2>10
<1> QED  BY <1>3, <1>4, <1>5 DEF User, Files, Uploaders

\* That is a step.
LEMMA DroppedStep ==
    ASSUME NEW m, Good(m), NEW u \in User, m.server[u] # 0
    PROVE  Step(m, Disconnected([m EXCEPT !.server[u] = 0], u))
<1> DEFINE k == Disconnected([m EXCEPT !.server[u] = 0], u)
<1>1. Dropped(m, u, k)
  BY DisconnectedFacts
<1> HIDE DEF k
<1>2. Step(m, k)
  BY <1>1 DEF Dropped, Step, Kept
<1> QED  BY <1>2 DEF k

\* The end of the connection of a client is a step.
LEMMA UnservedStep ==
    ASSUME NEW m, Good(m)
    PROVE  /\ Step(m, [m EXCEPT !.client = 0])
           /\ [m EXCEPT !.client = 0].client = 0
           /\ [m EXCEPT !.client = 0].server = m.server
           /\ [m EXCEPT !.client = 0].open = m.open
           /\ [m EXCEPT !.client = 0].unified = m.unified
<1> DEFINE k == [m EXCEPT !.client = 0]
<1>1. m \in MuxState
  BY GoodParts
<1>2. k \in MuxState /\ k.client = 0 /\ k.ctrl = m.ctrl /\ k.open = m.open /\ k.num = m.num
      /\ k.share = m.share /\ k.server = m.server /\ k.uploads = m.uploads /\ k.regs = m.regs
      /\ k.up = m.up /\ k.ending = m.ending
      /\ k.era = m.era /\ k.unified = m.unified /\ k.partial = m.partial
      /\ k.connected = m.connected /\ k.cache = m.cache
  BY <1>1 DEF MuxState
<1> HIDE DEF k
<1>3. Layered(k) /\ Numbered(k) /\ Served(k) /\ Awaited(k)
  BY <1>2 DEF Good, Sound, Layered, Numbered, Served, Awaited
<1>4. Step(m, k)
  BY <1>2, <1>3 DEF Good, Sound, Step, Kept
<1> QED  BY <1>2, <1>4 DEF k

\* Steps compose.
LEMMA StepTwice ==
    ASSUME NEW m, NEW k, NEW n, Step(m, k), Step(k, n)
    PROVE  Step(m, n)
BY DEF Step, Kept

\* mux_poll_rx_ncp_end, for one channel and for all.
LEMMA EndOneFacts ==
    ASSUME NEW m, Good(m), NEW u \in User
    PROVE  Step(m, EndOne(m, u))
<1> DEFINE s == IF u = "link" THEN [m EXCEPT !.client = 0] ELSE m
<1>1. Step(m, s) /\ s.server = m.server
  <2>1. CASE u = "link"
    BY <2>1, UnservedStep
  <2>2. CASE u # "link"
    BY <2>2 DEF Step, Kept
  <2> QED  BY <2>1, <2>2
<1>2. EndOne(m, u) = IF m.server[u] = 0 THEN s ELSE Disconnected([s EXCEPT !.server[u] = 0], u)
  BY DEF EndOne
<1> HIDE DEF s
<1>3. CASE m.server[u] = 0
  BY <1>1, <1>2, <1>3
<1>4. CASE m.server[u] # 0
  <2> DEFINE k == Disconnected([s EXCEPT !.server[u] = 0], u)
  <2>1. Good(s)
    BY <1>1 DEF Step
  <2>2. Step(s, k)
    BY <1>1, <1>4, <2>1, DroppedStep
  <2> HIDE DEF k
  <2>3. Step(m, k)
    BY <1>1, <2>2, StepTwice
  <2> QED  BY <1>2, <1>4, <2>3 DEF k
<1> QED  BY <1>3, <1>4

\* The whole of mux_poll_rx_ncp_end.
LEMMA EndAllFacts ==
    ASSUME NEW m, Good(m)
    PROVE  Step(m, EndAll(m))
<1> DEFINE a == EndOne(m, "clip")
           b == EndOne(a, "ncp")
           c == EndOne(b, "rfsv32")
           d == EndOne(c, "rfsv16")
           e == EndOne(d, "link")
<1>0. {"clip", "ncp", "rfsv32", "rfsv16", "link"} \subseteq User
  BY DEF User
<1>1. EndAll(m) = e
  BY DEF EndAll
<1>2. Step(m, a)
  BY <1>0, EndOneFacts
<1> HIDE DEF a
<1>3. Step(a, b)
  BY <1>0, <1>2, EndOneFacts DEF Step
<1> HIDE DEF b
<1>4. Step(b, c)
  BY <1>0, <1>3, EndOneFacts DEF Step
<1> HIDE DEF c
<1>5. Step(c, d)
  BY <1>0, <1>4, EndOneFacts DEF Step
<1> HIDE DEF d
<1>6. Step(d, e)
  BY <1>0, <1>5, EndOneFacts DEF Step
<1> HIDE DEF e
<1>7. Step(m, b) /\ Step(b, d)
  BY <1>2, <1>3, <1>4, <1>5, StepTwice
<1>8. Step(m, d)
  BY <1>7, StepTwice
<1> QED  BY <1>1, <1>6, <1>8, StepTwice

\* What the end of the cache, and of unified.c, leaves of m.
CacheGone(m, k) ==
    /\ Sound(k) /\ k.cache = "off"
    /\ k.up = m.up /\ k.ending = m.ending /\ k.era = m.era /\ k.regs = m.regs
    /\ k.unified = m.unified /\ k.partial = m.partial /\ k.connected = m.connected
    /\ k.client = m.client
    /\ k.open = m.open \ {"clip"} /\ k.share = m.share \ {"clip"} /\ k.uploads = m.uploads

\* cache_end ends the clipboard, whatever state the cache is in.
LEMMA CacheEndFacts ==
    ASSUME NEW m, Sound(m), NEW now
    PROVE  CacheGone(m, CacheEnd(m, now))
<1>1. m \in MuxState /\ "clip" \in Uploaders /\ "clip" \notin Shared
  BY DEF Sound, Uploaders, Shared
<1>2. CASE m.cache = "off"
  <2>1. "clip" \notin m.open /\ "clip" \notin m.share
    BY <1>1, <1>2 DEF Sound, Layered, MuxState
  <2>2. CacheGone(m, m)
    BY <1>2, <2>1 DEF CacheGone
  <2> QED  BY <1>2, <2>2 DEF CacheEnd
<1>3. CASE m.cache # "off"
  <2> DEFINE n == LeafEnd(m, "clip", now)
             k == [n EXCEPT !.cache = "off"]
  <2>1. CacheEnd(m, now) = k
    BY <1>3 DEF CacheEnd
  <2>2. Removed(m, "clip", n)
    BY <1>1, LeafEndFacts
  <2> HIDE DEF n
  <2>3. n \in MuxState /\ Numbered(n) /\ Served(n) /\ Layered(n)
    BY <2>2 DEF Removed, Sound
  <2>4. k \in MuxState /\ k.cache = "off" /\ k.ctrl = n.ctrl /\ k.open = n.open /\ k.num = n.num
        /\ k.share = n.share /\ k.server = n.server /\ k.uploads = n.uploads /\ k.regs = n.regs
        /\ k.up = n.up /\ k.ending = n.ending
        /\ k.era = n.era /\ k.unified = n.unified /\ k.partial = n.partial
        /\ k.connected = n.connected /\ k.client = n.client
    BY <2>3 DEF MuxState
  <2> HIDE DEF k
  <2>5. Numbered(k) /\ Served(k)
    BY <2>3, <2>4 DEF Numbered, Served
  <2>6. Layered(k)
    BY <2>2, <2>3, <2>4 DEF Layered, Removed
  <2>7. CacheGone(m, k)
    BY <2>2, <2>4, <2>5, <2>6 DEF CacheGone, Removed, Same, Sound
  <2> QED  BY <2>1, <2>7
<1> QED  BY <1>2, <1>3

UnifiedGone(m, k) ==
    /\ Good(k) /\ ~k.unified /\ k.open = m.open \cap {"link"}
    /\ k.up = m.up /\ k.ending = m.ending /\ k.era = m.era /\ k.client = m.client

\* unified_end ends every channel but the LINK channel, and every upload.
LEMMA UnifiedEndFacts ==
    ASSUME NEW m, Good(m), NEW now
    PROVE  UnifiedGone(m, UnifiedEnd(m, now))
<1>1. m \in MuxState /\ Sound(m) /\ Awaited(m) /\ (m.regs # <<>> => "link" \in m.share)
  BY GoodParts
<1>2. CASE ~m.unified
  <2>1. m.open = m.open \cap {"link"}
    BY <1>2, GoodParts DEF Layered
  <2>2. UnifiedGone(m, m)
    BY <1>2, <2>1 DEF UnifiedGone
  <2> QED  BY <1>2, <2>2 DEF UnifiedEnd
<1>3. CASE m.unified
  <2> DEFINE a == CacheEnd(m, now)
             b == LeafEnd(a, "ncp", now)
             c == FilesEnd(b, "rfsv32", now)
             d == FilesEnd(c, "rfsv16", now)
             k == [d EXCEPT !.partial = FALSE, !.connected = FALSE, !.unified = FALSE]
  <2>1. UnifiedEnd(m, now) = k
    BY <1>3 DEF UnifiedEnd
  <2>2. CacheGone(m, a)
    BY <1>1, CacheEndFacts
  <2> HIDE DEF a
  <2>3. Removed(a, "ncp", b)
    <3>1. "ncp" \in Uploaders /\ Sound(a)
      BY <2>2 DEF Uploaders, CacheGone
    <3> QED  BY <3>1, LeafEndFacts
  <2> HIDE DEF b
  <2>4. FilesGone(b, "rfsv32", c)
    <3>1. "rfsv32" \in Files /\ Sound(b)
      BY <2>3 DEF Files, Removed
    <3> QED  BY <3>1, FilesEndFacts
  <2> HIDE DEF c
  <2>5. FilesGone(c, "rfsv16", d)
    <3>1. "rfsv16" \in Files /\ Sound(c)
      BY <2>4 DEF Files, FilesGone, Below
    <3> QED  BY <3>1, FilesEndFacts
  <2> HIDE DEF d
  <2>6. d \in MuxState /\ Numbered(d) /\ Served(d) /\ Layered(d)
    BY <2>5 DEF FilesGone, Below, Sound
  <2>7. /\ d.up = m.up /\ d.ending = m.ending /\ d.era = m.era /\ d.client = m.client
        /\ d.regs = m.regs /\ d.cache = "off"
    BY <2>2, <2>3, <2>4, <2>5 DEF CacheGone, Removed, FilesGone, Below, Same
  <2>8. /\ "link" \in d.open <=> "link" \in m.open
        /\ "link" \in d.share <=> "link" \in m.share
    BY <2>2, <2>3, <2>4, <2>5 DEF CacheGone, Removed, FilesGone, Below
  <2>9. d.open = m.open \cap {"link"}
    <3>1. "clip" \notin d.open /\ "ncp" \notin d.open /\ "rfsv32" \notin d.open
          /\ "rfsv16" \notin d.open
      BY <2>2, <2>3, <2>4, <2>5 DEF CacheGone, Removed, FilesGone, Below
    <3>2. d.open \subseteq {"link"}
      BY <2>6, <3>1 DEF MuxState, User
    <3> QED  BY <2>8, <3>2
  <2>10. d.uploads = {}
    <3>1. CASE m.uploads = {}
      BY <2>2, <2>3, <2>4, <2>5, <3>1 DEF CacheGone, Removed, FilesGone
    <3>2. CASE m.uploads # {}
      <4>1. m.share \cap Files # {} /\ "ncp" \notin Files /\ "clip" \notin Files
        BY <1>1, <3>2 DEF Awaited, Files
      <4>2. b.share \cap Files = m.share \cap Files
        BY <2>2, <2>3, <4>1 DEF CacheGone, Removed
      <4>3. CASE "rfsv32" \in b.share
        BY <2>4, <2>5, <4>3 DEF FilesGone
      <4>4. CASE "rfsv32" \notin b.share
        <5>1. "rfsv16" \in b.share /\ "rfsv16" \in Files /\ "rfsv32" \in Files
          BY <4>1, <4>2, <4>4 DEF Files
        <5>2. "rfsv16" \in c.share
          BY <2>4, <5>1 DEF FilesGone
        <5> QED  BY <2>5, <5>2 DEF FilesGone
      <4> QED  BY <4>3, <4>4
    <3> QED  BY <3>1, <3>2
  <2>11. /\ k \in MuxState /\ ~k.unified /\ ~k.partial /\ ~k.connected /\ k.cache = "off"
         /\ k.ctrl = d.ctrl /\ k.open = d.open /\ k.num = d.num /\ k.share = d.share
         /\ k.server = d.server /\ k.uploads = d.uploads /\ k.regs = d.regs
         /\ k.up = d.up /\ k.ending = d.ending /\ k.era = d.era /\ k.client = d.client
    BY <2>6, <2>7 DEF MuxState
  <2> HIDE DEF k
  <2>12. Numbered(k) /\ Served(k)
    BY <2>6, <2>11 DEF Numbered, Served
  <2>13. Layered(k)
    BY <2>6, <2>9, <2>11 DEF Layered
  <2>14. Awaited(k) /\ (k.regs # <<>> => "link" \in k.share)
    BY <1>1, <2>7, <2>8, <2>10, <2>11 DEF Awaited
  <2>15. UnifiedGone(m, k)
    BY <2>7, <2>9, <2>11, <2>12, <2>13, <2>14 DEF UnifiedGone, Good, Sound
  <2> QED  BY <2>1, <2>15
<1> QED  BY <1>2, <1>3

\* The channel of u with the number of its remote server.
Opened(m, u, q) ==
    [m EXCEPT !.open = @ \cup {u}, !.num = [@ EXCEPT ![u] = RemoteNum[u]],
              !.server = [@ EXCEPT ![u] = 0], !.retried = @ \ {u}, !.ctrl = q]

\* A new channel gets the smallest number that no channel has.
LEMMA NumberIs ==
    ASSUME NEW m, NEW r \in 1 .. 4, 1 .. (r - 1) \subseteq NumbersUsed(m), r \notin NumbersUsed(m)
    PROVE  NextNumber(m) = r
<1> DEFINE T == (Num \ {0}) \ NumbersUsed(m)
           n == CHOOSE i \in T : \A k \in T : i <= k
<1>1. r \in T /\ T \subseteq 1 .. 5
  BY DEF Num
<1>2. \A k \in T : r <= k
  BY <1>1
<1>3. NextNumber(m) = n
  BY DEF NextNumber, Smallest
<1> HIDE DEF T
<1>4. n \in T /\ \A k \in T : n <= k
  BY <1>1, <1>2
<1> HIDE DEF n
<1>5. n <= r /\ r <= n /\ n \in Int /\ r \in Int
  BY <1>1, <1>2, <1>4
<1>6. n = r
  BY <1>5
<1> QED  BY <1>3, <1>6

\* mux_chan_create, when every channel below is there and the layer is started.
LEMMA OpenedFacts ==
    ASSUME NEW m, Good(m), NEW u \in User, u \notin m.open,
           1 .. (RemoteNum[u] - 1) \subseteq NumbersUsed(m), RemoteNum[u] \notin NumbersUsed(m),
           u # "link" => m.unified, u = "clip" => m.cache = "connected",
           u = "rfsv32" => m.era, u = "rfsv16" => ~m.era
    PROVE  /\ Good(ChanCreate(m, u))
           /\ ChanCreate(m, u).open = m.open \cup {u}
           /\ ChanCreate(m, u).up = m.up /\ ChanCreate(m, u).ending = m.ending
           /\ ChanCreate(m, u) = Opened(m, u, Append(m.ctrl, Connect(RemoteNum[u], u)))
<1> DEFINE f == Connect(RemoteNum[u], u)
           q == Append(m.ctrl, f)
           k == Opened(m, u, q)
<1>1. m \in MuxState /\ CtrlOK(m.ctrl) /\ Numbered(m) /\ Served(m) /\ Layered(m) /\ Awaited(m)
      /\ (m.regs # <<>> => "link" \in m.share)
  BY GoodParts
<1>2. RemoteNum[u] \in 1 .. 4
  BY Numbers
<1>3. NextNumber(m) = RemoteNum[u]
  BY <1>2, NumberIs
<1>4. CtrlOK(q) /\ q \in Seq(Ctrl)
  <2>1. f \in Ctrl /\ ConnectOK(f)
    <3>1. RemoteNum[u] \in Num
      BY <1>2 DEF Num
    <3> QED  BY <3>1, CtrlFacts
  <2> HIDE DEF f
  <2>2. CtrlOK(q)
    BY <1>1, <2>1, CtrlQueued
  <2> QED  BY <2>2 DEF CtrlOK
<1>5. ChanCreate(m, u) = k
  BY <1>1, <1>3 DEF ChanCreate, Queue, Opened, MuxState
<1> HIDE DEF q, f
<1>6. [m.num EXCEPT ![u] = RemoteNum[u]] \in [User -> Num]
      /\ [m.server EXCEPT ![u] = 0] \in [User -> Num]
  BY <1>1, <1>2 DEF MuxState, Num
<1>7. k \in MuxState
  BY <1>1, <1>4, <1>6 DEF MuxState, Opened
<1>8. /\ k.open = m.open \cup {u} /\ k.num = [m.num EXCEPT ![u] = RemoteNum[u]]
      /\ k.server = [m.server EXCEPT ![u] = 0] /\ k.ctrl = q /\ k.share = m.share
      /\ k.uploads = m.uploads /\ k.regs = m.regs
      /\ k.up = m.up /\ k.ending = m.ending
      /\ k.era = m.era /\ k.unified = m.unified /\ k.partial = m.partial
      /\ k.connected = m.connected /\ k.cache = m.cache /\ k.client = m.client
  BY <1>1 DEF MuxState, Opened
<1> HIDE DEF k
<1>9. m.server[u] = 0
  BY <1>1 DEF Served
<1>10. k.server = m.server
  BY <1>1, <1>8, <1>9 DEF MuxState
<1>11. Served(k)
  BY <1>1, <1>8, <1>10 DEF Served
<1>12. Numbered(k)
  <2>1. \A v \in m.open : RemoteNum[v] # RemoteNum[u]
    BY <1>1 DEF Numbered, NumbersUsed
  <2>2. ~(Files \subseteq k.open)
    BY <1>1, <1>8, <2>1, Numbers DEF Numbered, Files
  <2>3. /\ \A v \in User : k.num[v] \in {0, RemoteNum[v]}
        /\ \A v \in k.open : k.num[v] = RemoteNum[v]
    BY <1>1, <1>8 DEF Numbered, MuxState
  <2> QED  BY <1>4, <1>8, <2>2, <2>3 DEF Numbered
<1>13. Layered(k)
  BY <1>1, <1>8 DEF Layered
<1>14. Awaited(k)
  BY <1>1, <1>8 DEF Awaited
<1>15. Good(k)
  BY <1>1, <1>7, <1>8, <1>11, <1>12, <1>13, <1>14 DEF Good, Sound
<1> QED  BY <1>5, <1>8, <1>15 DEF k, q, f

\* unified_start.
LEMMA UnifiedStartFacts ==
    ASSUME NEW m, Good(m), NEW era \in BOOLEAN, m.era = era, ~m.unified, m.open = {"link"}
    PROVE  Step(m, UnifiedStart(m, era))
<1> DEFINE u == IF era THEN "rfsv32" ELSE "rfsv16"
           n == [m EXCEPT !.unified = TRUE]
           k == ChanCreate(n, u)
<1>1. m \in MuxState /\ Numbered(m) /\ Served(m) /\ Layered(m) /\ Awaited(m)
      /\ CtrlOK(m.ctrl) /\ (m.regs # <<>> => "link" \in m.share)
  BY GoodParts
<1>2. u \in User /\ u # "link" /\ u # "clip" /\ RemoteNum[u] = 2
      /\ (u = "rfsv32" <=> era) /\ (u = "rfsv16" <=> ~era)
  BY Numbers DEF User
<1> HIDE DEF u
<1>3. /\ n \in MuxState /\ n.unified /\ n.ctrl = m.ctrl /\ n.open = m.open /\ n.num = m.num
      /\ n.share = m.share /\ n.server = m.server /\ n.uploads = m.uploads /\ n.regs = m.regs
      /\ n.up = m.up /\ n.ending = m.ending /\ n.retried = m.retried
      /\ n.era = m.era /\ n.partial = m.partial
      /\ n.connected = m.connected /\ n.cache = m.cache /\ n.client = m.client
  BY <1>1 DEF MuxState
<1> HIDE DEF n
<1>4. Good(n)
  <2>1. Numbered(n) /\ Served(n) /\ Layered(n) /\ Awaited(n)
    BY <1>1, <1>3 DEF Numbered, Served, Layered, Awaited
  <2> QED  BY <1>1, <1>3, <2>1 DEF Good, Sound
<1>5. NumbersUsed(n) = {1}
  BY <1>1, <1>3, Numbers DEF NumbersUsed, Numbered
<1>6. 1 .. (RemoteNum[u] - 1) \subseteq NumbersUsed(n) /\ RemoteNum[u] \notin NumbersUsed(n)
  BY <1>2, <1>5
<1>7. /\ Good(k) /\ k.open = n.open \cup {u} /\ k.up = n.up /\ k.ending = n.ending
      /\ k = Opened(n, u, Append(n.ctrl, Connect(RemoteNum[u], u)))
  BY <1>2, <1>3, <1>4, <1>6, OpenedFacts
<1>8. UnifiedStart(m, era) = k
  <2> DEFINE q == Append(m.ctrl, Connect(RemoteNum[u], u))
  <2>1. u \notin m.open
    BY <1>2
  <2>2. NextNumber(m) = RemoteNum[u]
    <3>1. NumbersUsed(m) = {1}
      BY <1>1, Numbers DEF NumbersUsed, Numbered
    <3> QED  BY <1>2, <3>1, NumberIs
  <2>3. ChanCreate(m, u) = Opened(m, u, q)
    BY <1>1, <2>1, <2>2 DEF ChanCreate, Queue, Opened, MuxState
  <2>4. UnifiedStart(m, era) = [Opened(m, u, q) EXCEPT !.unified = TRUE]
    BY <2>3 DEF UnifiedStart, u
  <2>5. k = Opened(n, u, q)
    BY <1>3, <1>7
  <2> HIDE DEF q, k
  <2>6. [Opened(m, u, q) EXCEPT !.unified = TRUE] = Opened(n, u, q)
    BY <1>1 DEF Opened, MuxState, n
  <2> QED  BY <2>4, <2>5, <2>6
<1> HIDE DEF k
<1>9. Step(m, k)
  BY <1>2, <1>3, <1>7 DEF Step, Kept
<1> QED  BY <1>8, <1>9

\* What unified_update leaves of m: the layers agree with the shares.
Updated(m, k) ==
    /\ Step(m, k) /\ k.unified = m.unified
    /\ k.connected => "ncp" \in k.share /\ k.share \cap Files # {}

\* unified_update.
LEMMA UnifiedUpdateFacts ==
    ASSUME NEW m, Good(m), m.unified
    PROVE  Updated(m, UnifiedUpdate(m))
<1> DEFINE partial == m.share \cap Files # {}
           connected == partial /\ "ncp" \in m.share
           n == [m EXCEPT !.partial = partial, !.connected = connected]
<1>1. m \in MuxState /\ Numbered(m) /\ Served(m) /\ Layered(m) /\ Awaited(m)
      /\ (m.regs # <<>> => "link" \in m.share)
  BY GoodParts
<1>2. CASE m.partial = partial /\ m.connected = connected
  <2>1. Updated(m, m)
    BY <1>2 DEF Updated, Step, Kept
  <2> QED  BY <1>2, <2>1 DEF UnifiedUpdate
<1>3. CASE ~(m.partial = partial /\ m.connected = connected)
  <2>1. partial \in BOOLEAN /\ connected \in BOOLEAN
    OBVIOUS
  <2>2. UnifiedUpdate(m)
          = IF ~partial THEN CacheEnd(n, TRUE)
            ELSE IF ~connected THEN ChanCreate(n, "ncp")
            ELSE IF m.cache = "off" THEN [n EXCEPT !.cache = "active"] ELSE n
    BY <1>3 DEF UnifiedUpdate
  <2>3. /\ n.partial = partial /\ n.connected = connected /\ n \in MuxState
    <3> HIDE DEF partial, connected
    <3> QED  BY <1>1, <2>1 DEF MuxState
  <2>4. /\ n.ctrl = m.ctrl /\ n.open = m.open /\ n.num = m.num
        /\ n.share = m.share /\ n.server = m.server /\ n.uploads = m.uploads /\ n.regs = m.regs
        /\ n.up = m.up /\ n.ending = m.ending
        /\ n.era = m.era /\ n.unified = m.unified /\ n.cache = m.cache /\ n.client = m.client
    <3> HIDE DEF partial, connected
    <3> QED  BY <1>1 DEF MuxState
  <2> HIDE DEF n
  <2>5. Good(n)
    <3>1. Numbered(n) /\ Served(n) /\ Awaited(n)
      BY <1>1, <2>4 DEF Numbered, Served, Awaited
    <3>2. Layered(n)
      BY <1>1, <2>3, <2>4 DEF Layered
    <3> QED  BY <1>1, <2>3, <2>4, <3>1, <3>2 DEF Good, Sound
  <2>6. CASE ~partial
    <3> DEFINE k == CacheEnd(n, TRUE)
    <3>1. CacheGone(n, k)
      BY <2>5, CacheEndFacts DEF Good
    <3>2. UnifiedUpdate(m) = k
      BY <2>2, <2>6
    <3> HIDE DEF k
    <3>3. Good(k)
      BY <2>5, <3>1 DEF Good, CacheGone, Awaited, Files
    <3>4. ~k.connected
      BY <2>3, <2>6, <3>1 DEF CacheGone
    <3>5. Updated(m, k)
      BY <2>4, <3>1, <3>3, <3>4 DEF Updated, Step, Kept, CacheGone
    <3> QED  BY <3>2, <3>5
  <2>7. CASE partial /\ ~connected
    <3> DEFINE k == ChanCreate(n, "ncp")
    <3>1. UnifiedUpdate(m) = k
      BY <2>2, <2>7
    <3>2. CASE "ncp" \in n.open
      <4>1. k = n
        BY <3>2 DEF ChanCreate
      <4>2. Updated(m, n)
        BY <2>3, <2>4, <2>5, <2>7 DEF Updated, Step, Kept
      <4> QED  BY <3>1, <4>1, <4>2
    <3>3. CASE "ncp" \notin n.open
      <4>1. "link" \in n.open /\ n.unified /\ "ncp" \in User
        BY <1>1, <2>4 DEF Layered, User
      <4>2. PICK v \in Files : v \in n.open
        BY <1>1, <2>4, <2>7 DEF Served, Shared, User, Files
      <4>3. n.num["link"] = 1 /\ n.num[v] = 2
        BY <2>4, <4>1, <4>2, <1>1, Numbers DEF Numbered, Files
      <4>4. 1 .. (RemoteNum["ncp"] - 1) \subseteq NumbersUsed(n)
        BY <4>1, <4>2, <4>3, Numbers DEF NumbersUsed
      <4>5. RemoteNum["ncp"] \notin NumbersUsed(n)
        <5>1. \A w \in n.open : w \in User /\ n.num[w] = RemoteNum[w] /\ w # "ncp"
          BY <1>1, <2>4, <3>3 DEF Numbered, MuxState
        <5> QED  BY <5>1, Numbers DEF NumbersUsed, User
      <4>6. Good(k) /\ k.open = n.open \cup {"ncp"} /\ k.up = n.up /\ k.ending = n.ending
            /\ k = Opened(n, "ncp", Append(n.ctrl, Connect(RemoteNum["ncp"], "ncp")))
        BY <2>5, <3>3, <4>1, <4>4, <4>5, OpenedFacts
      <4>7. k.connected = n.connected /\ k.unified = n.unified
        BY <2>3, <4>6 DEF Opened, MuxState
      <4> HIDE DEF k
      <4>8. Updated(m, k)
        BY <2>3, <2>4, <2>7, <4>1, <4>6, <4>7 DEF Updated, Step, Kept
      <4> QED  BY <3>1, <4>8
    <3> QED  BY <3>2, <3>3
  <2>8. CASE partial /\ connected
    <3> DEFINE k == IF m.cache = "off" THEN [n EXCEPT !.cache = "active"] ELSE n
    <3>1. UnifiedUpdate(m) = k
      BY <2>2, <2>8
    <3>2. /\ k \in MuxState /\ k.ctrl = n.ctrl /\ k.open = n.open /\ k.num = n.num
          /\ k.share = n.share /\ k.server = n.server /\ k.uploads = n.uploads
          /\ k.regs = n.regs /\ k.up = n.up /\ k.ending = n.ending
          /\ k.era = n.era /\ k.unified = n.unified /\ k.partial = n.partial
          /\ k.connected = n.connected /\ k.client = n.client
          /\ IF m.cache = "off" THEN k.cache = "active" ELSE k.cache = n.cache
      BY <2>3 DEF MuxState
    <3> HIDE DEF k
    <3>3. Numbered(k) /\ Served(k) /\ Awaited(k) /\ (k.regs # <<>> => "link" \in k.share)
      BY <2>5, <3>2 DEF Good, Sound, Numbered, Served, Awaited
    <3>4. Layered(k)
      BY <1>1, <2>4, <2>5, <3>2 DEF Good, Sound, Layered
    <3>5. Good(k)
      BY <3>2, <3>3, <3>4 DEF Good, Sound
    <3>6. Updated(m, k)
      BY <2>4, <2>8, <3>2, <3>5 DEF Updated, Step, Kept
    <3> QED  BY <3>1, <3>6
  <2> QED  BY <2>6, <2>7, <2>8
<1> QED  BY <1>2, <1>3

\* cache_poll: the clipboard is the last channel, with the last number.
LEMMA CachePollFacts ==
    ASSUME NEW m, Good(m), NEW found,
           m.unified, m.connected => "ncp" \in m.share /\ m.share \cap Files # {}
    PROVE  Step(m, CachePoll(m, found))
<1>1. m \in MuxState /\ Numbered(m) /\ Served(m) /\ Layered(m) /\ Awaited(m)
      /\ (m.regs # <<>> => "link" \in m.share)
  BY GoodParts
<1>2. CASE ~(m.connected /\ m.cache = "active" /\ found)
  BY <1>2 DEF CachePoll, Step, Kept
<1>3. CASE m.connected /\ m.cache = "active" /\ found
  <2> DEFINE n == [m EXCEPT !.cache = "connected"]
             k == ChanCreate(n, "clip")
  <2>1. CachePoll(m, found) = IF "rfsv32" \in m.share THEN k ELSE n
    BY <1>3 DEF CachePoll
  <2>2. /\ n \in MuxState /\ n.cache = "connected" /\ n.ctrl = m.ctrl /\ n.open = m.open
        /\ n.num = m.num /\ n.share = m.share /\ n.server = m.server
        /\ n.uploads = m.uploads /\ n.regs = m.regs /\ n.up = m.up /\ n.ending = m.ending
        /\ n.era = m.era /\ n.unified = m.unified /\ n.partial = m.partial
        /\ n.connected = m.connected /\ n.client = m.client
    BY <1>1 DEF MuxState
  <2> HIDE DEF n
  <2>3. Numbered(n) /\ Served(n) /\ Awaited(n) /\ (n.regs # <<>> => "link" \in n.share)
    BY <1>1, <2>2 DEF Numbered, Served, Awaited
  <2>4. Layered(n)
    BY <1>1, <1>3, <2>2 DEF Layered
  <2>5. Good(n)
    BY <2>2, <2>3, <2>4 DEF Good, Sound
  <2>6. CASE "rfsv32" \notin m.share
    BY <2>1, <2>2, <2>5, <2>6 DEF Step, Kept
  <2>7. CASE "rfsv32" \in m.share /\ "clip" \in n.open
    <3>1. k = n
      BY <2>7 DEF ChanCreate
    <3> QED  BY <2>1, <2>2, <2>5, <2>7, <3>1 DEF Step, Kept
  <2>8. CASE "rfsv32" \in m.share /\ "clip" \notin n.open
    <3>1. "link" \in n.open /\ "ncp" \in n.open /\ "rfsv32" \in n.open /\ "clip" \in User
          /\ "clip" # "link" /\ n.unified
      BY <1>1, <1>3, <2>2, <2>8 DEF Layered, Served, Shared, User
    <3>2. 1 .. (RemoteNum["clip"] - 1) \subseteq NumbersUsed(n)
      <4>1. n.num["link"] = 1 /\ n.num["rfsv32"] = 2 /\ n.num["ncp"] = 3
        BY <2>3, <3>1, Numbers DEF Numbered
      <4> QED  BY <3>1, <4>1, Numbers DEF NumbersUsed
    <3>3. RemoteNum["clip"] \notin NumbersUsed(n)
      <4>1. \A w \in n.open : w \in User /\ n.num[w] = RemoteNum[w] /\ w # "clip"
        BY <2>2, <2>3, <2>8 DEF Numbered, MuxState
      <4> QED  BY <4>1, Numbers DEF NumbersUsed, User
    <3>4. Good(k) /\ k.open = n.open \cup {"clip"} /\ k.up = n.up /\ k.ending = n.ending
      BY <2>2, <2>5, <2>8, <3>1, <3>2, <3>3, OpenedFacts
    <3> HIDE DEF k
    <3>5. Step(m, k)
      BY <2>2, <3>1, <3>4 DEF Step, Kept
    <3> QED  BY <2>1, <2>8, <3>5
  <2> QED  BY <2>6, <2>7, <2>8
<1> QED  BY <1>2, <1>3

\* What the end of every layer leaves of m.
Ended(m, k) == Good(k) /\ k.open = {} /\ k.up = m.up /\ k.ending = m.ending

\* lnkchan_end, after every other channel.
LEMMA LinkEndFacts ==
    ASSUME NEW m, Good(m), NEW now, ~m.unified, m.open \subseteq {"link"}
    PROVE  Ended(m, LinkEnd(m, now))
<1>1. m \in MuxState /\ Served(m)
  BY GoodParts
<1>2. CASE "link" \notin m.open
  BY <1>2 DEF LinkEnd, Ended
<1>3. CASE "link" \in m.open
  <2> DEFINE told == IF m.client = 0 \/ now THEN m ELSE Queue(m, Closed(m.client))
             alone == [told EXCEPT !.client = 0]
             gone == LinkDisconnected(ChanDisconnect(alone, "link", now), "link")
             left == IF alone.server["link"] = 0 THEN alone ELSE gone
             k == [left EXCEPT !.open = @ \ {"link"}]
  <2>1. LinkEnd(m, now) = k
    BY <1>3 DEF LinkEnd, ChanDestroy
  <2>2. Step(m, told) /\ told.open = m.open /\ told.unified = m.unified
    <3>1. CASE m.client = 0 \/ now
      BY <3>1 DEF Step, Kept
    <3>2. CASE ~(m.client = 0 \/ now)
      <4> DEFINE f == Closed(m.client)
      <4>1. f \in Ctrl /\ ConnectOK(f)
        BY <1>1, CtrlFacts DEF MuxState, Num
      <4> HIDE DEF f
      <4>2. Step(m, Queue(m, f))
        BY <4>1, QueueFacts
      <4>3. Queue(m, f).open = m.open /\ Queue(m, f).unified = m.unified
        BY <1>1 DEF Queue, MuxState
      <4> QED  BY <3>2, <4>2, <4>3 DEF f
    <3> QED  BY <3>1, <3>2
  <2> HIDE DEF told
  <2>3. Good(alone) /\ Step(told, alone) /\ alone.client = 0 /\ alone.open = told.open
        /\ alone.unified = told.unified
    BY <2>2, UnservedStep DEF Step
  <2> HIDE DEF alone
  <2>4. /\ Good(left) /\ left.up = m.up /\ left.ending = m.ending /\ ~left.unified
        /\ left.client = 0 /\ left.open \subseteq {"link"} /\ "link" \notin left.share
    <3>1. CASE alone.server["link"] = 0
      <4>1. "link" \notin alone.share
        BY <2>3, <3>1, GoodParts DEF Served
      <4>2. left = alone
        BY <3>1
      <4> HIDE DEF left
      <4> QED  BY <2>2, <2>3, <4>1, <4>2 DEF Step, Kept
    <3>2. CASE alone.server["link"] # 0
      <4>1. "link" \in User /\ Sound(alone)
        BY <2>3, GoodParts DEF User
      <4>2. PICK q : /\ CtrlOK(q)
                     /\ ChanDisconnect(alone, "link", now)
                          = [alone EXCEPT !.ctrl = q, !.server = [@ EXCEPT !["link"] = 0]]
        BY <4>1, AskedCtrl
      <4>3. Dropped(alone, "link", gone)
        BY <2>3, <4>2, LinkDropped
      <4>4. left = gone
        BY <3>2
      <4> HIDE DEF left, gone
      <4> QED  BY <2>2, <2>3, <4>3, <4>4 DEF Step, Kept, Dropped
    <3> QED  BY <3>1, <3>2
  <2> HIDE DEF gone, left
  <2>5. left \in MuxState /\ Numbered(left) /\ Served(left) /\ Layered(left) /\ Awaited(left)
        /\ left.regs = <<>>
    BY <2>4, GoodParts
  <2>6. /\ k \in MuxState /\ k.open = {} /\ k.client = 0 /\ k.ctrl = left.ctrl
        /\ k.num = left.num /\ k.share = left.share /\ k.server = left.server
        /\ k.uploads = left.uploads /\ k.regs = left.regs
        /\ k.up = left.up /\ k.ending = left.ending
        /\ k.era = left.era /\ k.unified = left.unified /\ k.partial = left.partial
        /\ k.connected = left.connected /\ k.cache = left.cache
    BY <2>4, <2>5 DEF MuxState
  <2> HIDE DEF k
  <2>7. \A u \in User : left.server[u] = 0
    <3>1. left.server["link"] = 0
      BY <2>4, <2>5 DEF Served, Shared, User
    <3> QED  BY <2>4, <2>5, <3>1 DEF Served
  <2>8. Served(k) /\ Numbered(k)
    BY <2>5, <2>6, <2>7 DEF Served, Numbered, Files
  <2>9. Layered(k)
    BY <2>4, <2>5, <2>6 DEF Layered
  <2>10. Awaited(k)
    BY <2>5, <2>6 DEF Awaited
  <2>11. Ended(m, k)
    BY <2>4, <2>5, <2>6, <2>8, <2>9, <2>10 DEF Ended, Good, Sound
  <2> QED  BY <2>1, <2>11
<1> QED  BY <1>2, <1>3

\* mux_end leaves no channel.
LEMMA AllEndedFacts ==
    ASSUME NEW m, Good(m), NEW now
    PROVE  Ended(m, AllEnded(m, now))
<1> DEFINE n == UnifiedEnd(m, now)
           k == LinkEnd(n, now)
<1>1. UnifiedGone(m, n)
  BY UnifiedEndFacts
<1> HIDE DEF n
<1>2. Ended(n, k)
  BY <1>1, LinkEndFacts DEF UnifiedGone
<1> HIDE DEF k
<1>3. Ended(m, k)
  BY <1>1, <1>2 DEF UnifiedGone, Ended
<1> QED  BY <1>3 DEF AllEnded, n, k

\* A session that has ended has left nothing.
LEMMA EndedIs ==
    ASSUME NEW m, Good(m), m.open = {}
    PROVE  ~m.unified /\ m.regs = <<>> /\ m.uploads = {} /\ m.share = {} /\ m.cache = "off"
           /\ ~m.partial /\ ~m.connected /\ m.client = 0
<1>1. m \in MuxState /\ Served(m) /\ Layered(m) /\ Awaited(m) /\ (m.regs # <<>> => "link" \in m.share)
  BY GoodParts
<1>2. m.share = {}
  BY <1>1 DEF Served, Shared
<1> QED  BY <1>1, <1>2 DEF Layered, Awaited

-----------------------------------------------------------------------------
(* The inductive invariant.                                                *)

\* What is on its way from the remote: a connection is granted with the number
\* of a server to a channel of that number or to none, and an information frame
\* is met only in a session that is running.
Granted(f) ==
    /\ f.kind = "response" /\ f.src # 0 => f.arg \in {0, f.src}
    /\ f.kind = "connect" => f.src = 1
    /\ f.kind = "disconnect" => f.src # 0
Inform(f) == f.kind \in {"era", "sibo"}
InboxOK ==
    /\ inbox \in Seq(Ctrl) /\ Len(inbox) <= InboxMax
    /\ \A i \in DOMAIN inbox : Granted(inbox[i])
    /\ (\E i \in DOMAIN inbox : Inform(inbox[i]))
          => mux.up /\ ~mux.ending /\ "link" \in mux.open

RemoteState ==
    [era : BOOLEAN, alive : BOOLEAN, conns : SUBSET (Num \X User),
     client : {"none", "asked", "connected"}]
OtherOK == phase \in {"rx", "idle", "tx"} /\ remote \in RemoteState

OverOK == ~mux.up \/ mux.ending => mux.open = {}

IInv == Good(mux) /\ OverOK /\ InboxOK /\ OtherOK

\* The ways in which inbox changes within a session.
Moves ==
    \/ inbox' = inbox
    \/ inbox # <<>> /\ inbox' = Tail(inbox)
    \/ \E f \in Ctrl : /\ Granted(f) /\ ~Inform(f) /\ Len(inbox) < InboxMax
                       /\ inbox' = Append(inbox, f)

\* What they keep of inbox.
LEMMA InboxNext ==
    ASSUME InboxOK, Moves
    PROVE  /\ inbox' \in Seq(Ctrl) /\ Len(inbox') <= InboxMax
           /\ \A i \in DOMAIN inbox' : Granted(inbox'[i])
           /\ (\E i \in DOMAIN inbox' : Inform(inbox'[i]))
                 => \E i \in DOMAIN inbox : Inform(inbox[i])
<1>1. inbox \in Seq(Ctrl) /\ Len(inbox) <= InboxMax /\ Len(inbox) \in Nat /\ InboxMax \in Nat
      /\ \A i \in DOMAIN inbox : Granted(inbox[i])
  BY BoundAssumption DEF InboxOK
<1>2. CASE inbox' = inbox
  BY <1>1, <1>2
<1>3. CASE inbox # <<>> /\ inbox' = Tail(inbox)
  <2>1. /\ inbox' \in Seq(Ctrl) /\ Len(inbox') = Len(inbox) - 1
        /\ \A i \in DOMAIN inbox' : i + 1 \in DOMAIN inbox /\ inbox'[i] = inbox[i + 1]
    BY <1>1, <1>3
  <2> QED  BY <1>1, <2>1
<1>4. CASE \E f \in Ctrl : /\ Granted(f) /\ ~Inform(f) /\ Len(inbox) < InboxMax
                           /\ inbox' = Append(inbox, f)
  <2>1. PICK f \in Ctrl : /\ Granted(f) /\ ~Inform(f) /\ Len(inbox) < InboxMax
                          /\ inbox' = Append(inbox, f)
    BY <1>4
  <2>2. /\ inbox' \in Seq(Ctrl) /\ Len(inbox') = Len(inbox) + 1
        /\ \A i \in DOMAIN inbox' : inbox'[i] = f \/ (i \in DOMAIN inbox /\ inbox'[i] = inbox[i])
    BY <1>1, <2>1
  <2> QED  BY <1>1, <2>1, <2>2
<1> QED  BY <1>2, <1>3, <1>4 DEF Moves

-----------------------------------------------------------------------------
(* The actions.                                                            *)

\* A step of a handler that changes inbox in one of these ways keeps the invariant.
LEMMA StepKeeps ==
    ASSUME IInv, Step(mux, mux'), Moves, OtherOK'
    PROVE  IInv'
<1>1. Good(mux') /\ mux'.up = mux.up /\ mux'.ending = mux.ending
      /\ ("link" \in mux'.open <=> "link" \in mux.open) /\ (mux.open = {} => mux'.open = {})
  BY DEF Step, Kept
<1>2. OverOK'
  BY <1>1 DEF IInv, OverOK
<1>3. InboxOK'
  <2>1. /\ inbox' \in Seq(Ctrl) /\ Len(inbox') <= InboxMax
        /\ \A i \in DOMAIN inbox' : Granted(inbox'[i])
        /\ (\E i \in DOMAIN inbox' : Inform(inbox'[i]))
              => \E i \in DOMAIN inbox : Inform(inbox[i])
    BY InboxNext DEF IInv
  <2> QED  BY <1>1, <2>1 DEF IInv, InboxOK
<1> QED  BY <1>1, <1>2, <1>3 DEF IInv

\* Doing nothing is a step.
LEMMA Unmoved == ASSUME IInv PROVE Step(mux, mux)
BY DEF IInv, Step, Kept

\* The frame that a handler received.
LEMMA Received ==
    ASSUME IInv, NEW kind, Receive(kind)
    PROVE  /\ Head(inbox) \in Ctrl /\ Head(inbox).kind = kind /\ Granted(Head(inbox))
           /\ Inform(Head(inbox)) => mux.up /\ ~mux.ending /\ "link" \in mux.open
           /\ Moves
           /\ phase' \in {"rx", "idle"} => OtherOK'
<1>1. inbox \in Seq(Ctrl) /\ inbox # <<>> /\ Head(inbox).kind = kind /\ inbox' = Tail(inbox)
      /\ remote' = remote
  BY DEF IInv, InboxOK, Receive
<1>2. 1 \in DOMAIN inbox /\ Head(inbox) = inbox[1]
  BY <1>1
<1>3. Head(inbox) \in Ctrl /\ Granted(Head(inbox))
      /\ (Inform(Head(inbox)) => mux.up /\ ~mux.ending /\ "link" \in mux.open)
  BY <1>1, <1>2 DEF IInv, InboxOK
<1> QED  BY <1>1, <1>3 DEF Moves, IInv, OtherOK

\* The parts of a frame.
LEMMA CtrlTyped ==
    ASSUME NEW f \in Ctrl
    PROVE  f.src \in Num /\ f.arg \in Num /\ f.name \in User \cup {"none"}
BY DEF Ctrl

\* The handlers of received frames.
LEMMA RxConnectKeeps == ASSUME IInv, RxConnect PROVE IInv'
<1> DEFINE f == Head(inbox)
           n == [mux EXCEPT !.client = f.src]
<1>1. /\ f \in Ctrl /\ f.kind = "connect" /\ Granted(f) /\ Moves
      /\ phase' \in {"rx", "idle"} => OtherOK'
  BY Received DEF RxConnect
<1>2. f.src = 1 /\ f.src \in Num
  BY <1>1, CtrlTyped DEF Granted
<1>3. Good(mux) /\ mux \in MuxState
  BY GoodParts DEF IInv
<1>4. phase' = "idle"
  BY DEF RxConnect, Continue
<1>5. CASE f.name = "link" /\ "link" \in mux.open /\ mux.client = 0
  <2> DEFINE g == Response(mux.num["link"], f.src)
             k == Queue(n, g)
  <2>1. mux' = k
    BY <1>5 DEF RxConnect, Continue
  <2>2. /\ n \in MuxState /\ n.ctrl = mux.ctrl /\ n.open = mux.open /\ n.num = mux.num
        /\ n.share = mux.share /\ n.server = mux.server /\ n.uploads = mux.uploads
        /\ n.regs = mux.regs /\ n.up = mux.up /\ n.ending = mux.ending
        /\ n.era = mux.era /\ n.unified = mux.unified /\ n.partial = mux.partial
        /\ n.connected = mux.connected /\ n.cache = mux.cache
    BY <1>2, <1>3 DEF MuxState
  <2> HIDE DEF n
  <2>3. Good(n)
    <3>1. Numbered(n) /\ Served(n) /\ Awaited(n)
      BY <1>3, <2>2 DEF Good, Sound, Numbered, Served, Awaited
    <3>2. Layered(n)
      BY <1>3, <1>5, <2>2 DEF Good, Sound, Layered
    <3> QED  BY <1>3, <2>2, <3>1, <3>2 DEF Good, Sound
  <2>4. g \in Ctrl /\ ConnectOK(g)
    <3>1. mux.num["link"] \in Num
      BY <1>3 DEF MuxState, User
    <3> QED  BY <1>2, <3>1, CtrlFacts
  <2> HIDE DEF g
  <2>5. Step(n, k)
    BY <2>3, <2>4, QueueFacts
  <2>6. Step(mux, n)
    BY <2>2, <2>3 DEF Step, Kept
  <2> HIDE DEF k
  <2>7. Step(mux, k)
    BY <2>5, <2>6, StepTwice
  <2> QED  BY <1>1, <1>4, <2>1, <2>7, StepKeeps
<1>6. CASE ~(f.name = "link" /\ "link" \in mux.open /\ mux.client = 0)
  <2> DEFINE g == Response(0, f.src)
             k == Queue(mux, g)
  <2>1. mux' = k
    BY <1>6 DEF RxConnect, Continue
  <2>2. g \in Ctrl /\ ConnectOK(g)
    <3>1. 0 \in Num
      BY DEF Num
    <3> QED  BY <1>2, <3>1, CtrlFacts
  <2> HIDE DEF g
  <2>3. Step(mux, k)
    BY <1>3, <2>2, QueueFacts
  <2> HIDE DEF k
  <2> QED  BY <1>1, <1>4, <2>1, <2>3, StepKeeps
<1> QED  BY <1>5, <1>6

\* Only the channel that has the number is connected.
LEMMA RxConnectedKeeps == ASSUME IInv, RxConnected PROVE IInv'
<1> DEFINE f == Head(inbox)
<1>1. /\ f \in Ctrl /\ f.kind = "response" /\ Granted(f) /\ Moves
      /\ phase' \in {"rx", "idle"} => OtherOK'
  BY Received DEF RxConnected
<1>2. f.src # 0 /\ f.arg \in {0, f.src} /\ f.src \in Num
  BY <1>1, CtrlTyped DEF Granted, RxConnected
<1>3. Good(mux) /\ mux \in MuxState /\ phase' = "idle"
  BY GoodParts DEF IInv, RxConnected, Continue
<1>4. CASE mux' = mux
  BY <1>1, <1>3, <1>4, Unmoved, StepKeeps
<1>5. CASE \E u \in Found(f.arg) :
              mux' = [mux EXCEPT !.server[u] = f.src, !.share = @ \cup ({u} \cap Shared)]
  <2>1. PICK u \in Found(f.arg) :
              mux' = [mux EXCEPT !.server[u] = f.src, !.share = @ \cup ({u} \cap Shared)]
    BY <1>5
  <2> DEFINE k == [mux EXCEPT !.server = [@ EXCEPT ![u] = f.src], !.share = @ \cup ({u} \cap Shared)]
  <2>2. u \in mux.open /\ u \in User /\ mux.num[u] = f.arg /\ RemoteNum[u] = f.src
    <3>1. u \in mux.open /\ u \in User /\ mux.num[u] = f.arg /\ mux.num[u] = RemoteNum[u]
      BY <1>3 DEF Found, Good, Sound, Numbered, MuxState
    <3>2. RemoteNum[u] \in 1 .. 4
      BY <3>1, Numbers
    <3> QED  BY <1>2, <3>1, <3>2
  <2>3. mux' = k
    BY <1>3, <2>1 DEF MuxState
  <2> HIDE DEF f
  <2>4. [mux.server EXCEPT ![u] = f.src] \in [User -> Num]
    BY <1>2, <1>3, <2>2 DEF MuxState
  <2>5. k \in MuxState
    <3>1. mux.share \cup ({u} \cap Shared) \in SUBSET Shared
      BY <1>3 DEF MuxState
    <3> QED  BY <1>3, <2>4, <3>1 DEF MuxState
  <2>6. /\ k.ctrl = mux.ctrl /\ k.open = mux.open /\ k.num = mux.num
        /\ k.share = mux.share \cup ({u} \cap Shared)
        /\ k.server = [mux.server EXCEPT ![u] = f.src] /\ k.uploads = mux.uploads
        /\ k.regs = mux.regs /\ k.up = mux.up /\ k.ending = mux.ending
        /\ k.era = mux.era /\ k.unified = mux.unified /\ k.partial = mux.partial
        /\ k.connected = mux.connected /\ k.cache = mux.cache /\ k.client = mux.client
    BY <1>3 DEF MuxState
  <2> HIDE DEF k
  <2>7. Numbered(k)
    BY <1>3, <2>6 DEF Good, Sound, Numbered
  <2>8. Layered(k)
    BY <1>3, <2>6 DEF Good, Sound, Layered
  <2>9. Served(k)
    <3>1. \A v \in User : k.server[v] = IF v = u THEN RemoteNum[u] ELSE mux.server[v]
      BY <1>3, <2>2, <2>6 DEF MuxState
    <3>2. RemoteNum[u] # 0
      BY <1>2, <2>2
    <3>3. Shared \subseteq User
      BY DEF Shared
    <3> QED  BY <1>3, <2>2, <2>6, <3>1, <3>2, <3>3 DEF Good, Sound, Served
  <2>10. Awaited(k) /\ (k.regs # <<>> => "link" \in k.share)
    BY <1>3, <2>6 DEF Good, Awaited
  <2>11. Step(mux, k)
    BY <2>5, <2>6, <2>7, <2>8, <2>9, <2>10 DEF Good, Sound, Step, Kept
  <2> QED  BY <1>1, <1>3, <2>3, <2>11, StepKeeps
<1> QED  BY <1>4, <1>5 DEF RxConnected, Continue

\* A registration waits only while the LINK channel is connected.
LEMMA RxRefusedKeeps == ASSUME IInv, RxRefused PROVE IInv'
<1> DEFINE f == Head(inbox)
<1>1. Moves /\ (phase' \in {"rx", "idle"} => OtherOK')
  BY Received DEF RxRefused
<1>2. Good(mux) /\ mux \in MuxState /\ phase' \in {"rx", "idle"}
  BY GoodParts DEF IInv, RxRefused, Continue, Abort
<1>3. CASE mux' = mux
  BY <1>1, <1>2, <1>3, Unmoved, StepKeeps
<1>4. CASE \E u \in Found(f.arg) : /\ ~(u = "link" \/ "link" \notin mux.share)
                                   /\ mux' = [mux EXCEPT !.regs = Append(@, u)]
  <2>1. PICK u \in Found(f.arg) : /\ ~(u = "link" \/ "link" \notin mux.share)
                                  /\ mux' = [mux EXCEPT !.regs = Append(@, u)]
    BY <1>4
  <2> HIDE DEF f
  <2> DEFINE q == Append(mux.regs, u)
             k == [mux EXCEPT !.regs = q]
  <2>2. q \in Seq(User \ {"link"})
    <3>1. mux.regs \in Seq(User \ {"link"}) /\ u \in User \ {"link"}
      BY <1>2, <2>1 DEF MuxState, Found
    <3> QED  BY <3>1
  <2> HIDE DEF q
  <2>3. /\ k \in MuxState /\ k.ctrl = mux.ctrl /\ k.open = mux.open /\ k.num = mux.num
        /\ k.share = mux.share /\ k.server = mux.server /\ k.uploads = mux.uploads
        /\ k.up = mux.up /\ k.ending = mux.ending
        /\ k.era = mux.era /\ k.unified = mux.unified /\ k.partial = mux.partial
        /\ k.connected = mux.connected /\ k.cache = mux.cache /\ k.client = mux.client
    BY <1>2, <2>2 DEF MuxState
  <2>4. mux' = k
    BY <2>1 DEF q
  <2> HIDE DEF k
  <2>5. Numbered(k) /\ Served(k) /\ Layered(k) /\ Awaited(k)
    BY <1>2, <2>3 DEF Good, Sound, Numbered, Served, Layered, Awaited
  <2>6. Step(mux, k)
    BY <2>1, <2>3, <2>5 DEF Good, Sound, Step, Kept
  <2> QED  BY <1>1, <1>2, <2>4, <2>6, StepKeeps
<1> QED  BY <1>3, <1>4 DEF RxRefused, Continue, Abort

\* The remote closes its connection with us.
LEMMA RxClosedKeeps == ASSUME IInv, RxClosed PROVE IInv'
<1>1. Moves /\ (phase' \in {"rx", "idle"} => OtherOK')
  BY Received DEF RxClosed
<1>2. Good(mux) /\ phase' = "idle" /\ (mux' = mux \/ mux' = [mux EXCEPT !.client = 0])
  BY DEF IInv, RxClosed, Continue
<1>3. Step(mux, mux')
  BY <1>2, Unmoved, UnservedStep
<1> QED  BY <1>1, <1>2, <1>3, StepKeeps

\* The remote ends one of our connections.
LEMMA RxDisconnectKeeps == ASSUME IInv, RxDisconnect PROVE IInv'
<1> DEFINE f == Head(inbox)
<1>1. /\ f \in Ctrl /\ f.kind = "disconnect" /\ Granted(f) /\ Moves
      /\ phase' \in {"rx", "idle"} => OtherOK'
  BY Received DEF RxDisconnect
<1>2. Good(mux) /\ mux \in MuxState /\ phase' = "idle"
  BY GoodParts DEF IInv, RxDisconnect, Continue
<1>3. CASE mux' = mux
  BY <1>1, <1>2, <1>3, Unmoved, StepKeeps
<1>4. CASE \E u \in Found(f.arg) :
              mux.server[u] = f.src /\ mux' = Disconnected([mux EXCEPT !.server[u] = 0], u)
  <2>1. PICK u \in Found(f.arg) :
              mux.server[u] = f.src /\ mux' = Disconnected([mux EXCEPT !.server[u] = 0], u)
    BY <1>4
  <2> HIDE DEF f
  <2>2. u \in User /\ u \in mux.open
    BY <1>2 DEF MuxState, Found
  <2> DEFINE k == Disconnected([mux EXCEPT !.server[u] = 0], u)
  <2>3. mux.server[u] # 0
    BY <1>1, <2>1 DEF Granted, f
  <2>4. Step(mux, k)
    BY <1>2, <2>2, <2>3, DroppedStep
  <2> HIDE DEF k
  <2>5. mux' = k
    BY <2>1 DEF k
  <2> QED  BY <1>1, <1>2, <2>4, <2>5, StepKeeps
<1> QED  BY <1>3, <1>4 DEF RxDisconnect, Continue

\* The dialect is corrected: every layer is ended and started again.
LEMMA RxInfoKeeps == ASSUME IInv, RxInfo PROVE IInv'
<1>1. PICK era \in BOOLEAN :
         /\ Receive(IF era THEN "era" ELSE "sibo")
         /\ Continue(IF era = mux.era THEN mux
                     ELSE UnifiedStart([UnifiedEnd(mux, TRUE) EXCEPT !.era = era], era))
  BY DEF RxInfo
<1> DEFINE kind == IF era THEN "era" ELSE "sibo"
<1>2. /\ Head(inbox).kind = kind /\ Moves
      /\ Inform(Head(inbox)) => mux.up /\ ~mux.ending /\ "link" \in mux.open
      /\ phase' \in {"rx", "idle"} => OtherOK'
  BY <1>1, Received
<1>3. mux.up /\ ~mux.ending /\ "link" \in mux.open
  BY <1>2 DEF Inform
<1>4. Good(mux) /\ phase' = "idle"
  BY <1>1 DEF IInv, Continue
<1>5. CASE era = mux.era
  <2>1. mux' = mux
    BY <1>1, <1>5 DEF Continue
  <2> QED  BY <1>2, <1>4, <2>1, Unmoved, StepKeeps
<1>6. CASE era # mux.era
  <2> DEFINE a == UnifiedEnd(mux, TRUE)
             b == [a EXCEPT !.era = era]
             k == UnifiedStart(b, era)
  <2>1. mux' = k
    BY <1>1, <1>6 DEF Continue
  <2>2. UnifiedGone(mux, a)
    BY <1>4, UnifiedEndFacts
  <2> HIDE DEF a
  <2>3. a \in MuxState /\ Numbered(a) /\ Served(a) /\ Layered(a) /\ Awaited(a)
        /\ (a.regs # <<>> => "link" \in a.share) /\ a.open = {"link"} /\ ~a.unified
        /\ a.up = mux.up /\ a.ending = mux.ending
    BY <1>3, <2>2, GoodParts DEF UnifiedGone
  <2>4. /\ b \in MuxState /\ b.era = era /\ b.ctrl = a.ctrl /\ b.open = a.open
        /\ b.num = a.num /\ b.share = a.share /\ b.server = a.server
        /\ b.uploads = a.uploads /\ b.regs = a.regs /\ b.up = a.up /\ b.ending = a.ending
        /\ b.unified = a.unified /\ b.partial = a.partial
        /\ b.connected = a.connected /\ b.cache = a.cache /\ b.client = a.client
    BY <2>3 DEF MuxState
  <2> HIDE DEF b
  <2>5. Numbered(b) /\ Served(b) /\ Awaited(b)
    BY <2>3, <2>4 DEF Numbered, Served, Awaited
  <2>6. Layered(b)
    BY <2>3, <2>4 DEF Layered
  <2>7. Good(b)
    BY <2>3, <2>4, <2>5, <2>6 DEF Good, Sound
  <2>8. Step(b, k)
    BY <2>3, <2>4, <2>7, UnifiedStartFacts
  <2> HIDE DEF k
  <2>9. Step(mux, k)
    BY <1>3, <2>3, <2>4, <2>8 DEF Step, Kept
  <2> QED  BY <1>2, <1>4, <2>1, <2>9, StepKeeps
<1> QED  BY <1>5, <1>6

\* The remote ends.
LEMMA RxNcpEndKeeps == ASSUME IInv, RxNcpEnd PROVE IInv'
<1>1. Moves /\ (phase' \in {"rx", "idle"} => OtherOK')
  BY Received DEF RxNcpEnd
<1>2. phase' = "idle" /\ mux' = EndAll(mux) /\ Good(mux)
  BY DEF IInv, RxNcpEnd, Continue
<1>3. Step(mux, mux')
  BY <1>2, EndAllFacts
<1> QED  BY <1>1, <1>2, <1>3, StepKeeps

\* No frame.
LEMMA NoFrameKeeps == ASSUME IInv, NoFrame PROVE IInv'
<1>1. mux' = mux /\ Moves /\ OtherOK'
  BY DEF NoFrame, Continue, Moves, IInv, OtherOK
<1> QED  BY <1>1, Unmoved, StepKeeps

\* The ends of operations.
LEMMA RegisteredKeeps == ASSUME IInv, Registered PROVE IInv'
<1> DEFINE u == Head(mux.regs)
           q == Tail(mux.regs)
           n == [mux EXCEPT !.regs = q]
<1>1. /\ Moves /\ OtherOK' /\ mux.regs # <<>>
      /\ mux' = RegisterFailed(n, u) \/ mux' = ChanConnect(n, u) \/ mux' = n
  BY DEF Registered, Continue, Moves, IInv, OtherOK
<1>2. Good(mux) /\ mux \in MuxState
  BY GoodParts DEF IInv
<1>3. u \in User /\ u # "link" /\ q \in Seq(User \ {"link"})
  <2>1. mux.regs \in Seq(User \ {"link"})
    BY <1>2 DEF MuxState
  <2> QED  BY <1>1, <2>1
<1> HIDE DEF u, q
<1>4. /\ n \in MuxState /\ n.ctrl = mux.ctrl /\ n.open = mux.open /\ n.num = mux.num
      /\ n.share = mux.share /\ n.server = mux.server /\ n.uploads = mux.uploads
      /\ n.up = mux.up /\ n.ending = mux.ending
      /\ n.era = mux.era /\ n.unified = mux.unified /\ n.partial = mux.partial
      /\ n.connected = mux.connected /\ n.cache = mux.cache /\ n.client = mux.client
  BY <1>2, <1>3 DEF MuxState
<1>5. "link" \in n.share
  BY <1>1, <1>2, <1>4 DEF Good
<1> HIDE DEF n
<1>6. Good(n)
  <2>1. Numbered(n) /\ Served(n) /\ Layered(n) /\ Awaited(n)
    BY <1>2, <1>4 DEF Good, Sound, Numbered, Served, Layered, Awaited
  <2> QED  BY <1>4, <1>5, <2>1 DEF Good, Sound
<1>7. Step(mux, n)
  BY <1>4, <1>6 DEF Step, Kept
<1>8. CASE mux' = RegisterFailed(n, u)
  <2> DEFINE k == RegisterFailed(n, u)
  <2>1. Awaited(k) /\ Below(n, k)
    BY <1>3, <1>6, RegisterFailedFacts DEF Good
  <2> HIDE DEF k
  <2>2. Step(n, k)
    BY <1>5, <2>1 DEF Step, Kept, Good, Below, Same
  <2>3. Step(mux, k)
    BY <1>7, <2>2, StepTwice
  <2> QED  BY <1>1, <1>8, <2>3, StepKeeps DEF k
<1>9. CASE mux' = ChanConnect(n, u)
  <2>1. Step(n, mux')
    BY <1>3, <1>6, <1>9, ConnectFacts
  <2>2. Step(mux, mux')
    BY <1>7, <2>1, StepTwice
  <2> QED  BY <1>1, <2>2, StepKeeps
<1>10. CASE mux' = n
  BY <1>1, <1>7, <1>10, StepKeeps
<1> QED  BY <1>1, <1>8, <1>9, <1>10

\* The end of an upload.
LEMMA UploadedKeeps == ASSUME IInv, Uploaded PROVE IInv'
<1>1. Moves /\ OtherOK'
  BY DEF Uploaded, Continue, Moves, IInv, OtherOK
<1>2. PICK u \in mux.uploads :
         \/ mux' = UploadFailed(mux, u)
         \/ mux' = ChanConnect([mux EXCEPT !.uploads = @ \ {u}], u)
         \/ mux' = [mux EXCEPT !.uploads = @ \ {u}]
  BY DEF Uploaded, Continue
<1> DEFINE n == [mux EXCEPT !.uploads = @ \ {u}]
<1>3. Good(mux) /\ mux \in MuxState /\ Sound(mux) /\ Awaited(mux)
  BY GoodParts DEF IInv
<1>4. u \in Uploaders /\ u \in User /\ u # "link" /\ u \notin Files
  BY <1>3 DEF MuxState, Uploaders, User, Files
<1>5. /\ n \in MuxState /\ n.ctrl = mux.ctrl /\ n.open = mux.open /\ n.num = mux.num
      /\ n.share = mux.share /\ n.server = mux.server /\ n.uploads = mux.uploads \ {u}
      /\ n.up = mux.up /\ n.ending = mux.ending /\ n.regs = mux.regs
      /\ n.era = mux.era /\ n.unified = mux.unified /\ n.partial = mux.partial
      /\ n.connected = mux.connected /\ n.cache = mux.cache /\ n.client = mux.client
  BY <1>3 DEF MuxState
<1>6. CASE mux' = UploadFailed(mux, u)
  <2> DEFINE k == UploadFailed(mux, u)
  <2>1. Failed(mux, u, k)
    BY <1>3, <1>4, UploadFailedFacts
  <2> HIDE DEF k
  <2>2. Step(mux, k)
    BY <1>3, <1>4, <2>1 DEF Step, Kept, Good, Failed, Same, Awaited
  <2> QED  BY <1>1, <1>6, <2>2, StepKeeps DEF k
<1> HIDE DEF n
<1>7. Good(n)
  <2>1. Numbered(n) /\ Served(n) /\ Layered(n) /\ Awaited(n)
    BY <1>3, <1>5 DEF Good, Sound, Numbered, Served, Layered, Awaited
  <2> QED  BY <1>3, <1>5, <2>1 DEF Good, Sound
<1>8. Step(mux, n)
  BY <1>5, <1>7 DEF Step, Kept
<1>9. CASE mux' = ChanConnect(n, u)
  <2>1. Step(n, mux')
    BY <1>4, <1>7, <1>9, ConnectFacts
  <2>2. Step(mux, mux')
    BY <1>8, <2>1, StepTwice
  <2> QED  BY <1>1, <2>2, StepKeeps
<1>10. CASE mux' = n
  BY <1>1, <1>8, <1>10, StepKeeps
<1> QED  BY <1>2, <1>6, <1>9, <1>10 DEF n

\* The idle polls.
LEMMA UnifiedPollKeeps == ASSUME IInv, UnifiedPoll PROVE IInv'
<1>1. Moves /\ OtherOK'
  BY DEF UnifiedPoll, Moves, IInv, OtherOK
<1>2. PICK found \in BOOLEAN :
         mux' = IF mux.unified THEN CachePoll(UnifiedUpdate(mux), found) ELSE mux
  BY DEF UnifiedPoll
<1>3. CASE ~mux.unified
  BY <1>1, <1>2, <1>3, Unmoved, StepKeeps
<1>4. CASE mux.unified
  <2> DEFINE n == UnifiedUpdate(mux)
             k == CachePoll(n, found)
  <2>1. Updated(mux, n)
    BY <1>4, UnifiedUpdateFacts DEF IInv
  <2> HIDE DEF n
  <2>2. Step(n, k)
    BY <1>4, <2>1, CachePollFacts DEF Updated, Step
  <2> HIDE DEF k
  <2>3. Step(mux, k)
    BY <2>1, <2>2, StepTwice DEF Updated
  <2> QED  BY <1>1, <1>2, <1>4, <2>3, StepKeeps DEF n, k
<1> QED  BY <1>3, <1>4

\* A control frame leaves, and the remote handles it.
LEMMA TransmitKeeps == ASSUME IInv, Transmit PROVE IInv'
<1> DEFINE f == Head(mux.ctrl)
           q == Tail(mux.ctrl)
           k == [mux EXCEPT !.ctrl = q]
<1>1. Good(mux) /\ mux \in MuxState /\ CtrlOK(mux.ctrl) /\ mux.ctrl \in Seq(Ctrl)
      /\ mux.ctrl # <<>> /\ mux' = k /\ phase' = "rx" /\ Len(inbox) < InboxMax
      /\ (RemoteConnect(f) \/ RemoteAnswered(f) \/ RemoteTold(f) \/ RemoteLeft(f))
      /\ remote \in RemoteState
  BY GoodParts DEF IInv, Transmit, OtherOK
<1>2. f \in Ctrl /\ ConnectOK(f) /\ CtrlOK(q) /\ q \in Seq(Ctrl)
  <2>1. 1 \in DOMAIN mux.ctrl /\ f = mux.ctrl[1] /\ q \in Seq(Ctrl)
        /\ \A i \in DOMAIN q : i + 1 \in DOMAIN mux.ctrl /\ q[i] = mux.ctrl[i + 1]
    BY <1>1
  <2> QED  BY <1>1, <2>1 DEF CtrlOK
<1>3. f.src \in Num /\ f.arg \in Num
  BY <1>2, CtrlTyped
<1> HIDE DEF f, q
<1>4. Step(mux, k)
  <2>1. /\ k \in MuxState /\ k.ctrl = q /\ k.open = mux.open /\ k.num = mux.num
        /\ k.share = mux.share /\ k.server = mux.server /\ k.uploads = mux.uploads
        /\ k.up = mux.up /\ k.ending = mux.ending /\ k.regs = mux.regs
        /\ k.era = mux.era /\ k.unified = mux.unified /\ k.partial = mux.partial
        /\ k.connected = mux.connected /\ k.cache = mux.cache /\ k.client = mux.client
    BY <1>1, <1>2 DEF MuxState
  <2> HIDE DEF k
  <2>2. Numbered(k) /\ Served(k) /\ Layered(k) /\ Awaited(k)
    BY <1>1, <1>2, <2>1 DEF Good, Sound, Numbered, Served, Layered, Awaited
  <2> QED  BY <1>1, <2>1, <2>2 DEF Good, Sound, Step, Kept
<1> HIDE DEF k
<1>5. CASE RemoteConnect(f)
  <2>1. f.kind = "connect" /\ f.name \in User /\ f.src \in {0, RemoteNum[f.name]}
    BY <1>2, <1>5 DEF RemoteConnect, ConnectOK
  <2>2. RemoteNum[f.name] \in Num /\ 0 \in Num
    BY <2>1, Numbers DEF Num
  <2>3. CASE remote' = [remote EXCEPT !.conns = @ \cup {<<f.src, f.name>>}]
             /\ inbox' = Append(inbox, Response(RemoteNum[f.name], f.src))
    <3> DEFINE g == Response(RemoteNum[f.name], f.src)
    <3>1. g \in Ctrl
      BY <1>3, <2>2, CtrlFacts
    <3>2. Granted(g) /\ ~Inform(g)
      BY <2>1 DEF Response, Granted, Inform
    <3> HIDE DEF g
    <3>3. Moves
      BY <1>1, <2>3, <3>1, <3>2 DEF Moves, g
    <3>4. remote' \in RemoteState
      <4> DEFINE c == remote.conns \cup {<<f.src, f.name>>}
      <4>1. c \in SUBSET (Num \X User)
        BY <1>1, <1>3, <2>1 DEF RemoteState
      <4>2. remote' = [remote EXCEPT !.conns = c]
        BY <2>3
      <4> HIDE DEF c
      <4> QED  BY <1>1, <4>1, <4>2 DEF RemoteState
    <3> QED  BY <1>1, <1>4, <3>3, <3>4, StepKeeps DEF OtherOK
  <2>4. CASE remote' = remote /\ inbox' = Append(inbox, Response(0, f.src))
    <3> DEFINE g == Response(0, f.src)
    <3>1. g \in Ctrl
      BY <1>3, <2>2, CtrlFacts
    <3>2. Granted(g) /\ ~Inform(g)
      BY DEF Response, Granted, Inform
    <3> HIDE DEF g
    <3>3. Moves
      BY <1>1, <2>4, <3>1, <3>2 DEF Moves, g
    <3> QED  BY <1>1, <1>4, <2>4, <3>3, StepKeeps DEF OtherOK
  <2> QED  BY <1>5, <2>3, <2>4 DEF RemoteConnect, Reply
<1>6. CASE RemoteAnswered(f)
  <2>1. Moves
    BY <1>6 DEF RemoteAnswered, Moves
  <2>2. remote' \in RemoteState
    BY <1>1, <1>6 DEF RemoteAnswered, RemoteState
  <2> QED  BY <1>1, <1>4, <2>1, <2>2, StepKeeps DEF OtherOK
<1>7. CASE RemoteTold(f)
  <2>1. Moves /\ remote' = remote
    BY <1>7 DEF RemoteTold, Moves
  <2> QED  BY <1>1, <1>4, <2>1, StepKeeps DEF OtherOK
<1>8. CASE RemoteLeft(f)
  <2>1. Moves
    BY <1>8 DEF RemoteLeft, Moves
  <2>2. remote' \in RemoteState
    <3> DEFINE c == CASE f.kind = "disconnect" ->
                           {x \in remote.conns : x[1] # f.src \/ RemoteNum[x[2]] # f.arg}
                      [] f.kind = "closed" -> remote.conns
                      [] f.kind = "end" -> {}
               a == remote.alive /\ f.kind # "end"
               t == IF f.kind = "disconnect" THEN remote.client ELSE "none"
    <3>1. remote' = [remote EXCEPT !.conns = c, !.alive = a, !.client = t]
      BY <1>8 DEF RemoteLeft
    <3>2. remote.conns \in SUBSET (Num \X User) /\ remote.client \in {"none", "asked", "connected"}
      BY <1>1 DEF RemoteState
    <3>3. c \in SUBSET (Num \X User)
      BY <1>8, <3>2 DEF RemoteLeft
    <3>4. t \in {"none", "asked", "connected"}
      BY <3>2
    <3>5. a \in BOOLEAN
      OBVIOUS
    <3> HIDE DEF c, a, t
    <3> QED  BY <1>1, <3>1, <3>3, <3>4, <3>5 DEF RemoteState
  <2> QED  BY <1>1, <1>4, <2>1, <2>2, StepKeeps DEF OtherOK
<1> QED  BY <1>1, <1>5, <1>6, <1>7, <1>8

\* Nothing is sent.
LEMMA NoTransmitKeeps == ASSUME IInv, NoTransmit PROVE IInv'
<1>1. mux' = mux /\ Moves /\ OtherOK'
  BY DEF NoTransmit, Moves, IInv, OtherOK
<1> QED  BY <1>1, Unmoved, StepKeeps

\* The first frame of a session, on its way.
LEMMA OneFrame ==
    ASSUME NEW f \in Ctrl
    PROVE  <<f>> \in Seq(Ctrl) /\ Len(<<f>>) = 1 /\ DOMAIN <<f>> = {1} /\ <<f>>[1] = f
OBVIOUS

\* A session starts: nothing of the last one is left.
LEMMA SessionStartKeeps == ASSUME IInv, SessionStart PROVE IInv'
<1>1. PICK era \in BOOLEAN, theirs \in BOOLEAN :
         LET m == [mux EXCEPT !.era = era, !.ctrl = <<Info(era)>>] IN
         /\ mux' = IF "link" \notin mux.open /\ 1 \in NumbersUsed(mux) THEN m
                   ELSE [UnifiedStart(ChanCreate(m, "link"), era) EXCEPT !.up = TRUE]
         /\ inbox' = <<Info(theirs)>>
         /\ remote' = [era |-> theirs, alive |-> TRUE, conns |-> {}, client |-> "none"]
  BY DEF SessionStart
<1> DEFINE q == <<Info(era)>>
           n == [mux EXCEPT !.era = era, !.ctrl = q]
           a == ChanCreate(n, "link")
           b == UnifiedStart(a, era)
           k == [b EXCEPT !.up = TRUE]
<1>2. Good(mux) /\ mux \in MuxState /\ ~mux.up /\ ~mux.ending /\ mux.open = {} /\ phase' = "rx"
  BY GoodParts DEF IInv, OverOK, SessionStart
<1>3. Info(era) \in Ctrl /\ ConnectOK(Info(era)) /\ Info(theirs) \in Ctrl
  BY CtrlFacts
<1>4. q \in Seq(Ctrl) /\ CtrlOK(q)
  BY <1>3, OneFrame DEF CtrlOK
<1>5. NumbersUsed(mux) = {} /\ mux' = k
  <2>1. NumbersUsed(mux) = {}
    BY <1>2 DEF NumbersUsed
  <2> QED  BY <1>1, <2>1
<1> HIDE DEF q
<1>6. /\ n \in MuxState /\ n.era = era /\ n.ctrl = q /\ n.open = {}
      /\ n.num = mux.num /\ n.share = mux.share /\ n.server = mux.server
      /\ n.uploads = mux.uploads /\ n.regs = mux.regs /\ n.up = mux.up
      /\ n.ending = mux.ending /\ n.unified = mux.unified /\ n.partial = mux.partial
      /\ n.connected = mux.connected /\ n.cache = mux.cache /\ n.client = mux.client
  BY <1>2, <1>4 DEF MuxState
<1> HIDE DEF n
<1>7. Good(n) /\ ~n.unified
  <2>1. ~mux.unified /\ mux.regs = <<>>
    BY <1>2, EndedIs
  <2>2. Numbered(n) /\ Served(n) /\ Awaited(n)
    BY <1>2, <1>4, <1>6 DEF Good, Sound, Numbered, Served, Awaited
  <2>3. Layered(n)
    BY <1>2, <1>6 DEF Good, Sound, Layered
  <2> QED  BY <1>6, <2>1, <2>2, <2>3 DEF Good, Sound
<1>8. Good(a) /\ a.open = {"link"} /\ a.up = n.up /\ a.ending = n.ending
      /\ ~a.unified /\ a.era = era
  <2>1. NumbersUsed(n) = {}
    BY <1>6 DEF NumbersUsed
  <2>2. "link" \in User /\ 1 .. (RemoteNum["link"] - 1) = {}
    BY Numbers DEF User
  <2>3. /\ Good(a) /\ a.open = n.open \cup {"link"} /\ a.up = n.up /\ a.ending = n.ending
        /\ a = Opened(n, "link", Append(n.ctrl, Connect(RemoteNum["link"], "link")))
    BY <1>6, <1>7, <2>1, <2>2, OpenedFacts
  <2>4. a.unified = n.unified /\ a.era = n.era
    BY <1>6, <2>3 DEF Opened, MuxState
  <2> QED  BY <1>6, <1>7, <2>3, <2>4
<1> HIDE DEF a
<1>9. Step(a, b)
  BY <1>8, UnifiedStartFacts
<1> HIDE DEF b
<1>10. b \in MuxState /\ Numbered(b) /\ Served(b) /\ Layered(b) /\ Awaited(b)
       /\ (b.regs # <<>> => "link" \in b.share) /\ "link" \in b.open /\ ~b.ending
  BY <1>2, <1>6, <1>8, <1>9, GoodParts DEF Step, Kept
<1>11. /\ k \in MuxState /\ k.up /\ k.ctrl = b.ctrl /\ k.open = b.open
       /\ k.num = b.num /\ k.share = b.share /\ k.server = b.server /\ k.era = b.era
       /\ k.uploads = b.uploads /\ k.regs = b.regs
       /\ k.ending = b.ending /\ k.unified = b.unified /\ k.partial = b.partial
       /\ k.connected = b.connected /\ k.cache = b.cache /\ k.client = b.client
  BY <1>10 DEF MuxState
<1> HIDE DEF k
<1>12. Good(k)
  <2>1. Numbered(k) /\ Served(k) /\ Layered(k) /\ Awaited(k)
    BY <1>10, <1>11 DEF Numbered, Served, Layered, Awaited
  <2> QED  BY <1>10, <1>11, <2>1 DEF Good, Sound
<1>13. OverOK'
  BY <1>5, <1>10, <1>11 DEF OverOK
<1>14. InboxOK'
  <2>1. inbox' \in Seq(Ctrl) /\ Len(inbox') = 1 /\ DOMAIN inbox' = {1} /\ inbox'[1] = Info(theirs)
    BY <1>1, <1>3, OneFrame
  <2>2. Granted(Info(theirs))
    BY DEF Granted, Info
  <2>3. 1 <= InboxMax
    BY BoundAssumption
  <2> QED  BY <1>5, <1>10, <1>11, <2>1, <2>2, <2>3 DEF InboxOK
<1>15. OtherOK'
  BY <1>1, <1>2 DEF OtherOK, RemoteState
<1> QED  BY <1>5, <1>12, <1>13, <1>14, <1>15 DEF IInv

\* A session is lost.
LEMMA SessionLostKeeps == ASSUME IInv, SessionLost PROVE IInv'
<1> DEFINE a == AllEnded(mux, TRUE)
           k == [a EXCEPT !.up = FALSE]
<1>1. mux' = k /\ inbox' = <<>> /\ phase' = phase /\ Good(mux)
      /\ remote' = [remote EXCEPT !.alive = FALSE, !.conns = {}, !.client = "none"]
  BY DEF SessionLost, IInv
<1>2. Ended(mux, a)
  BY <1>1, AllEndedFacts
<1> HIDE DEF a
<1>3. a \in MuxState /\ Numbered(a) /\ Served(a) /\ Layered(a) /\ Awaited(a)
      /\ (a.regs # <<>> => "link" \in a.share) /\ a.open = {}
  BY <1>2, GoodParts DEF Ended
<1>4. /\ k \in MuxState /\ k.ctrl = a.ctrl /\ k.open = a.open
      /\ k.num = a.num /\ k.share = a.share /\ k.server = a.server /\ k.era = a.era
      /\ k.uploads = a.uploads /\ k.regs = a.regs
      /\ k.ending = a.ending /\ k.unified = a.unified /\ k.partial = a.partial
      /\ k.connected = a.connected /\ k.cache = a.cache /\ k.client = a.client
  BY <1>3 DEF MuxState
<1> HIDE DEF k
<1>5. Good(k)
  <2>1. Numbered(k) /\ Served(k) /\ Layered(k) /\ Awaited(k)
    BY <1>3, <1>4 DEF Numbered, Served, Layered, Awaited
  <2> QED  BY <1>3, <1>4, <2>1 DEF Good, Sound
<1>6. OverOK'
  BY <1>1, <1>3, <1>4 DEF OverOK
<1>7. InboxOK'
  <2>1. inbox' \in Seq(Ctrl) /\ Len(inbox') = 0 /\ DOMAIN inbox' = {}
    BY <1>1
  <2> QED  BY <2>1, BoundAssumption DEF InboxOK
<1>8. OtherOK'
  BY <1>1 DEF IInv, OtherOK, RemoteState
<1> QED  BY <1>1, <1>5, <1>6, <1>7, <1>8 DEF IInv

\* A session is ended, after the information frame of the remote has come.
LEMMA SessionEndKeeps == ASSUME EndAfterInfo = TRUE, IInv, SessionEnd PROVE IInv'
<1> DEFINE a == AllEnded(mux, FALSE)
           b == Queue(a, NcpEnd)
           k == [b EXCEPT !.ending = TRUE]
<1>1. mux' = k /\ inbox' = inbox /\ phase' = phase /\ remote' = remote /\ Good(mux)
      /\ \A i \in DOMAIN inbox : ~Inform(inbox[i])
  BY DEF SessionEnd, IInv, Inform
<1>2. Ended(mux, a)
  BY <1>1, AllEndedFacts
<1> HIDE DEF a
<1>3. Step(a, b)
  <2>1. NcpEnd \in Ctrl /\ ConnectOK(NcpEnd)
    BY CtrlFacts
  <2> QED  BY <1>2, <2>1, QueueFacts DEF Ended
<1> HIDE DEF b
<1>4. b \in MuxState /\ Numbered(b) /\ Served(b) /\ Layered(b) /\ Awaited(b)
      /\ (b.regs # <<>> => "link" \in b.share) /\ b.open = {}
  BY <1>2, <1>3, GoodParts DEF Ended, Step, Kept
<1>5. /\ k \in MuxState /\ k.ctrl = b.ctrl /\ k.open = b.open
      /\ k.num = b.num /\ k.share = b.share /\ k.server = b.server /\ k.era = b.era
      /\ k.uploads = b.uploads /\ k.regs = b.regs
      /\ k.up = b.up /\ k.unified = b.unified /\ k.partial = b.partial
      /\ k.connected = b.connected /\ k.cache = b.cache /\ k.client = b.client
  BY <1>4 DEF MuxState
<1> HIDE DEF k
<1>6. Good(k)
  <2>1. Numbered(k) /\ Served(k) /\ Layered(k) /\ Awaited(k)
    BY <1>4, <1>5 DEF Numbered, Served, Layered, Awaited
  <2> QED  BY <1>4, <1>5, <2>1 DEF Good, Sound
<1>7. OverOK'
  BY <1>1, <1>4, <1>5 DEF OverOK
<1>8. InboxOK'
  BY <1>1 DEF IInv, InboxOK
<1>9. OtherOK'
  BY <1>1 DEF IInv, OtherOK
<1> QED  BY <1>1, <1>6, <1>7, <1>8, <1>9 DEF IInv

\* A session is over, or its end was given up: nothing of it was left.
LEMMA SessionOver ==
    ASSUME IInv, mux.ending, NEW up \in BOOLEAN, up => mux.up,
           mux' = [mux EXCEPT !.up = up, !.ending = FALSE],
           phase' = phase, inbox' = inbox, remote' = remote
    PROVE  IInv'
<1> DEFINE k == [mux EXCEPT !.up = up, !.ending = FALSE]
<1>1. Good(mux) /\ mux \in MuxState /\ mux.open = {}
      /\ \A i \in DOMAIN inbox : ~Inform(inbox[i])
  BY GoodParts DEF IInv, OverOK, InboxOK
<1>2. mux' = k
  OBVIOUS
<1>3. /\ k \in MuxState /\ k.ctrl = mux.ctrl /\ k.open = mux.open
      /\ k.num = mux.num /\ k.share = mux.share /\ k.server = mux.server /\ k.era = mux.era
      /\ k.uploads = mux.uploads /\ k.regs = mux.regs
      /\ k.unified = mux.unified /\ k.partial = mux.partial
      /\ k.connected = mux.connected /\ k.cache = mux.cache /\ k.client = mux.client
  BY <1>1 DEF MuxState
<1> HIDE DEF k
<1>4. Good(k)
  <2>1. Numbered(k) /\ Served(k) /\ Layered(k) /\ Awaited(k)
    BY <1>1, <1>3 DEF Good, Sound, Numbered, Served, Layered, Awaited
  <2> QED  BY <1>1, <1>3, <2>1 DEF Good, Sound
<1>5. OverOK'
  BY <1>1, <1>2, <1>3 DEF OverOK
<1>6. InboxOK'
  BY <1>1 DEF IInv, InboxOK
<1>7. OtherOK'
  BY DEF IInv, OtherOK
<1> QED  BY <1>2, <1>4, <1>5, <1>6, <1>7 DEF IInv

\* The wait for the control queue ends, or is given up.
LEMMA SessionEndedKeeps == ASSUME IInv, SessionEnded PROVE IInv'
<1>1. mux.ending /\ mux' = [mux EXCEPT !.up = FALSE, !.ending = FALSE]
      /\ phase' = phase /\ inbox' = inbox /\ remote' = remote
  BY DEF SessionEnded
<1> QED  BY <1>1, SessionOver

\* The wait is given up.
LEMMA SessionEscapeKeeps == ASSUME IInv, SessionEscape PROVE IInv'
<1>1. mux.ending /\ mux' = [mux EXCEPT !.ending = FALSE]
      /\ phase' = phase /\ inbox' = inbox /\ remote' = remote
  BY DEF SessionEscape
<1>2. mux \in MuxState /\ mux.up \in BOOLEAN
  <2>1. mux \in MuxState
    BY GoodParts DEF IInv
  <2> QED  BY <2>1 DEF MuxState
<1>3. mux' = [mux EXCEPT !.up = mux.up, !.ending = FALSE]
  BY <1>1, <1>2 DEF MuxState
<1> QED  BY <1>1, <1>2, <1>3, SessionOver

\* A frame that the remote sends of its own accord.
LEMMA SendsKeeps ==
    ASSUME IInv, NEW f \in Ctrl, Granted(f), ~Inform(f), Sends(f), remote' \in RemoteState
    PROVE  IInv'
<1>1. Moves /\ mux' = mux /\ OtherOK'
  BY DEF Sends, Reply, Moves, IInv, OtherOK
<1> QED  BY <1>1, Unmoved, StepKeeps

\* What the remote machine does of its own accord.
LEMMA RemoteKeeps ==
    ASSUME IInv, RemoteLink \/ RemoteLeavesLink \/ RemoteCloses \/ RemoteDrops \/ RemoteEnds
    PROVE  IInv'
<1>1. remote \in RemoteState
  BY DEF IInv, OtherOK
<1>2. 0 \in Num /\ 1 \in Num /\ "link" \in User
  BY DEF Num, User
<1>3. CASE RemoteLink
  <2> DEFINE f == Connect(1, "link")
  <2>1. f \in Ctrl /\ Sends(f)
    BY <1>2, <1>3, CtrlFacts DEF RemoteLink
  <2>2. Granted(f) /\ ~Inform(f)
    BY DEF Connect, Granted, Inform
  <2>3. remote' \in RemoteState
    BY <1>1, <1>3 DEF RemoteLink, RemoteState
  <2> HIDE DEF f
  <2> QED  BY <2>1, <2>2, <2>3, SendsKeeps
<1>4. CASE RemoteLeavesLink
  <2> DEFINE f == Disconnect(1, 1)
  <2>1. f \in Ctrl /\ Sends(f)
    BY <1>2, <1>4, CtrlFacts DEF RemoteLeavesLink
  <2>2. Granted(f) /\ ~Inform(f)
    BY DEF Disconnect, Granted, Inform
  <2>3. remote' \in RemoteState
    BY <1>1, <1>4 DEF RemoteLeavesLink, RemoteState
  <2> HIDE DEF f
  <2> QED  BY <2>1, <2>2, <2>3, SendsKeeps
<1>5. CASE RemoteCloses
  <2>1. PICK x \in remote.conns :
            /\ Sends(Closed(RemoteNum[x[2]]))
            /\ remote' = [remote EXCEPT !.conns = {y \in @ : y[2] # x[2]}]
    <3>1. PICK u \in {x[2] : x \in remote.conns} :
            /\ Sends(Closed(RemoteNum[u]))
            /\ remote' = [remote EXCEPT !.conns = {x \in @ : x[2] # u}]
      BY <1>5 DEF RemoteCloses
    <3>2. PICK x \in remote.conns : u = x[2]
      BY <3>1
    <3> QED  BY <3>1, <3>2
  <2>2. x \in Num \X User
    BY <1>1, <2>1 DEF RemoteState
  <2> DEFINE f == Closed(RemoteNum[x[2]])
  <2>3. RemoteNum[x[2]] \in Num
    BY <2>2, Numbers DEF Num
  <2>4. f \in Ctrl
    BY <2>3, CtrlFacts
  <2>5. Granted(f) /\ ~Inform(f)
    BY DEF Closed, Granted, Inform
  <2>6. remote' \in RemoteState
    BY <1>1, <2>1 DEF RemoteState
  <2> QED  BY <2>1, <2>4, <2>5, <2>6, SendsKeeps
<1>6. CASE RemoteDrops
  <2>1. PICK x \in remote.conns :
            /\ Sends(Disconnect(RemoteNum[x[2]], x[1]))
            /\ remote' = [remote EXCEPT !.conns = @ \ {x}]
    BY <1>6 DEF RemoteDrops
  <2>2. x \in Num \X User
    BY <1>1, <2>1 DEF RemoteState
  <2> DEFINE f == Disconnect(RemoteNum[x[2]], x[1])
  <2>3. RemoteNum[x[2]] \in Num /\ RemoteNum[x[2]] # 0 /\ x[1] \in Num
    BY <2>2, Numbers DEF Num
  <2>4. f \in Ctrl
    BY <2>3, CtrlFacts
  <2>5. Granted(f) /\ ~Inform(f)
    BY <2>3 DEF Disconnect, Granted, Inform
  <2>6. remote' \in RemoteState
    BY <1>1, <2>1 DEF RemoteState
  <2> QED  BY <2>1, <2>4, <2>5, <2>6, SendsKeeps
<1>7. CASE RemoteEnds
  <2>1. Sends(NcpEnd)
        /\ remote' = [remote EXCEPT !.alive = FALSE, !.conns = {}, !.client = "none"]
    BY <1>7 DEF RemoteEnds
  <2>2. NcpEnd \in Ctrl
    BY CtrlFacts
  <2>3. Granted(NcpEnd) /\ ~Inform(NcpEnd)
    BY DEF NcpEnd, Granted, Inform
  <2>4. remote' \in RemoteState
    BY <1>1, <2>1 DEF RemoteState
  <2> QED  BY <2>1, <2>2, <2>3, <2>4, SendsKeeps
<1> QED  BY <1>3, <1>4, <1>5, <1>6, <1>7

\* The inductive invariant holds at the start, and every step keeps it.
LEMMA InitIInv == ASSUME Init PROVE IInv
<1> DEFINE k == [up |-> FALSE, ending |-> FALSE, era |-> FALSE, ctrl |-> <<>>,
                 open |-> {}, num |-> [u \in User |-> 0], client |-> 0,
                 server |-> [u \in User |-> 0], share |-> {}, regs |-> <<>>,
                 uploads |-> {}, retried |-> {}, unified |-> FALSE,
                 partial |-> FALSE, connected |-> FALSE, cache |-> "off"]
<1>1. mux = k /\ phase = "rx" /\ inbox = <<>>
      /\ remote = [era |-> FALSE, alive |-> FALSE, conns |-> {}, client |-> "none"]
  BY DEF Init
<1>2. <<>> \in Seq(Ctrl) /\ <<>> \in Seq(User \ {"link"}) /\ [u \in User |-> 0] \in [User -> Num]
  BY DEF Num
<1>3. k \in MuxState
  BY <1>2 DEF MuxState
<1>4. Numbered(k)
  BY <1>2 DEF Numbered, CtrlOK, Files
<1>5. Served(k) /\ Layered(k) /\ Awaited(k) /\ k.regs = <<>>
  BY DEF Served, Layered, Awaited, Shared
<1>6. k.open = {}
  OBVIOUS
<1> HIDE DEF k
<1>7. Good(mux) /\ OverOK
  BY <1>1, <1>3, <1>4, <1>5, <1>6 DEF Good, Sound, OverOK
<1>8. InboxOK
  BY <1>1, <1>2, BoundAssumption DEF InboxOK
<1>9. OtherOK
  BY <1>1 DEF OtherOK, RemoteState
<1> QED  BY <1>7, <1>8, <1>9 DEF IInv

\* Every step keeps the inductive invariant.
LEMMA NextIInv == ASSUME EndAfterInfo = TRUE, IInv, [Next]_vars PROVE IInv'
<1>1. CASE RxCtrl
  BY <1>1, RxConnectKeeps, RxConnectedKeeps, RxRefusedKeeps, RxClosedKeeps, RxDisconnectKeeps,
     RxInfoKeeps, RxNcpEndKeeps DEF RxCtrl
<1>2. CASE NoFrame \/ Registered \/ Uploaded \/ UnifiedPoll \/ Transmit \/ NoTransmit
  BY <1>2, NoFrameKeeps, RegisteredKeeps, UploadedKeeps, UnifiedPollKeeps, TransmitKeeps,
     NoTransmitKeeps
<1>3. CASE SessionStart \/ SessionLost \/ SessionEnd \/ SessionEnded \/ SessionEscape
  BY <1>3, SessionStartKeeps, SessionLostKeeps, SessionEndKeeps, SessionEndedKeeps,
     SessionEscapeKeeps
<1>4. CASE RemoteLink \/ RemoteLeavesLink \/ RemoteCloses \/ RemoteDrops \/ RemoteEnds
  BY <1>4, RemoteKeeps
<1>5. CASE UNCHANGED vars
  BY <1>5 DEF vars, IInv, OverOK, InboxOK, OtherOK
<1> QED  BY <1>1, <1>2, <1>3, <1>4, <1>5 DEF Next

-----------------------------------------------------------------------------
(* The theorems.                                                           *)

\* The inductive invariant holds in every session that is ended only after the
\* information frame of the remote came.
THEOREM Invariant == ASSUME EndAfterInfo = TRUE PROVE Spec => []IInv
<1>1. Init => IInv
  BY InitIInv
<1>2. IInv /\ [Next]_vars => IInv'
  BY NextIInv
<1> QED  BY <1>1, <1>2, PTL DEF Spec

\* The safety properties follow from it.
LEMMA Implied ==
    ASSUME IInv
    PROVE  TypeOK /\ NumbersOK /\ ShareOK /\ WaitOK /\ LayersOK /\ RightServer /\ EndedOK
<1>1. mux \in MuxState /\ Numbered(mux) /\ Served(mux) /\ Layered(mux) /\ Awaited(mux)
      /\ (mux.regs # <<>> => "link" \in mux.share)
  BY GoodParts DEF IInv
<1>2. TypeOK
  BY <1>1 DEF IInv, InboxOK, OtherOK, RemoteState, TypeOK
<1>3. NumbersOK
  <2>1. \A u \in mux.open : u \in User /\ mux.num[u] = RemoteNum[u]
    BY <1>1 DEF MuxState, Numbered
  <2>2. \A u, v \in mux.open : u # v => RemoteNum[u] # RemoteNum[v]
    BY <1>1, <2>1, Numbers DEF Numbered, Files, User
  <2> QED  BY <2>1, <2>2, Numbers DEF NumbersOK
<1>4. ShareOK /\ WaitOK /\ LayersOK
  BY <1>1 DEF Served, Awaited, Layered, ShareOK, WaitOK, LayersOK
<1>5. RightServer
  BY <1>1 DEF Served, RightServer, MuxState
<1>6. EndedOK
  BY EndedIs DEF IInv, OverOK, EndedOK
<1> QED  BY <1>2, <1>3, <1>4, <1>5, <1>6

\* Whatever the order of the events of both machines, numbers name channels,
\* a share exists exactly while its channel is connected, and nobody waits for
\* a service that has gone.
THEOREM ChannelsSafe == ASSUME EndAfterInfo = TRUE PROVE Spec => []ChannelsOK
<1>1. IInv => ChannelsOK
  BY Implied DEF ChannelsOK
<1> QED  BY <1>1, Invariant, PTL

\* No layer of unified.c outlives the one that it stands on.
THEOREM LayersHold == ASSUME EndAfterInfo = TRUE PROVE Spec => []LayersOK
<1>1. IInv => LayersOK
  BY Implied
<1> QED  BY <1>1, Invariant, PTL

\* A late answer never connects a channel with a server it did not ask for.
THEOREM ServerHolds == ASSUME EndAfterInfo = TRUE PROVE Spec => []RightServer
<1>1. IInv => RightServer
  BY Implied
<1> QED  BY <1>1, Invariant, PTL

\* A session that has ended leaves nothing for the next.
THEOREM EndedClean == ASSUME EndAfterInfo = TRUE PROVE Spec => []EndedOK
<1>1. IInv => EndedOK
  BY Implied
<1> QED  BY <1>1, Invariant, PTL
=============================================================================
