-------------------------- MODULE ClipboardProofs --------------------------
(***************************************************************************)
(* Proofs about Clipboard: whatever the number of blocks, of changes and   *)
(* of faults, a clipboard that is called synchronised is the same at both  *)
(* ends.                                                                   *)
(*                                                                         *)
(* ClipboardOK speaks of the moments when nothing is on its way; the       *)
(* invariant says what a transfer has done so far, block by block, and     *)
(* which messages of the server can be on their way in each state.  A      *)
(* change at the remote end during a transfer is not an exception to it    *)
(* but makes the transfer dirty, until the server has told of the change.  *)
(***************************************************************************)
EXTENDS Clipboard, TLAPS

Reading == {"read open", "read args", "read transfer", "read close"}
Writing == {"write open", "write extent", "write transfer", "write close"}
States == {"idle", "close"} \cup Reading \cup Writing

\* What is asked of the cache in each state.
OpOf(state) ==
    CASE state = "idle" -> "none"
      [] state = "read open" -> "open in"
      [] state = "read args" -> "args"
      [] state = "read transfer" -> "read"
      [] state = "write open" -> "open out"
      [] state = "write extent" -> "extent"
      [] state = "write transfer" -> "write"
      [] state \in {"read close", "write close", "close"} -> "close"

File == [1 .. Blocks -> Nat]
Ops == {"none", "open in", "args", "read", "open out", "extent", "write", "close"}
Requests == [op : Ops, served : BOOLEAN, failed : BOOLEAN, data : Nat]
HereSet ==
    [active : BOOLEAN, remoteChanged : BOOLEAN, remoteSync : BOOLEAN,
     localChanged : BOOLEAN, localSync : BOOLEAN, required : BOOLEAN,
     state : States, block : Nat, busy : Nat, request : Requests,
     local : File, transfer : File,
     open : BOOLEAN, connected : BOOLEAN, initPending : BOOLEAN, initDone : BOOLEAN,
     listenPending : BOOLEAN, notifyPending : BOOLEAN,
     notifyActive : BOOLEAN, notifyRequired : BOOLEAN]
DeviceSet ==
    [file : File, session : BOOLEAN, listening : BOOLEAN, news : BOOLEAN, told : File]
Messages == {"init", "listen", "notify"}
Answers == {"init", "notify"}
WireSet == [out : Seq(Messages), in : Seq(Answers)]
NotedSet ==
    [missed : BOOLEAN, untold : BOOLEAN, failed : BOOLEAN, untyped : BOOLEAN, copied : File]

TypeOK ==
    /\ here \in HereSet /\ device \in DeviceSet /\ wire \in WireSet /\ noted \in NotedSet
    /\ changes \in Nat

-----------------------------------------------------------------------------
(* The invariant.                                                          *)

\* The operation has ended with an error, or has nothing to end with.
Doomed(h) == h.request.served /\ h.request.failed

\* The flags and the state of clipboard.c agree; a transfer that was running when
\* the cache went does not survive its return.
HereOK(h) ==
    /\ h.busy = (IF h.state = "idle" THEN 0 ELSE 1)
    /\ h.request.op = OpOf(h.state)
    /\ h.state = "idle" => ~h.request.served
    /\ h.state \in {"read transfer", "write transfer"} => h.block \in 1 .. Blocks
    /\ h.active => h.open
    /\ h.required => h.active
    /\ h.connected => h.open
    /\ h.connected /\ h.initDone => h.active /\ ~h.initPending
    /\ h.open /\ ~h.active => h.state \in {"idle", "close"} \/ Doomed(h)
    /\ h.required \/ h.state # "idle" => ~h.remoteSync /\ ~h.localSync
    /\ ~(h.remoteChanged /\ h.localChanged)

Once(s, message) == \A i, j \in 1 .. Len(s) : s[i] = message /\ s[j] = message => i = j
Holds(s, message) == \E i \in 1 .. Len(s) : s[i] = message

\* One registration is on its way until it is answered, and at most one notice.
WireOK(h, d, w) ==
    /\ ~h.connected \/ (~h.initDone /\ ~h.initPending)
          => w.out = <<>> /\ w.in = <<>> /\ ~d.listening
    /\ h.connected /\ h.initPending =>
          /\ (w.out = <<"init">> /\ w.in = <<>>) \/ (w.out = <<>> /\ w.in = <<"init">>)
          /\ ~d.listening
    /\ h.initDone => ~Holds(w.out, "init")
    /\ Holds(w.out, "notify") \/ Holds(w.in, "notify") => h.notifyPending
    /\ ~(Holds(w.out, "notify") /\ Holds(w.in, "notify"))
    /\ Once(w.out, "notify") /\ Once(w.in, "notify")

\* The remote clipboard has changed and this end has not acted on it.
Clean(h, d, w, n) == ~n.missed /\ ~d.news /\ (h.initPending \/ ~Holds(w.in, "init"))

\* What is transferred will be called synchronised when the transfer ends.
Live(h) == h.active /\ ~h.required /\ ~Doomed(h)

\* f is the remote clipboard file.  A transfer that is live has copied the blocks
\* so far, from what the local clipboard still is or from what the file still is.
ContentOK(h, f, clean, n) ==
    /\ h.active /\ h.localChanged => h.local = n.copied
    /\ Live(h) /\ h.state \in Reading => ~h.localChanged
    /\ Live(h) /\ h.state \in Writing /\ ~n.untyped => h.transfer = h.local
    /\ Live(h) /\ clean /\ h.state \in {"read transfer", "write transfer"}
          => \A b \in 1 .. h.block - 1 : h.transfer[b] = f[b]
    /\ Live(h) /\ clean /\ h.state = "read transfer" /\ h.request.served
          => h.request.data = f[h.block]
    /\ Live(h) /\ clean /\ h.state = "write transfer" /\ h.request.served
          => h.transfer[h.block] = f[h.block]
    /\ Live(h) /\ clean /\ h.state \in {"read close", "write close"} => h.transfer = f
    /\ Live(h) /\ clean /\ h.state = "idle" /\ ~n.untyped /\ (h.remoteSync \/ h.localSync)
          => h.local = f

\* The remote applications know of what was written, or a notice is due.
ToldOK(h, d, w, clean, n) ==
    Live(h) /\ clean /\ h.state = "idle" /\ h.localSync
    /\ (~h.notifyRequired \/ Holds(w.in, "notify"))
        => d.told = d.file \/ n.untold

Good(h, f, clean, n) == h \in HereSet /\ HereOK(h) /\ ContentOK(h, f, clean, n)

IInv ==
    /\ TypeOK
    /\ HereOK(here)
    /\ WireOK(here, device, wire)
    /\ ContentOK(here, device.file, Clean(here, device, wire, noted), noted)
    /\ ToldOK(here, device, wire, Clean(here, device, wire, noted), noted)

-----------------------------------------------------------------------------
(* The routines of clipboard.c.                                            *)

\* What the messages of the server depend on.
SameWire(h, k) ==
    /\ k.active = h.active /\ k.open = h.open /\ k.connected = h.connected
    /\ k.initPending = h.initPending /\ k.initDone = h.initDone
    /\ k.listenPending = h.listenPending /\ k.notifyPending = h.notifyPending

LEMMA Files == ClipboardParameters => Blank \in File /\ \A v \in Nat : Version(v) \in File
BY DEF ClipboardParameters, Blank, Version, File

LEMMA FileEqual ==
    ASSUME NEW s \in File, NEW t \in File, \A b \in 1 .. Blocks : s[b] = t[b]
    PROVE  s = t
<1>1. s = [b \in 1 .. Blocks |-> s[b]] /\ t = [b \in 1 .. Blocks |-> t[b]]
  BY DEF File
<1> QED BY <1>1, Zenon

LEMMA WireFrame ==
    ASSUME NEW h, NEW k, SameWire(h, k), NEW d, NEW w, NEW n,
           WireOK(h, d, w)
    PROVE  WireOK(k, d, w) /\ Clean(k, d, w, n) = Clean(h, d, w, n)
BY DEF SameWire, WireOK, Clean

\* The flags and the local clipboard are the same.
SameFlags(h, k) ==
    /\ SameWire(h, k)
    /\ k.remoteChanged = h.remoteChanged /\ k.remoteSync = h.remoteSync
    /\ k.localChanged = h.localChanged /\ k.localSync = h.localSync
    /\ k.required = h.required /\ k.local = h.local

\* All but the state of the transfer is the same.
SameBeside(h, k) ==
    /\ SameFlags(h, k)
    /\ k.notifyActive = h.notifyActive /\ k.notifyRequired = h.notifyRequired

\* k is h with op asked of the cache.
Asked(h, k, state, op) ==
    /\ k \in HereSet /\ SameBeside(h, k)
    /\ k.state = state /\ k.block = h.block /\ k.busy = h.busy /\ k.transfer = h.transfer
    /\ k.request.op = op /\ ~k.request.served /\ ~k.request.failed

LEMMA AskAsked ==
    \A h \in HereSet, state \in States, op \in Ops : Asked(h, Ask(h, state, op), state, op)
<1> SUFFICES ASSUME NEW h \in HereSet, NEW state \in States, NEW op \in Ops,
                    NEW k, k = Ask(h, state, op)
             PROVE  Asked(h, k, state, op)
  OBVIOUS
<1> DEFINE r == [NoRequest EXCEPT !.op = op]
<1>1. NoRequest \in Requests /\ NoRequest.served = FALSE /\ NoRequest.failed = FALSE
  BY DEF NoRequest, Requests, Ops
<1>2. r \in Requests /\ r.op = op /\ ~r.served /\ ~r.failed
  BY <1>1 DEF Requests
<1>3. k = [h EXCEPT !.state = state, !.request = r]
  BY DEF Ask
<1> HIDE DEF r
<1>4. k \in HereSet
  BY <1>2, <1>3 DEF HereSet
<1>5. SameBeside(h, k) /\ k.block = h.block /\ k.busy = h.busy /\ k.transfer = h.transfer
  BY <1>3 DEF HereSet, SameBeside, SameFlags, SameWire
<1>6. k.state = state /\ k.request = r
  BY <1>3 DEF HereSet
<1> QED BY <1>2, <1>4, <1>5, <1>6 DEF Asked

LEMMA StatesOps ==
    /\ {"idle", "close"} \cup Reading \cup Writing = States
    /\ "none" \in Ops /\ "open in" \in Ops /\ "open out" \in Ops /\ "args" \in Ops
    /\ "read" \in Ops /\ "extent" \in Ops /\ "write" \in Ops /\ "close" \in Ops
    /\ OpOf("idle") = "none" /\ OpOf("read open") = "open in" /\ OpOf("read args") = "args"
    /\ OpOf("read transfer") = "read" /\ OpOf("write open") = "open out"
    /\ OpOf("write extent") = "extent" /\ OpOf("write transfer") = "write"
    /\ OpOf("read close") = "close" /\ OpOf("write close") = "close" /\ OpOf("close") = "close"
BY DEF OpOf, Ops, States, Reading, Writing

\* A transfer that begins, or none.
LEMMA TransferGood ==
    ASSUME ClipboardParameters, NEW h, NEW f, NEW clean, NEW n, Good(h, f, clean, n),
           NEW able \in BOOLEAN
    PROVE  LET k == Transfer(h, able)
           IN Good(k, f, clean, n) /\ SameWire(h, k) /\ (k = h \/ ~k.localSync)
<1> DEFINE k == Transfer(h, able)
           kept == [h EXCEPT !.required = FALSE]
           begun == [kept EXCEPT !.busy = @ + 1]
           reads == [begun EXCEPT !.transfer = Blank]
           writes == [begun EXCEPT !.transfer = h.local, !.notifyActive = TRUE]
<1>0. h \in HereSet /\ HereOK(h) /\ ContentOK(h, f, clean, n)
  BY DEF Good
<1>1. CASE ~h.required \/ h.state # "idle"
  BY <1>1 DEF Transfer, SameWire
<1>2. CASE h.required /\ h.state = "idle"
  <2>1. kept \in HereSet
    BY <1>0 DEF HereSet
  <2>3. h.busy = 0 /\ h.active /\ ~h.remoteSync /\ ~h.localSync /\ ~(h.remoteChanged /\ h.localChanged)
    BY <1>0, <1>2 DEF HereOK
  <2>2. PICK one \in Nat : one = 1 /\ begun = [h EXCEPT !.required = FALSE, !.busy = one]
    <3>1. h \in HereSet
      BY <1>0
    <3>2. begun = [h EXCEPT !.required = FALSE, !.busy = h.busy + 1]
      BY <3>1 DEF HereSet
    <3>3. h.busy + 1 = 1
      BY <2>3
    <3> HIDE DEF begun
    <3> QED BY <3>2, <3>3
  <2> HIDE DEF begun
  <2>4. CASE h.remoteChanged /\ ~h.remoteSync /\ able
    <3>1. k = Ask(reads, "read open", "open in")
      BY <1>2, <2>4 DEF Transfer, begun
    <3>2. reads = [h EXCEPT !.required = FALSE, !.busy = one, !.transfer = Blank]
      BY <1>0, <2>2 DEF HereSet
    <3> HIDE DEF k, reads
    <3>a. reads \in HereSet
      BY <1>0, <3>2, Files DEF HereSet
    <3>3. /\ SameWire(h, reads) /\ reads.required = FALSE /\ reads.busy = 1
          /\ reads.remoteSync = FALSE /\ reads.localSync = FALSE /\ reads.localChanged = FALSE
      BY <1>0, <2>2, <2>3, <2>4, <3>2 DEF HereSet, SameWire
    <3>4. "read open" \in States /\ "open in" \in Ops
      BY StatesOps DEF States, Reading
    <3>b. Asked(reads, k, "read open", "open in")
      BY <3>1, <3>a, <3>4, AskAsked
    <3>5. k \in HereSet /\ SameWire(h, k) /\ ~k.localSync
      BY <3>3, <3>b DEF Asked, SameWire, SameFlags, SameBeside
    <3>6. HereOK(k)
      BY <1>0, <2>3, <3>3, <3>b, StatesOps DEF Asked, SameWire, SameFlags, SameBeside, HereOK
    <3>7. ContentOK(k, f, clean, n)
      BY <1>0, <2>3, <3>3, <3>b DEF Asked, SameWire, SameFlags, SameBeside, ContentOK, Live, Doomed, Writing
    <3> QED BY <3>5, <3>6, <3>7 DEF Good, k
  <2>5. CASE ~(h.remoteChanged /\ ~h.remoteSync) /\ h.localChanged /\ ~h.localSync /\ able
    <3>1. k = Ask(writes, "write open", "open out")
      BY <1>2, <2>5 DEF Transfer, begun
    <3>2. writes = [h EXCEPT !.required = FALSE, !.busy = one, !.transfer = h.local,
                             !.notifyActive = TRUE]
      BY <1>0, <2>2 DEF HereSet
    <3> HIDE DEF k, writes
    <3>a. writes \in HereSet
      BY <1>0, <3>2, Files DEF HereSet
    <3>3. /\ SameWire(h, writes) /\ writes.required = FALSE /\ writes.busy = 1
          /\ writes.remoteSync = FALSE /\ writes.localSync = FALSE
          /\ writes.remoteChanged = FALSE /\ writes.localChanged = h.localChanged
          /\ writes.local = h.local /\ writes.transfer = h.local
      BY <1>0, <2>2, <2>3, <2>5, <3>2 DEF HereSet, SameWire
    <3>4. "write open" \in States /\ "open out" \in Ops
      BY StatesOps DEF States, Writing
    <3>b. Asked(writes, k, "write open", "open out")
      BY <3>1, <3>a, <3>4, AskAsked
    <3>5. k \in HereSet /\ SameWire(h, k) /\ ~k.localSync
      BY <3>3, <3>b DEF Asked, SameWire, SameFlags, SameBeside
    <3>6. HereOK(k)
      BY <1>0, <2>3, <3>3, <3>b, StatesOps DEF Asked, SameWire, SameFlags, SameBeside, HereOK
    <3>7. ContentOK(k, f, clean, n)
      BY ZenonT(30), <1>0, <2>3, <3>3, <3>b DEF Asked, SameWire, SameFlags, SameBeside, ContentOK, Live, Doomed, Reading
    <3> QED BY <3>5, <3>6, <3>7 DEF Good, k
  <2>6. CASE /\ ~(h.remoteChanged /\ ~h.remoteSync /\ able)
             /\ ~(~(h.remoteChanged /\ ~h.remoteSync) /\ h.localChanged /\ ~h.localSync /\ able)
    <3>1. k = kept
      BY <1>2, <2>6 DEF Transfer
    <3>2. SameWire(h, kept) /\ ~kept.localSync /\ HereOK(kept)
      BY <1>0, <1>2, <2>3 DEF HereSet, SameWire, HereOK, Doomed
    <3>3. ContentOK(kept, f, clean, n)
      BY <1>0, <1>2, <2>3 DEF HereSet, ContentOK, Live, Doomed, Reading, Writing
    <3> QED BY <2>1, <3>1, <3>2, <3>3 DEF Good
  <2> QED BY <2>4, <2>5, <2>6
<1> QED BY <1>0, <1>1, <1>2 DEF HereSet

\* What was kept for an inactive clipboard goes.
LEMMA TidyGood ==
    ASSUME ClipboardParameters, NEW h, NEW f, NEW clean, NEW n, Good(h, f, clean, n)
    PROVE  LET k == Tidy(h)
           IN Good(k, f, clean, n) /\ SameWire(h, k) /\ (k = h \/ ~k.active)
<1> DEFINE k == Tidy(h)
<1>1. CASE ~h.active /\ h.state = "idle" /\ ~h.required
  <2>1. k = [h EXCEPT !.local = Blank, !.transfer = Blank]
    BY <1>1 DEF Tidy
  <2> HIDE DEF k
  <2>2. k \in HereSet /\ SameWire(h, k) /\ ~k.active
    BY <2>1, <1>1, Files DEF HereSet, SameWire, Good
  <2>3. HereOK(k) /\ ContentOK(k, f, clean, n)
    BY <2>1, <1>1 DEF HereSet, HereOK, ContentOK, Live, Doomed, Good
  <2> QED BY <2>2, <2>3 DEF Good, k
<1>2. CASE ~(~h.active /\ h.state = "idle" /\ ~h.required)
  BY <1>2 DEF Tidy, SameWire
<1> QED BY <1>1, <1>2

-----------------------------------------------------------------------------
(* clipboard_callback.                                                     *)

\* k is h with the transfer over.
Over(h, k) ==
    /\ k \in HereSet /\ SameFlags(h, k)
    /\ k.state = "idle" /\ k.busy = 0 /\ k.request.op = "none" /\ ~k.request.served
    /\ k.notifyActive = h.notifyActive /\ k.notifyRequired = h.notifyRequired

\* rclip_notify_end
LEMMA NotifyEndSame ==
    ASSUME NEW h \in HereSet, NEW k, k = NotifyEnd(h)
    PROVE  /\ k \in HereSet /\ SameFlags(h, k)
           /\ k.state = h.state /\ k.block = h.block /\ k.busy = h.busy
           /\ k.request = h.request /\ k.transfer = h.transfer
           /\ k.notifyRequired = h.notifyActive /\ ~k.notifyActive
<1>1. k = [h EXCEPT !.notifyRequired = h.notifyActive, !.notifyActive = FALSE]
  BY DEF NotifyEnd
<1> QED BY ZenonT(30), <1>1 DEF HereSet, SameFlags, SameWire

LEMMA EndedOver ==
    ASSUME NEW h \in HereSet, h.busy = 1, NEW e, e = Ended(h)
    PROVE  e.state = "idle" /\ e \in HereSet /\ Over(h, [e EXCEPT !.busy = @ - 1])
<1> DEFINE k == [e EXCEPT !.busy = @ - 1]
<1>1. NoRequest \in Requests /\ NoRequest.op = "none" /\ ~NoRequest.served
  BY DEF NoRequest, Requests, Ops
<1>2. "idle" \in States
  BY DEF States
<1>3. e = [h EXCEPT !.state = "idle", !.request = NoRequest]
  BY DEF Ended
<1>4. e \in HereSet /\ e.busy = 1 /\ e.state = "idle" /\ e.request = NoRequest
  BY ZenonT(30), <1>1, <1>2, <1>3 DEF HereSet
<1>5. SameBeside(h, e)
  BY <1>3 DEF HereSet, SameBeside, SameFlags, SameWire
<1>6. e.busy - 1 = 0
  BY <1>4
<1>7. k = [e EXCEPT !.busy = 0]
  BY <1>6
<1> HIDE DEF k
<1>8. k \in HereSet /\ k.state = "idle" /\ k.busy = 0 /\ k.request = NoRequest
  BY <1>4, <1>7 DEF HereSet
<1>9. SameBeside(e, k)
  BY <1>4, <1>7 DEF HereSet, SameBeside, SameFlags, SameWire
<1> QED BY <1>1, <1>4, <1>5, <1>8, <1>9 DEF Over, SameBeside, SameFlags, SameWire, k

\* A transfer that ends without success is not called synchronised.
LEMMA OverGood ==
    ASSUME NEW h, NEW g, NEW k, NEW f, NEW clean, NEW n,
           Good(h, f, clean, n), h.state # "idle", SameFlags(h, g), Over(g, k)
    PROVE  Good(k, f, clean, n) /\ SameWire(h, k) /\ ~k.localSync
<1>1. HereOK(k) /\ SameWire(h, k) /\ ~k.localSync /\ ~k.remoteSync
  BY ZenonT(30), StatesOps DEF Good, Over, SameFlags, SameWire, HereOK, Doomed
<1>2. ContentOK(k, f, clean, n)
  BY <1>1 DEF Good, Over, SameFlags, SameWire, ContentOK, Reading, Writing
<1> QED BY <1>1, <1>2 DEF Good, Over

\* A transfer that goes on has not met an error; one that gives up closes.
LEMMA AskedHere ==
    ASSUME NEW h, NEW g, NEW k, NEW state, NEW op,
           HereOK(h), h.state # "idle", SameFlags(h, g), g.busy = h.busy,
           Asked(g, k, state, op), op = OpOf(state), state # "idle",
           state \in {"read transfer", "write transfer"} => g.block \in 1 .. Blocks,
           state = "close" \/ (~Doomed(h) /\ h.state # "close")
    PROVE  k \in HereSet /\ HereOK(k) /\ SameFlags(h, k) /\ SameWire(h, k) /\ ~Doomed(k)
BY ZenonT(30) DEF Asked, SameBeside, SameFlags, SameWire, HereOK, Doomed

LEMMA GiveUpGood ==
    ASSUME NEW h, NEW g \in HereSet, NEW f, NEW clean, NEW n,
           Good(h, f, clean, n), h.state # "idle", SameFlags(h, g), g.busy = h.busy,
           NEW k, k = GiveUp(g)
    PROVE  Good(k, f, clean, n) /\ SameWire(h, k) /\ k.state = "close"
<1>1. "close" \in States /\ "close" \in Ops
  BY DEF States, Ops
<1>2. Asked(g, k, "close", "close")
  BY <1>1, AskAsked DEF GiveUp
<1>3. k \in HereSet /\ HereOK(k) /\ SameFlags(h, k) /\ SameWire(h, k)
  BY <1>2, AskedHere, StatesOps DEF Good
<1>4. k.state = "close"
  BY <1>2 DEF Asked
<1>5. ContentOK(k, f, clean, n)
  BY <1>3, <1>4 DEF Good, SameFlags, SameWire, ContentOK, Reading, Writing
<1> QED BY <1>3, <1>4, <1>5 DEF Good

\* What clipboard_callback leaves of h, where c is h after the case of its state.
CallGood(h, c, f, clean, n) ==
    /\ c.state # "idle" => Good(c, f, clean, n) /\ SameWire(h, c)
    /\ c.state = "idle" =>
         LET k == [c EXCEPT !.busy = @ - 1]
         IN /\ Good(k, f, clean, n) /\ SameWire(h, k)
            /\ k.localSync => h.state = "write close" /\ k.notifyRequired = h.notifyActive

\* An answer that is not an error is one to what was asked.
Answered(h, error) == h.request.served /\ error \in BOOLEAN /\ (error \/ ~h.request.failed)

LEMMA FailsGood ==
    ASSUME NEW h, NEW g \in HereSet, NEW f, NEW clean, NEW n,
           Good(h, f, clean, n), h.state # "idle", SameFlags(h, g), g.busy = h.busy,
           NEW c, c = GiveUp(g) \/ c = Ended(g)
    PROVE  CallGood(h, c, f, clean, n)
<1>1. CASE c = GiveUp(g)
  BY <1>1, GiveUpGood DEF CallGood
<1>2. CASE c = Ended(g)
  <2> DEFINE k == [c EXCEPT !.busy = @ - 1]
  <2>1. h.busy = 1
    BY DEF Good, HereOK
  <2>2. c.state = "idle" /\ Over(g, k)
    BY <1>2, <2>1, EndedOver
  <2> HIDE DEF k
  <2>3. Good(k, f, clean, n) /\ SameWire(h, k) /\ ~k.localSync
    BY <2>2, OverGood
  <2> QED BY <2>2, <2>3 DEF CallGood, k
<1> QED BY <1>1, <1>2

\* The answer to an operation of a transfer lets the next be asked.
LEMMA AsksGood ==
    ASSUME NEW h, NEW g \in HereSet, NEW f, NEW clean, NEW n, NEW state, NEW op,
           Good(h, f, clean, n), h.state \notin {"idle", "close"},
           Answered(h, FALSE), SameFlags(h, g), g.busy = h.busy,
           state \in States \ {"idle"}, op = OpOf(state),
           state \in {"read transfer", "write transfer"} => g.block \in 1 .. Blocks,
           NEW c, c = Ask(g, state, op),
           /\ state \in Reading => h.state \in Reading
           /\ state \in Writing => h.state \in Writing /\ g.transfer = h.transfer,
           Live(h) /\ clean =>
              /\ state \in {"read transfer", "write transfer"}
                    => \A b \in 1 .. g.block - 1 : g.transfer[b] = f[b]
              /\ state \in {"read close", "write close"} => g.transfer = f
    PROVE  CallGood(h, c, f, clean, n)
<1>1. op \in Ops
  BY DEF States, Reading, Writing, Ops, OpOf
<1>2. Asked(g, c, state, op)
  BY <1>1, AskAsked
<1>3. ~Doomed(h)
  BY DEF Answered, Doomed
<1>4. c \in HereSet /\ HereOK(c) /\ SameFlags(h, c) /\ SameWire(h, c) /\ ~Doomed(c)
  BY <1>2, <1>3, AskedHere DEF Good
<1>5. /\ c.state = state /\ ~c.request.served /\ c.transfer = g.transfer /\ c.block = g.block
      /\ Live(c) = Live(h)
  BY <1>2, <1>3, <1>4 DEF Asked, Live, SameFlags, SameWire
<1>6. ContentOK(c, f, clean, n)
  <2>1. c.active /\ c.localChanged => c.local = n.copied
    BY <1>4 DEF Good, ContentOK, SameFlags, SameWire
  <2>2. Live(c) /\ c.state \in Reading => ~c.localChanged
    BY <1>4, <1>5 DEF Good, ContentOK, SameFlags
  <2>3. Live(c) /\ c.state \in Writing /\ ~n.untyped => c.transfer = c.local
    BY <1>4, <1>5 DEF Good, ContentOK, SameFlags
  <2>4. c.state # "idle"
    BY <1>5
  <2> QED BY <1>5, <2>1, <2>2, <2>3, <2>4 DEF ContentOK
<1> QED BY <1>4, <1>5, <1>6 DEF CallGood, Good

LEMMA StateNames ==
    /\ \A state \in Reading \cup Writing : state \in States /\ state \notin {"idle", "close"}
    /\ Reading \cap Writing = {}
    /\ \A state \in States : state \in Reading \cup Writing \/ state \in {"idle", "close"}
BY DEF States, Reading, Writing

\* Kept closed where the state does not matter.
ReadStarts(h) == h.state \in {"read open", "read args"}
ReadGoesOn(h) == h.state = "read transfer"
ReadIsOver(h) == h.state = "read close"
WriteStarts(h) == h.state \in {"write open", "write extent"}
WriteGoesOn(h) == h.state = "write transfer"
WriteIsOver(h) == h.state = "write close"

\* The file is opened, and its length is read.
LEMMA ReadBegins ==
    ASSUME ClipboardParameters, NEW h, NEW f, NEW clean, NEW n, Good(h, f, clean, n),
           ReadStarts(h), NEW error, Answered(h, error)
    PROVE  CallGood(h, Called(h, error), f, clean, n)
<1>1. h \in HereSet /\ h.state \notin {"idle", "close"} /\ h.state \in Reading
  BY DEF Good, Reading, ReadStarts
<1>2. SameFlags(h, h)
  BY DEF SameFlags, SameWire
<1>3. CASE error
  <2>1. Called(h, error) = GiveUp(h) \/ Called(h, error) = Ended(h)
    BY <1>3 DEF ReadStarts, Called, ReadOpened, ReadArgs
  <2> QED BY <1>1, <1>2, <2>1, FailsGood
<1>4. CASE ~error /\ h.state = "read open"
  <2>1. Called(h, error) = Ask(h, "read args", "args")
    BY <1>4 DEF ReadStarts, Called, ReadOpened
  <2>2. /\ "read args" \in States \ {"idle"} /\ "read args" \notin Writing
        /\ "read args" \notin {"read transfer", "write transfer", "read close", "write close"}
    BY DEF States, Reading, Writing
  <2>3. Answered(h, FALSE)
    BY <1>4 DEF Answered
  <2> QED BY <1>1, <1>2, <2>1, <2>2, <2>3, StatesOps, AsksGood
<1>5. CASE ~error /\ h.state = "read args"
  <2> DEFINE g == [h EXCEPT !.block = 1]
  <2>1. Called(h, error) = Ask(g, "read transfer", "read")
    BY <1>5 DEF ReadStarts, Called, ReadArgs
  <2>2. /\ "read transfer" \in States \ {"idle"} /\ "read transfer" \notin Writing
        /\ "read transfer" \notin {"read close", "write close"}
    BY DEF States, Reading, Writing
  <2>3. Answered(h, FALSE)
    BY <1>5 DEF Answered
  <2>4. g \in HereSet /\ SameFlags(h, g) /\ g.busy = h.busy /\ g.block = 1
    BY <1>1 DEF HereSet, SameFlags, SameWire
  <2> HIDE DEF g
  <2>5. g.block \in 1 .. Blocks /\ \A b \in 1 .. g.block - 1 : g.transfer[b] = f[b]
    BY <2>4 DEF ClipboardParameters
  <2> QED BY <1>1, <2>1, <2>2, <2>3, <2>4, <2>5, StatesOps, AsksGood
<1> QED BY <1>3, <1>4, <1>5 DEF Answered, ReadStarts

\* A block has been read.
LEMMA ReadsBlock ==
    ASSUME ClipboardParameters, NEW h, NEW f, NEW clean, NEW n, Good(h, f, clean, n),
           f \in File, ReadGoesOn(h), NEW error, Answered(h, error)
    PROVE  CallGood(h, Called(h, error), f, clean, n)
<1> DEFINE stored == [h EXCEPT !.transfer[h.block] = h.request.data]
<1>1. h \in HereSet /\ h.state \notin {"idle", "close"} /\ h.state \in Reading
  BY DEF Good, Reading, ReadGoesOn
<1>a. h.transfer \in File /\ h.request.data \in Nat
  BY <1>1 DEF HereSet, Requests
<1>b. h.block \in 1 .. Blocks /\ Blocks \in Nat
  BY DEF Good, HereOK, ClipboardParameters, ReadGoesOn
<1>c. PICK m \in Nat : m = h.block + 1
  BY <1>b
<1>2. CASE error
  <2>1. Called(h, error) = GiveUp(h)
    BY <1>2 DEF ReadGoesOn, Called, ReadBlock
  <2>2. SameFlags(h, h)
    BY DEF SameFlags, SameWire
  <2> QED BY <1>1, <2>1, <2>2, FailsGood
<1>3. CASE ~error
  <2>1. PICK t \in File : t = [h.transfer EXCEPT ![h.block] = h.request.data]
    BY <1>a DEF File
  <2>2. stored = [h EXCEPT !.transfer = t]
    BY <1>1, <2>1 DEF HereSet
  <2> HIDE DEF stored
  <2>3. stored \in HereSet /\ SameFlags(h, stored) /\ stored.busy = h.busy
    BY <1>1, <2>1, <2>2 DEF HereSet, SameFlags, SameWire
  <2>4. stored.transfer = t /\ stored.block = h.block
    BY <1>1, <2>1, <2>2 DEF HereSet
  <2>5. Answered(h, FALSE)
    BY <1>3 DEF Answered
  <2>6. Live(h) /\ clean => \A b \in 1 .. h.block : t[b] = f[b]
    <3>1. Live(h) /\ clean =>
            /\ \A b \in 1 .. h.block - 1 : h.transfer[b] = f[b]
            /\ h.request.data = f[h.block]
      BY <2>5 DEF Good, ContentOK, Answered, ReadGoesOn
    <3>2. \A b \in 1 .. h.block : b = h.block \/ b \in 1 .. h.block - 1
      BY <1>b
    <3>3. \A b \in 1 .. Blocks : t[b] = IF b = h.block THEN h.request.data ELSE h.transfer[b]
      BY <1>a, <2>1 DEF File
    <3>4. \A b \in 1 .. h.block : b \in 1 .. Blocks
      BY <1>b
    <3> QED BY <3>1, <3>2, <3>3, <3>4
  <2>7. CASE h.block < Blocks
    <3> DEFINE next == [stored EXCEPT !.block = m]
    <3>0. stored.block + 1 = m
      BY <1>c, <2>4
    <3>1. Called(h, error) = Ask(next, "read transfer", "read")
      BY <1>3, <2>7, <3>0 DEF ReadGoesOn, Called, ReadBlock, stored
    <3>2. next \in HereSet /\ SameFlags(h, next) /\ next.busy = h.busy
      BY <2>3 DEF HereSet, SameFlags, SameWire
    <3>3. next.block = m /\ next.transfer = t
      BY <2>3, <2>4 DEF HereSet
    <3>4. next.block \in 1 .. Blocks /\ next.block - 1 = h.block
      BY <1>b, <1>c, <2>7, <3>3
    <3>5. /\ "read transfer" \in States \ {"idle"} /\ "read transfer" \notin Writing
          /\ "read transfer" \notin {"read close", "write close"}
      BY DEF States, Reading, Writing
    <3> HIDE DEF next
    <3> QED BY <1>1, <2>5, <2>6, <3>1, <3>2, <3>3, <3>4, <3>5, StatesOps, AsksGood
  <2>8. CASE ~(h.block < Blocks)
    <3>1. Called(h, error) = Ask(stored, "read close", "close")
      BY <1>3, <2>8 DEF ReadGoesOn, Called, ReadBlock, stored
    <3>2. Live(h) /\ clean => t = f
      <4>1. h.block = Blocks
        BY <1>b, <2>8
      <4> SUFFICES ASSUME Live(h), clean PROVE t = f
        OBVIOUS
      <4>2. \A b \in 1 .. Blocks : t[b] = f[b]
        BY <2>6, <4>1
      <4> QED BY <4>2, FileEqual
    <3>3. /\ "read close" \in States \ {"idle"} /\ "read close" \notin Writing
          /\ "read close" \notin {"read transfer", "write transfer"}
      BY DEF States, Reading, Writing
    <3> QED BY <1>1, <2>3, <2>4, <2>5, <3>1, <3>2, <3>3, StatesOps, AsksGood
  <2> QED BY <2>7, <2>8
<1> QED BY <1>2, <1>3 DEF Answered

\* The remote clipboard has been read, and is the local one unless that has changed.
LEMMA ReadEnds ==
    ASSUME ClipboardParameters, NEW h, NEW f, NEW clean, NEW n, Good(h, f, clean, n),
           ReadIsOver(h), NEW error, Answered(h, error)
    PROVE  CallGood(h, Called(h, error), f, clean, n)
<1>1. h \in HereSet /\ h.state \notin {"idle", "close"} /\ h.state \in Reading
  BY DEF Good, Reading, ReadIsOver
<1>2. CASE error \/ h.required
  <2>1. Called(h, error) = Ended(h)
    BY <1>2 DEF ReadIsOver, Called, ReadClosed
  <2>2. SameFlags(h, h)
    BY DEF SameFlags, SameWire
  <2> QED BY <1>1, <2>1, <2>2, FailsGood
<1>3. CASE ~error /\ ~h.required
  <2> DEFINE g == [h EXCEPT !.local = h.transfer, !.remoteSync = TRUE]
             c == Called(h, error)
             k == [c EXCEPT !.busy = @ - 1]
  <2>1. c = Ended(g)
    BY <1>3 DEF ReadIsOver, Called, ReadClosed
  <2>2. /\ g \in HereSet /\ SameWire(h, g) /\ g.busy = h.busy /\ g.local = h.transfer
        /\ g.remoteSync /\ g.localSync = h.localSync /\ g.localChanged = h.localChanged
        /\ g.remoteChanged = h.remoteChanged /\ ~g.required
    BY <1>1, <1>3 DEF HereSet, SameWire
  <2>3. g.busy = 1
    BY <2>2, <1>1 DEF Good, HereOK
  <2> HIDE DEF g, c
  <2>4. c.state = "idle" /\ Over(g, k)
    BY <2>1, <2>2, <2>3, EndedOver
  <2> HIDE DEF k
  <2>5. HereOK(k) /\ SameWire(h, k) /\ ~k.localSync /\ k.local = h.transfer
    BY ZenonT(30), <1>1, <2>2, <2>4, StatesOps DEF Good, Over, SameFlags, SameWire, HereOK, Doomed
  <2>6. k.active => Live(h) \/ Doomed(h)
    BY <1>3, <2>5 DEF Live, SameWire
  <2>7. ~Doomed(h)
    BY <1>3 DEF Answered, Doomed
  <2>8. ContentOK(k, f, clean, n)
    <3>1. k.active => ~k.localChanged
      BY <1>1, <2>2, <2>4, <2>6, <2>7 DEF ReadIsOver, Good, ContentOK, Over, SameFlags
    <3>2. k.active /\ clean => k.local = f
      BY <2>5, <2>6, <2>7 DEF ReadIsOver, Good, ContentOK
    <3>3. k.state = "idle"
      BY <2>4 DEF Over
    <3> QED BY <3>1, <3>2, <3>3 DEF ContentOK, Live, Reading, Writing
  <2> QED BY <2>4, <2>5, <2>8 DEF CallGood, Good, Over, c, k
<1> QED BY <1>2, <1>3 DEF Answered

\* The file is made, and its extent is set.
LEMMA WriteBegins ==
    ASSUME ClipboardParameters, NEW h, NEW f, NEW clean, NEW n, Good(h, f, clean, n),
           WriteStarts(h), NEW error, Answered(h, error)
    PROVE  CallGood(h, Called(h, error), f, clean, n)
<1>1. h \in HereSet /\ h.state \notin {"idle", "close"} /\ h.state \in Writing
  BY DEF Good, Writing, WriteStarts
<1>2. SameFlags(h, h)
  BY DEF SameFlags, SameWire
<1>3. CASE error
  <2> DEFINE g == NotifyEnd(h)
  <2>1. Called(h, error) = GiveUp(g) \/ Called(h, error) = Ended(g)
    BY <1>3 DEF WriteStarts, Called, WriteOpened, WriteExtent
  <2>2. g \in HereSet /\ SameFlags(h, g) /\ g.busy = h.busy
    BY <1>1, NotifyEndSame
  <2> HIDE DEF g
  <2> QED BY <1>1, <2>1, <2>2, FailsGood
<1>4. CASE ~error /\ h.state = "write open"
  <2>1. Called(h, error) = Ask(h, "write extent", "extent")
    BY <1>4 DEF WriteStarts, Called, WriteOpened
  <2>2. /\ "write extent" \in States \ {"idle"} /\ "write extent" \notin Reading
        /\ "write extent" \notin {"read transfer", "write transfer", "read close", "write close"}
    BY DEF States, Reading, Writing
  <2>3. Answered(h, FALSE)
    BY <1>4 DEF Answered
  <2> QED BY <1>1, <1>2, <2>1, <2>2, <2>3, StatesOps, AsksGood
<1>5. CASE ~error /\ h.state = "write extent"
  <2> DEFINE g == [h EXCEPT !.block = 1]
  <2>0. Blocks \in Nat \ {0}
    BY DEF ClipboardParameters
  <2>1. Called(h, error) = Ask(g, "write transfer", "write")
    <3>1. Called(h, error) = WriteNext(h, 1)
      BY <1>5 DEF Called, WriteExtent
    <3>2. ~(1 > Blocks)
      BY <2>0
    <3> QED BY <3>1, <3>2 DEF WriteNext
  <2>2. /\ "write transfer" \in States \ {"idle"} /\ "write transfer" \notin Reading
        /\ "write transfer" \notin {"read close", "write close"}
    BY DEF States, Reading, Writing
  <2>3. Answered(h, FALSE)
    BY <1>5 DEF Answered
  <2>4. g \in HereSet /\ SameFlags(h, g) /\ g.busy = h.busy /\ g.block = 1 /\ g.transfer = h.transfer
    BY <1>1 DEF HereSet, SameFlags, SameWire
  <2> HIDE DEF g
  <2>5. g.block \in 1 .. Blocks /\ \A b \in 1 .. g.block - 1 : g.transfer[b] = f[b]
    BY <2>0, <2>4
  <2> QED BY <1>1, <2>1, <2>2, <2>3, <2>4, <2>5, StatesOps, AsksGood
<1> QED BY <1>3, <1>4, <1>5 DEF Answered, WriteStarts

\* A block has been written.
LEMMA WritesBlock ==
    ASSUME ClipboardParameters, NEW h, NEW f, NEW clean, NEW n, Good(h, f, clean, n),
           f \in File, WriteGoesOn(h), NEW error, Answered(h, error)
    PROVE  CallGood(h, Called(h, error), f, clean, n)
<1>1. h \in HereSet /\ h.state \notin {"idle", "close"} /\ h.state \in Writing
  BY DEF Good, Writing, WriteGoesOn
<1>a. h.transfer \in File
  BY <1>1 DEF HereSet
<1>b. h.block \in 1 .. Blocks /\ Blocks \in Nat
  BY DEF Good, HereOK, ClipboardParameters, WriteGoesOn
<1>c. PICK m \in Nat : m = h.block + 1
  BY <1>b
<1>2. CASE error
  <2> DEFINE g == NotifyEnd(h)
  <2>1. Called(h, error) = GiveUp(g)
    BY <1>2 DEF WriteGoesOn, Called, WriteBlock
  <2>2. g \in HereSet /\ SameFlags(h, g) /\ g.busy = h.busy
    BY <1>1, NotifyEndSame
  <2> HIDE DEF g
  <2> QED BY <1>1, <2>1, <2>2, FailsGood
<1>3. CASE ~error
  <2>1. Called(h, error) = WriteNext(h, m)
    BY <1>3, <1>c DEF WriteGoesOn, Called, WriteBlock
  <2>2. Answered(h, FALSE)
    BY <1>3 DEF Answered
  <2>3. Live(h) /\ clean => \A b \in 1 .. h.block : h.transfer[b] = f[b]
    <3>1. Live(h) /\ clean =>
            /\ \A b \in 1 .. h.block - 1 : h.transfer[b] = f[b]
            /\ h.transfer[h.block] = f[h.block]
      BY <2>2 DEF Good, ContentOK, Answered, WriteGoesOn
    <3>2. \A b \in 1 .. h.block : b = h.block \/ b \in 1 .. h.block - 1
      BY <1>b
    <3> QED BY <3>1, <3>2
  <2>4. CASE h.block < Blocks
    <3> DEFINE next == [h EXCEPT !.block = m]
    <3>1. Called(h, error) = Ask(next, "write transfer", "write")
      <4>1. ~(m > Blocks)
        BY <1>b, <1>c, <2>4
      <4> QED BY <2>1, <4>1 DEF WriteNext
    <3>2. next \in HereSet /\ SameFlags(h, next) /\ next.busy = h.busy
      BY <1>1 DEF HereSet, SameFlags, SameWire
    <3>3. next.block = m /\ next.transfer = h.transfer
      BY <1>1 DEF HereSet
    <3>4. next.block \in 1 .. Blocks /\ next.block - 1 = h.block
      BY <1>b, <1>c, <2>4, <3>3
    <3>5. /\ "write transfer" \in States \ {"idle"} /\ "write transfer" \notin Reading
          /\ "write transfer" \notin {"read close", "write close"}
      BY DEF States, Reading, Writing
    <3> HIDE DEF next
    <3> QED BY <1>1, <2>2, <2>3, <3>1, <3>2, <3>3, <3>4, <3>5, StatesOps, AsksGood
  <2>5. CASE ~(h.block < Blocks)
    <3>1. Called(h, error) = Ask(h, "write close", "close")
      <4>1. m > Blocks
        BY <1>b, <1>c, <2>5
      <4> QED BY <2>1, <4>1 DEF WriteNext
    <3>2. Live(h) /\ clean => h.transfer = f
      <4>1. h.block = Blocks
        BY <1>b, <2>5
      <4> SUFFICES ASSUME Live(h), clean PROVE h.transfer = f
        OBVIOUS
      <4>2. \A b \in 1 .. Blocks : h.transfer[b] = f[b]
        BY <2>3, <4>1
      <4> QED BY <1>a, <4>2, FileEqual
    <3>3. /\ "write close" \in States \ {"idle"} /\ "write close" \notin Reading
          /\ "write close" \notin {"read transfer", "write transfer"}
      BY DEF States, Reading, Writing
    <3>4. SameFlags(h, h)
      BY DEF SameFlags, SameWire
    <3> QED BY <1>1, <2>2, <3>1, <3>2, <3>3, <3>4, StatesOps, AsksGood
  <2> QED BY <2>4, <2>5
<1> QED BY <1>2, <1>3 DEF Answered

\* The local clipboard has been written, unless it has changed, and the remote
\* applications are to be told.
LEMMA WriteEnds ==
    ASSUME ClipboardParameters, NEW h, NEW f, NEW clean, NEW n, Good(h, f, clean, n),
           WriteIsOver(h), NEW error, Answered(h, error)
    PROVE  CallGood(h, Called(h, error), f, clean, n)
<1> DEFINE p == IF error \/ h.required THEN h ELSE [h EXCEPT !.localSync = TRUE]
           g == NotifyEnd(p)
           c == Called(h, error)
           k == [c EXCEPT !.busy = @ - 1]
<1>1. h \in HereSet /\ h.state \notin {"idle", "close"} /\ h.state \in Writing
  BY DEF Good, Writing, WriteIsOver
<1>2. c = NotifyEnd(Ended(p))
  <2>1. c = WriteClosed(h, error)
    BY DEF WriteIsOver, Called
  <2> QED BY <2>1 DEF WriteClosed
<1>3. p \in HereSet
  <2>1. [h EXCEPT !.localSync = TRUE] \in HereSet
    BY <1>1 DEF HereSet
  <2> QED BY <1>1, <2>1
<1>4. NotifyEnd(Ended(p)) = Ended(g)
  <2> HIDE DEF p
  <2> QED BY <1>3 DEF NotifyEnd, Ended, HereSet
<1>5. CASE error \/ h.required
  <2>1. p = h
    BY <1>5
  <2> HIDE DEF p
  <2>2. g \in HereSet /\ SameFlags(h, g) /\ g.busy = h.busy
    BY <1>1, <2>1, NotifyEndSame
  <2> HIDE DEF g
  <2> QED BY <1>1, <1>2, <1>4, <2>2, FailsGood
<1>6. CASE ~error /\ ~h.required
  <2>1. p = [h EXCEPT !.localSync = TRUE]
    BY <1>6
  <2> HIDE DEF p
  <2>2. /\ SameWire(h, p) /\ p.busy = h.busy /\ p.local = h.local
        /\ p.remoteSync = h.remoteSync /\ p.localSync /\ p.localChanged = h.localChanged
        /\ p.remoteChanged = h.remoteChanged /\ ~p.required /\ p.notifyActive = h.notifyActive
    BY <1>1, <1>6, <2>1 DEF HereSet, SameWire
  <2>3. g \in HereSet /\ SameFlags(p, g) /\ g.busy = p.busy /\ g.notifyRequired = h.notifyActive
    BY <1>3, <2>2, NotifyEndSame
  <2>4. g.busy = 1
    BY <1>1, <2>2, <2>3 DEF Good, HereOK
  <2> HIDE DEF g, c
  <2>5. c.state = "idle" /\ Over(g, k)
    BY <1>2, <1>4, <2>3, <2>4, EndedOver
  <2> HIDE DEF k
  <2>6. HereOK(k) /\ SameWire(h, k) /\ k.local = h.local /\ k.notifyRequired = h.notifyActive
    BY ZenonT(30), <1>1, <2>2, <2>3, <2>5, StatesOps DEF Good, Over, SameFlags, SameWire, HereOK, Doomed
  <2>7. ~Doomed(h)
    BY <1>6 DEF Answered, Doomed
  <2>8. k.active => Live(h)
    BY <1>6, <2>6, <2>7 DEF Live, SameWire
  <2>9. ContentOK(k, f, clean, n)
    <3>1. k.active /\ k.localChanged => k.local = n.copied
      BY <2>2, <2>3, <2>5, <2>6 DEF Good, ContentOK, Over, SameFlags, SameWire
    <3>2. k.active /\ clean /\ ~n.untyped => k.local = f
      BY <1>1, <2>6, <2>8 DEF Good, ContentOK, WriteIsOver
    <3>3. k.state = "idle"
      BY <2>5 DEF Over
    <3> QED BY <3>1, <3>2, <3>3 DEF ContentOK, Live, Reading, Writing
  <2> QED BY <2>5, <2>6, <2>9 DEF CallGood, Good, Over, c, k, WriteIsOver
<1> QED BY <1>5, <1>6 DEF Answered

\* clipboard_callback, in every state of a transfer.
LEMMA CalledGood ==
    ASSUME ClipboardParameters, NEW h, NEW f, NEW clean, NEW n, Good(h, f, clean, n),
           f \in File, NEW error, Answered(h, error)
    PROVE  CallGood(h, Called(h, error), f, clean, n)
<1>1. h.state # "idle" /\ h.state \in States /\ h \in HereSet
  BY DEF Good, HereOK, HereSet, Answered
<1>2. CASE h.state \in {"read open", "read args"}
  BY <1>2, ReadBegins DEF ReadStarts
<1>3. CASE h.state = "read transfer"
  BY <1>3, ReadsBlock DEF ReadGoesOn
<1>4. CASE h.state = "read close"
  BY <1>4, ReadEnds DEF ReadIsOver
<1>5. CASE h.state \in {"write open", "write extent"}
  BY <1>5, WriteBegins DEF WriteStarts
<1>6. CASE h.state = "write transfer"
  BY <1>6, WritesBlock DEF WriteGoesOn
<1>7. CASE h.state = "write close"
  BY <1>7, WriteEnds DEF WriteIsOver
<1>8. CASE h.state = "close"
  <2>1. Called(h, error) = Ended(h)
    BY <1>8 DEF Called
  <2>2. SameFlags(h, h)
    BY DEF SameFlags, SameWire
  <2> QED BY <1>1, <2>1, <2>2, FailsGood
<1> QED BY <1>1, <1>2, <1>3, <1>4, <1>5, <1>6, <1>7, <1>8 DEF States, Reading, Writing

-----------------------------------------------------------------------------
(* The steps.                                                              *)

\* Queues of messages.
LEMMA TailHolds ==
    ASSUME NEW M, NEW s \in Seq(M), s # <<>>, NEW message
    PROVE  /\ Head(s) \in M /\ Tail(s) \in Seq(M)
           /\ Holds(s, message) <=> (Head(s) = message \/ Holds(Tail(s), message))
           /\ Once(s, message) => Once(Tail(s), message)
           /\ Once(s, message) /\ Head(s) = message => ~Holds(Tail(s), message)
<1>1. Len(s) \in Nat \ {0} /\ Head(s) = s[1] /\ Tail(s) \in Seq(M) /\ Head(s) \in M
  OBVIOUS
<1>2. Len(Tail(s)) = Len(s) - 1 /\ \A i \in 1 .. Len(s) - 1 : Tail(s)[i] = s[i + 1]
  OBVIOUS
<1>3. \A i \in 1 .. Len(s) : i = 1 \/ (i - 1 \in 1 .. Len(s) - 1 /\ Tail(s)[i - 1] = s[i])
  BY <1>1, <1>2
<1>4. \A i \in 1 .. Len(s) - 1 : i + 1 \in 1 .. Len(s) /\ i + 1 # 1
  BY <1>1
<1>5. 1 \in 1 .. Len(s)
  BY <1>1
<1>6. Holds(s, message) <=> (Head(s) = message \/ Holds(Tail(s), message))
  <2>1. ASSUME NEW i \in 1 .. Len(s), s[i] = message
        PROVE  Head(s) = message \/ Holds(Tail(s), message)
    BY <1>1, <1>2, <1>3, <2>1 DEF Holds
  <2>2. ASSUME NEW i \in 1 .. Len(s) - 1, Tail(s)[i] = message PROVE Holds(s, message)
    BY <1>2, <1>4, <2>2 DEF Holds
  <2>3. Head(s) = message => Holds(s, message)
    BY <1>1, <1>5 DEF Holds
  <2> QED BY <1>2, <2>1, <2>2, <2>3 DEF Holds
<1>7. Once(s, message) => Once(Tail(s), message)
  <2> SUFFICES ASSUME Once(s, message), NEW i \in 1 .. Len(s) - 1, NEW j \in 1 .. Len(s) - 1,
                      Tail(s)[i] = message, Tail(s)[j] = message
               PROVE  i = j
    BY <1>2 DEF Once
  <2>1. s[i + 1] = message /\ s[j + 1] = message
    BY <1>2
  <2>2. i + 1 = j + 1
    BY <1>4, <2>1 DEF Once
  <2> QED BY <2>2
<1>8. Once(s, message) /\ Head(s) = message => ~Holds(Tail(s), message)
  <2> SUFFICES ASSUME Once(s, message), s[1] = message, NEW i \in 1 .. Len(s) - 1,
                      Tail(s)[i] = message
               PROVE  FALSE
    BY <1>1, <1>2 DEF Holds
  <2>1. s[i + 1] = message
    BY <1>2
  <2>2. i + 1 = 1
    BY <1>4, <1>5, <2>1 DEF Once
  <2> QED BY <2>2, <1>4
<1> QED BY <1>1, <1>6, <1>7, <1>8

LEMMA AppendHolds ==
    ASSUME NEW M, NEW s \in Seq(M), NEW x \in M, NEW message
    PROVE  /\ Append(s, x) \in Seq(M)
           /\ Holds(Append(s, x), message) <=> (Holds(s, message) \/ x = message)
           /\ Once(s, message) /\ (x = message => ~Holds(s, message)) => Once(Append(s, x), message)
<1> DEFINE a == Append(s, x)
<1>1. /\ a \in Seq(M) /\ Len(a) = Len(s) + 1 /\ Len(s) \in Nat /\ a[Len(s) + 1] = x
      /\ \A i \in 1 .. Len(s) : a[i] = s[i]
  OBVIOUS
<1> HIDE DEF a
<1>2. \A i \in 1 .. Len(a) : i = Len(s) + 1 \/ i \in 1 .. Len(s)
  BY <1>1
<1>3. (\A i \in 1 .. Len(s) : i \in 1 .. Len(a)) /\ Len(s) + 1 \in 1 .. Len(a)
  BY <1>1
<1>4. Holds(a, message) <=> (Holds(s, message) \/ x = message)
  BY <1>1, <1>2, <1>3 DEF Holds
<1>5. ASSUME Once(s, message), x = message => ~Holds(s, message) PROVE Once(a, message)
  <2> SUFFICES ASSUME NEW i \in 1 .. Len(a), NEW j \in 1 .. Len(a), a[i] = message, a[j] = message
               PROVE  i = j
    BY DEF Once
  <2>1. CASE i \in 1 .. Len(s) /\ j \in 1 .. Len(s)
    BY <1>1, <1>5, <2>1 DEF Once
  <2>2. CASE i = Len(s) + 1 /\ j = Len(s) + 1
    BY <2>2
  <2>3. CASE i = Len(s) + 1 /\ j \in 1 .. Len(s)
    <3>1. x = message /\ s[j] = message
      BY <1>1, <2>3
    <3> QED BY <1>5, <2>3, <3>1 DEF Holds
  <2>4. CASE j = Len(s) + 1 /\ i \in 1 .. Len(s)
    <3>1. x = message /\ s[i] = message
      BY <1>1, <2>4
    <3> QED BY <1>5, <2>4, <3>1 DEF Holds
  <2> QED BY <1>2, <2>1, <2>2, <2>3, <2>4
<1> QED BY <1>1, <1>4, <1>5 DEF a

LEMMA EmptyHolds == \A message : ~Holds(<<>>, message) /\ Once(<<>>, message)
BY DEF Holds, Once

\* What becomes dirty, or is not looked at any more, may be anything.
LEMMA NotedFrame ==
    ASSUME NEW h, NEW f, NEW c1, NEW c2, NEW n, NEW n2, ContentOK(h, f, c1, n), c2 => c1,
           n2.untyped = n.untyped, n2.copied = n.copied
    PROVE  ContentOK(h, f, c2, n2)
BY DEF ContentOK

\* A step of clipboard.c that leaves the device and the queues alone.
LEMMA LocalStep ==
    ASSUME IInv, SameWire(here, here'), noted' \in NotedSet, changes' \in Nat,
           Good(here', device.file, Clean(here, device, wire, noted), noted'),
           device' = device, wire' = wire, noted'.missed = noted.missed,
           ToldOK(here', device, wire, Clean(here, device, wire, noted), noted')
    PROVE  IInv'
<1> DEFINE clean == Clean(here, device, wire, noted)
<1>1. WireOK(here', device, wire) /\ Clean(here', device, wire, noted) = clean
  BY WireFrame DEF IInv
<1>2. Clean(here', device, wire, noted') = Clean(here', device, wire, noted)
  BY DEF Clean
<1> HIDE DEF clean
<1>3. TypeOK'
  BY DEF IInv, TypeOK, Good
<1> QED BY <1>1, <1>2, <1>3 DEF IInv, Good, clean

LEMMA CallbackStep ==
    ASSUME ClipboardParameters, IInv, NEW error \in BOOLEAN, NEW able \in BOOLEAN,
           Callback(error, able)
    PROVE  IInv'
<1> DEFINE clean == Clean(here, device, wire, noted)
           c == Called(here, error)
           done == [c EXCEPT !.busy = @ - 1]
           t == Transfer(done, able)
<1>1. Good(here, device.file, clean, noted) /\ device.file \in File /\ noted \in NotedSet
  BY DEF IInv, TypeOK, Good, DeviceSet
<1>2. Answered(here, error)
  BY DEF Callback, Answered
<1>3. CallGood(here, c, device.file, clean, noted)
  BY <1>1, <1>2, CalledGood
<1>4. /\ noted' \in NotedSet /\ noted'.missed = noted.missed
      /\ noted'.untyped = noted.untyped /\ noted'.copied = noted.copied
  BY <1>1 DEF Callback, NotedSet
<1>5. here.state = "write close" /\ (~here.notifyActive \/ here.notifyPending) => noted'.untold
  BY <1>1 DEF Callback, NotedSet
<1>6. device' = device /\ wire' = wire /\ changes' = changes
  BY DEF Callback
<1>7. /\ Good(here', device.file, clean, noted) /\ SameWire(here, here')
      /\ here'.state = "idle" /\ here'.active /\ here'.localSync =>
            here.state = "write close" /\ here'.notifyRequired = here.notifyActive
  <2>1. CASE c.state # "idle"
    <3>1. here' = c
      BY <2>1 DEF Callback
    <3> HIDE DEF c
    <3> QED BY <1>3, <2>1, <3>1 DEF CallGood
  <2>2. CASE c.state = "idle"
    <3>1. here' = IF Continues(here, error) THEN Tidy(t) ELSE done
      BY <2>2 DEF Callback
    <3>2. /\ Good(done, device.file, clean, noted) /\ SameWire(here, done)
          /\ done.localSync =>
                here.state = "write close" /\ done.notifyRequired = here.notifyActive
      BY <1>3, <2>2 DEF CallGood
    <3> HIDE DEF done
    <3>3. /\ Good(t, device.file, clean, noted) /\ SameWire(done, t)
          /\ t = done \/ ~t.localSync
      BY <3>2, TransferGood
    <3> HIDE DEF t
    <3>4. /\ Good(Tidy(t), device.file, clean, noted) /\ SameWire(t, Tidy(t))
          /\ Tidy(t) = t \/ ~Tidy(t).active
      BY <3>3, TidyGood
    <3>5. CASE here' = done
      BY <3>2, <3>5
    <3>6. CASE here' = Tidy(t)
      <4>1. SameWire(here, here')
        BY <3>2, <3>3, <3>4, <3>6 DEF SameWire
      <4>2. here'.active /\ here'.localSync => here' = done
        BY <3>3, <3>4, <3>6
      <4> QED BY <3>2, <3>4, <3>6, <4>1, <4>2
    <3> QED BY <3>1, <3>5, <3>6
  <2> QED BY <2>1, <2>2
<1>8. ToldOK(here', device, wire, clean, noted')
  <2>1. Holds(wire.in, "notify") => here.notifyPending
    BY DEF IInv, WireOK
  <2> QED BY <1>5, <1>7, <2>1 DEF ToldOK, Live
<1>9. changes' \in Nat
  BY <1>6 DEF IInv, TypeOK
<1> HIDE DEF c, done, t
<1>10. Good(here', device.file, clean, noted')
  BY <1>4, <1>7, NotedFrame DEF Good
<1> QED BY <1>4, <1>6, <1>7, <1>8, <1>9, <1>10, LocalStep

\* A local change is always acted on, unless it failed half way.
LEMMA CopyStep ==
    ASSUME ClipboardParameters, IInv, NEW copied \in BOOLEAN, NEW typed \in BOOLEAN,
           NEW able \in BOOLEAN, Copy(copied, typed, able)
    PROVE  IInv'
<1> DEFINE clean == Clean(here, device, wire, noted)
           v == Version(changes + 1)
           cleared == [here EXCEPT !.remoteChanged = FALSE, !.remoteSync = FALSE,
                                   !.localChanged = FALSE, !.localSync = FALSE]
           stored == IF copied THEN [cleared EXCEPT !.local = v] ELSE cleared
           g == [stored EXCEPT !.localChanged = TRUE, !.required = TRUE]
<1>1. /\ Good(here, device.file, clean, noted) /\ here \in HereSet /\ HereOK(here)
      /\ noted \in NotedSet /\ changes + 1 \in Nat
  BY DEF IInv, TypeOK, Good
<1>2. v \in File
  BY <1>1, Files
<1>3. device' = device /\ wire' = wire /\ changes' = changes + 1 /\ here.active
  BY DEF Copy
<1>4. here' = IF copied /\ typed THEN Transfer(g, able) ELSE stored
  BY DEF Copy
<1> HIDE DEF v
<1>5. /\ noted' \in NotedSet /\ noted'.missed = noted.missed /\ noted'.copied = v
      /\ noted'.untyped = IF copied THEN ~typed ELSE noted.untyped
  BY <1>1, <1>2 DEF Copy, NotedSet, v
<1>6. /\ cleared \in HereSet /\ SameWire(here, cleared) /\ cleared.state = here.state
      /\ cleared.block = here.block /\ cleared.busy = here.busy /\ cleared.request = here.request
      /\ cleared.transfer = here.transfer /\ cleared.local = here.local
      /\ cleared.required = here.required /\ ~cleared.localChanged /\ ~cleared.remoteChanged
      /\ ~cleared.localSync /\ ~cleared.remoteSync
  BY <1>1 DEF HereSet, SameWire
<1> HIDE DEF cleared
<1>7. /\ stored \in HereSet /\ SameWire(here, stored) /\ stored.state = here.state
      /\ stored.block = here.block /\ stored.busy = here.busy /\ stored.request = here.request
      /\ stored.transfer = here.transfer /\ stored.local = (IF copied THEN v ELSE here.local)
      /\ stored.required = here.required /\ ~stored.localChanged /\ ~stored.remoteChanged
      /\ ~stored.localSync /\ ~stored.remoteSync
  <2>1. CASE copied
    <3>1. stored = [cleared EXCEPT !.local = v]
      BY <2>1
    <3> HIDE DEF stored
    <3> QED BY <1>2, <1>6, <2>1, <3>1 DEF HereSet, SameWire
  <2>2. CASE ~copied
    BY <1>6, <2>2
  <2> QED BY <2>1, <2>2
<1> HIDE DEF stored
<1>8. CASE ~(copied /\ typed)
  <2>1. here' = stored
    BY <1>4, <1>8
  <2>2. HereOK(stored)
    BY <1>1, <1>7 DEF HereOK, SameWire, Doomed
  <2>3. ContentOK(stored, device.file, clean, noted')
    <3>1. Live(stored) = Live(here)
      BY <1>7 DEF Live, Doomed, SameWire
    <3>2. Live(stored) /\ stored.state \in Writing /\ ~noted'.untyped => stored.transfer = stored.local
      BY <1>1, <1>5, <1>7, <1>8, <3>1 DEF Good, ContentOK
    <3> QED BY <1>1, <1>7, <3>1, <3>2 DEF Good, ContentOK
  <2>4. ToldOK(stored, device, wire, clean, noted')
    BY <1>7 DEF ToldOK
  <2> HIDE DEF clean
  <2> QED BY <1>1, <1>3, <1>5, <1>7, <2>1, <2>2, <2>3, <2>4, LocalStep DEF Good, clean
<1>9. CASE copied /\ typed
  <2> DEFINE t == Transfer(g, able)
  <2>1. here' = t
    BY <1>4, <1>9
  <2>2. /\ g \in HereSet /\ SameWire(here, g) /\ g.state = here.state
        /\ g.block = here.block /\ g.busy = here.busy /\ g.request = here.request
        /\ g.local = v /\ g.required /\ g.localChanged /\ ~g.remoteChanged
        /\ ~g.localSync /\ ~g.remoteSync
    BY <1>7, <1>9 DEF HereSet, SameWire
  <2> HIDE DEF g
  <2>3. HereOK(g)
    BY <1>1, <1>3, <2>2 DEF HereOK, SameWire, Doomed
  <2>4. ContentOK(g, device.file, clean, noted')
    BY <1>5, <2>2 DEF ContentOK, Live
  <2>5. Good(t, device.file, clean, noted') /\ SameWire(g, t) /\ (t = g \/ ~t.localSync)
    BY <2>2, <2>3, <2>4, TransferGood DEF Good
  <2> HIDE DEF t, clean
  <2>6. SameWire(here, t) /\ ToldOK(t, device, wire, clean, noted')
    BY <2>2, <2>5 DEF SameWire, ToldOK
  <2> QED BY <1>1, <1>3, <1>5, <2>1, <2>5, <2>6, LocalStep DEF clean
<1> QED BY <1>8, <1>9

\* The file server does what is asked, or fails.
LEMMA ServeFileStep ==
    ASSUME ClipboardParameters, IInv, NEW failed \in BOOLEAN, ServeFile(failed)
    PROVE  IInv'
<1> DEFINE op == here.request.op
           done == [here.request EXCEPT !.served = TRUE, !.failed = failed,
                        !.data = IF op = "read" THEN device.file[here.block] ELSE 0]
           clean == Clean(here, device, wire, noted)
<1>1. /\ here \in HereSet /\ HereOK(here) /\ device \in DeviceSet /\ noted \in NotedSet
      /\ here.request \in Requests /\ device.file \in File /\ here.transfer \in File
      /\ ContentOK(here, device.file, clean, noted) /\ WireOK(here, device, wire)
  BY DEF IInv, TypeOK, HereSet, DeviceSet
<1>2. op = OpOf(here.state) /\ here.state \in States
  BY <1>1 DEF HereOK, HereSet
<1>3. here.state # "idle" /\ ~here.request.served
  BY <1>2, StatesOps DEF ServeFile
<1>4. /\ op = "read" <=> here.state = "read transfer"
      /\ op = "write" <=> here.state = "write transfer"
      /\ op \in {"open in", "open out"} <=> here.state \in {"read open", "write open"}
      /\ op = "open out" <=> here.state = "write open"
  BY <1>2 DEF States, Reading, Writing, OpOf
<1>5. PICK data \in Nat : /\ data = IF op = "read" THEN device.file[here.block] ELSE 0
                          /\ here.state = "read transfer" => data = device.file[here.block]
  <2>1. op = "read" => here.block \in 1 .. Blocks
    BY <1>1, <1>4 DEF HereOK
  <2> QED BY <1>1, <1>4, <2>1 DEF File
<1>6. /\ done \in Requests /\ done.served /\ done.failed = failed /\ done.op = op
      /\ here.state = "read transfer" => done.data = device.file[here.block]
  BY <1>1, <1>5 DEF Requests
<1>7. here' = [here EXCEPT !.request = done]
  BY DEF ServeFile
<1> HIDE DEF done
<1>8. /\ here' \in HereSet /\ SameFlags(here, here') /\ here'.request = done
      /\ here'.state = here.state /\ here'.block = here.block /\ here'.busy = here.busy
      /\ here'.transfer = here.transfer
  BY <1>1, <1>6, <1>7 DEF HereSet, SameFlags, SameWire
<1>9. HereOK(here') /\ SameWire(here, here')
  BY <1>1, <1>3, <1>6, <1>8 DEF HereOK, SameFlags, SameWire, Doomed
<1>10. wire' = wire /\ changes' = changes
  BY DEF ServeFile
<1>11. device' \in DeviceSet /\ device'.listening = device.listening /\ device'.news = device.news
  <2>1. CASE ~failed /\ op = "open out"
    <3>1. device' = [device EXCEPT !.file = Blank]
      BY <2>1 DEF ServeFile
    <3> QED BY <1>1, <3>1, Files DEF DeviceSet
  <2>2. CASE ~failed /\ op = "write"
    <3>1. here.block \in 1 .. Blocks
      BY <1>1, <1>4, <2>2 DEF HereOK
    <3>2. PICK t \in File : t = [device.file EXCEPT ![here.block] = here.transfer[here.block]]
      BY <1>1, <3>1 DEF File
    <3>3. device' = [device EXCEPT !.file[here.block] = here.transfer[here.block]]
      BY <2>2 DEF ServeFile
    <3>4. device' = [device EXCEPT !.file = t]
      BY <1>1, <3>2, <3>3 DEF DeviceSet
    <3> QED BY <1>1, <3>2, <3>4 DEF DeviceSet
  <2>3. CASE failed \/ op \notin {"open out", "write"}
    <3>1. device' = device
      BY <2>3 DEF ServeFile
    <3> QED BY <1>1, <3>1
  <2> QED BY <2>1, <2>2, <2>3
<1>12. /\ noted' \in NotedSet /\ noted'.untyped = noted.untyped /\ noted'.copied = noted.copied
       /\ noted'.missed = noted.missed \/ (~failed /\ here.state \in {"read open", "write open"})
  BY <1>1, <1>4 DEF ServeFile, NotedSet
<1>13. WireOK(here', device', wire')
  BY <1>1, <1>9, <1>10, <1>11, WireFrame DEF WireOK
<1>14. TypeOK'
  BY <1>8, <1>10, <1>11, <1>12 DEF IInv, TypeOK
<1> DEFINE clean2 == Clean(here', device', wire', noted')
<1>15. ToldOK(here', device', wire', clean2, noted')
  BY <1>3, <1>8 DEF ToldOK
<1>16. ContentOK(here', device'.file, clean2, noted')
  <2>1. Live(here') => Live(here) /\ ~failed
    BY <1>3, <1>6, <1>8 DEF Live, Doomed, SameFlags, SameWire
  <2>2. here'.active /\ here'.localChanged => here'.local = noted'.copied
    BY <1>1, <1>8, <1>12 DEF ContentOK, SameFlags, SameWire
  <2>3. Live(here') /\ here'.state \in Reading => ~here'.localChanged
    BY <1>1, <1>8, <2>1 DEF ContentOK, SameFlags
  <2>4. Live(here') /\ here'.state \in Writing /\ ~noted'.untyped => here'.transfer = here'.local
    BY <1>1, <1>8, <1>12, <2>1 DEF ContentOK, SameFlags
  <2>5. here.state \notin {"read open", "write open"} => clean2 = clean
    BY <1>9, <1>10, <1>11, <1>12 DEF Clean, SameWire
  <2>6. here.state \in {"read open", "write open"} \/ here.state # "idle"
    BY <1>3
  <2> HIDE DEF clean, clean2, op
  <2>7. CASE here.state = "write transfer" /\ ~failed
    <3>1. device' = [device EXCEPT !.file[here.block] = here.transfer[here.block]]
      BY <1>4, <2>7 DEF ServeFile, op
    <3>2. here.block \in 1 .. Blocks
      BY <1>1, <2>7 DEF HereOK
    <3>3. device'.file = [device.file EXCEPT ![here.block] = here.transfer[here.block]]
      BY <1>1, <3>1 DEF DeviceSet
    <3>4. device'.file[here.block] = here.transfer[here.block]
      BY <1>1, <3>2, <3>3 DEF File
    <3>5. \A b \in 1 .. here.block - 1 : device'.file[b] = device.file[b]
      <4>1. \A b \in 1 .. here.block - 1 : b \in 1 .. Blocks /\ b # here.block
        BY <3>2 DEF ClipboardParameters
      <4> QED BY <1>1, <3>3, <4>1 DEF File
    <3>6. Live(here) /\ clean => \A b \in 1 .. here.block - 1 : here.transfer[b] = device.file[b]
      BY <1>1, <2>7 DEF ContentOK
    <3>7. clean2 = clean
      BY <2>5, <2>7
    <3>8. Live(here') /\ clean2 => \A b \in 1 .. here'.block - 1 : here'.transfer[b] = device'.file[b]
      BY <1>8, <2>1, <3>5, <3>6, <3>7
    <3>9. here'.state = "write transfer" /\ here'.transfer[here'.block] = device'.file[here'.block]
      BY <1>8, <2>7, <3>4
    <3> QED BY <2>2, <2>3, <2>4, <3>8, <3>9 DEF ContentOK
  <2>8. CASE here.state \in {"read open", "write open"}
    BY <1>8, <2>2, <2>3, <2>4, <2>8 DEF ContentOK
  <2>9. CASE /\ here.state \notin {"write transfer", "read open", "write open"}
             /\ ~failed
    <3>1. device' = device
      BY <1>4, <2>9 DEF ServeFile, op
    <3>2. clean2 = clean
      BY <2>5, <2>9
    <3>3. here'.state # "idle" /\ here'.state # "write transfer"
      BY <1>3, <1>8, <2>9
    <3>4. Live(here') /\ clean2 /\ here'.state = "read transfer"
            => /\ \A b \in 1 .. here'.block - 1 : here'.transfer[b] = device'.file[b]
               /\ here'.request.data = device'.file[here'.block]
      BY <1>1, <1>6, <1>8, <2>1, <3>1, <3>2 DEF ContentOK
    <3>5. Live(here') /\ clean2 /\ here'.state \in {"read close", "write close"}
            => here'.transfer = device'.file
      BY <1>1, <1>8, <2>1, <3>1, <3>2 DEF ContentOK
    <3> QED BY <2>2, <2>3, <2>4, <3>3, <3>4, <3>5 DEF ContentOK
  <2>10. CASE failed
    <3>1. ~Live(here')
      BY <2>1, <2>10
    <3> QED BY <2>2, <3>1 DEF ContentOK
  <2> QED BY <2>7, <2>8, <2>9, <2>10
<1> QED BY <1>9, <1>13, <1>14, <1>15, <1>16 DEF IInv

\* A remote change is always dirty.
LEMMA DeviceCopyStep ==
    ASSUME ClipboardParameters, IInv, DeviceCopy
    PROVE  IInv'
<1>1. /\ device \in DeviceSet /\ noted \in NotedSet /\ changes + 1 \in Nat
      /\ ContentOK(here, device.file, Clean(here, device, wire, noted), noted)
  BY DEF IInv, TypeOK
<1>2. here' = here /\ wire' = wire /\ changes' = changes + 1
  BY DEF DeviceCopy
<1>3. PICK v \in File : v = Version(changes + 1)
  BY <1>1, Files
<1>4. device' = [device EXCEPT !.file = v, !.news = device.session]
  BY <1>3 DEF DeviceCopy
<1>5. device' \in DeviceSet /\ device'.listening = device.listening /\ device'.news = device.session
  BY <1>1, <1>4 DEF DeviceSet
<1>6. /\ noted' \in NotedSet /\ noted'.untyped = noted.untyped /\ noted'.copied = noted.copied
      /\ ~device.session => noted'.missed
  BY <1>1 DEF DeviceCopy, NotedSet, DeviceSet
<1>7. ~Clean(here', device', wire', noted')
  BY <1>1, <1>5, <1>6 DEF Clean
<1>8. ContentOK(here', device'.file, Clean(here', device', wire', noted'), noted')
  BY <1>1, <1>2, <1>6, <1>7 DEF ContentOK
<1>9. ToldOK(here', device', wire', Clean(here', device', wire', noted'), noted')
  BY <1>7 DEF ToldOK
<1>10. WireOK(here', device', wire')
  BY <1>2, <1>5 DEF IInv, WireOK
<1> QED BY <1>1, <1>2, <1>5, <1>6, <1>8, <1>9, <1>10 DEF IInv, TypeOK

-----------------------------------------------------------------------------
(* rclip.c *)

LEMMA RclipStartStep ==
    ASSUME ClipboardParameters, IInv, RclipStart
    PROVE  IInv'
<1> DEFINE r == IF here.state = "idle" THEN here.request
                ELSE [here.request EXCEPT !.served = TRUE, !.failed = TRUE]
<1>1. here \in HereSet /\ HereOK(here) /\ here.request \in Requests /\ ~here.open
  BY DEF IInv, TypeOK, HereSet, RclipStart
<1>2. /\ r \in Requests /\ r.op = here.request.op
      /\ here.state # "idle" => r.served /\ r.failed
      /\ here.state = "idle" => r = here.request
  <2>1. [here.request EXCEPT !.served = TRUE, !.failed = TRUE] \in Requests
    BY <1>1 DEF Requests
  <2> QED BY <1>1, <2>1 DEF Requests
<1>3. here' = [here EXCEPT !.open = TRUE, !.request = r]
  BY DEF RclipStart
<1> HIDE DEF r
<1>4. /\ here' \in HereSet /\ here'.open /\ here'.request = r
      /\ here'.active = here.active /\ here'.required = here.required
      /\ here'.connected = here.connected /\ here'.initDone = here.initDone
      /\ here'.initPending = here.initPending /\ here'.notifyPending = here.notifyPending
      /\ here'.state = here.state /\ here'.block = here.block /\ here'.busy = here.busy
      /\ here'.remoteChanged = here.remoteChanged /\ here'.localChanged = here.localChanged
      /\ here'.remoteSync = here.remoteSync /\ here'.localSync = here.localSync
  BY <1>1, <1>2, <1>3 DEF HereSet
<1>5. UNCHANGED <<device, wire, noted, changes>>
  BY DEF RclipStart
<1>6. HereOK(here')
  BY <1>1, <1>2, <1>4 DEF HereOK, Doomed
<1>7. ~here'.active
  BY <1>1, <1>4 DEF HereOK
<1>8. WireOK(here', device', wire')
  BY <1>4, <1>5 DEF IInv, WireOK
<1> QED BY <1>4, <1>5, <1>6, <1>7, <1>8 DEF IInv, TypeOK, ContentOK, ToldOK, Live

\* When a connection is lost nothing is on its way.
LEMMA SilentQuiet ==
    ASSUME IInv, Silent(noted)
    PROVE  /\ wire' \in WireSet /\ wire'.out = <<>> /\ wire'.in = <<>>
           /\ device' \in DeviceSet /\ device'.file = device.file /\ device'.told = device.told
           /\ ~device'.listening /\ ~device'.news
           /\ noted' \in NotedSet /\ noted'.untyped = noted.untyped
           /\ noted'.copied = noted.copied /\ noted'.untold = noted.untold
           /\ ~noted'.missed => Clean(here, device, wire, noted)
<1>1. device \in DeviceSet /\ noted \in NotedSet
  BY DEF IInv, TypeOK
<1>2. wire' \in WireSet /\ wire'.out = <<>> /\ wire'.in = <<>>
  BY DEF Silent, WireSet
<1>3. /\ device' \in DeviceSet /\ device'.file = device.file /\ device'.told = device.told
      /\ ~device'.listening /\ ~device'.news
  BY <1>1 DEF Silent, DeviceSet
<1>4. "init" \in {wire.in[i] : i \in 1 .. Len(wire.in)} <=> Holds(wire.in, "init")
  BY DEF Holds
<1> DEFINE lost == "init" \in {wire.in[i] : i \in 1 .. Len(wire.in)}
           missed == noted.missed \/ device.news \/ lost
<1>5. noted' = [noted EXCEPT !.missed = missed]
  BY DEF Silent
<1>6. missed \in BOOLEAN /\ (~missed => Clean(here, device, wire, noted))
  BY <1>1, <1>4 DEF Clean
<1> HIDE DEF missed
<1>7. /\ noted' \in NotedSet /\ noted'.untyped = noted.untyped
      /\ noted'.copied = noted.copied /\ noted'.untold = noted.untold /\ noted'.missed = missed
  BY <1>1, <1>5, <1>6 DEF NotedSet
<1> QED BY <1>2, <1>3, <1>6, <1>7

LEMMA RclipEndStep ==
    ASSUME ClipboardParameters, IInv, RclipEnd
    PROVE  IInv'
<1> DEFINE cleared == [here EXCEPT !.active = FALSE, !.remoteChanged = FALSE, !.remoteSync = FALSE,
                             !.localChanged = FALSE, !.localSync = FALSE, !.required = FALSE]
           e == EndedClipboard(here)
           \* What a clipboard that is ended or tidied keeps.
           Kept(k) == /\ k \in HereSet /\ k.connected = here.connected
                      /\ ~k.active /\ ~k.required /\ (k.remoteSync \/ k.localSync => k.state = "idle")
                      /\ ~(k.remoteChanged /\ k.localChanged)
                      /\ k.state = here.state /\ k.block = here.block /\ k.busy = here.busy
                      /\ k.request = here.request
                      /\ k.initDone = here.initDone
                      /\ k.initPending = here.initPending /\ k.notifyPending = here.notifyPending
<1>1. here \in HereSet /\ HereOK(here) /\ changes \in Nat
  BY DEF IInv, TypeOK
<1>2. Kept(e)
  <2>1. CASE ~here.active
    <3>1. e = here
      BY <2>1 DEF EndedClipboard
    <3> QED BY <1>1, <2>1, <3>1 DEF HereOK
  <2>2. CASE here.active
    <3>1. e = Tidy(cleared)
      BY <2>2 DEF EndedClipboard
    <3>2. Kept(cleared)
      BY ZenonT(30), <1>1 DEF HereSet
    <3> HIDE DEF cleared
    <3>3. CASE Tidy(cleared) = cleared
      BY <3>1, <3>2, <3>3
    <3>4. CASE Tidy(cleared) = [cleared EXCEPT !.local = Blank, !.transfer = Blank]
      <4>1. e = [cleared EXCEPT !.local = Blank, !.transfer = Blank]
        BY <3>1, <3>4
      <4> HIDE DEF e
      <4> QED BY <3>2, <4>1, Files DEF HereSet
    <3> QED BY <3>3, <3>4 DEF Tidy
  <2> QED BY <1>1, <2>1, <2>2 DEF HereSet
<1>3. here' = [e EXCEPT !.open = FALSE, !.connected = FALSE,
                        !.notifyActive = FALSE, !.notifyRequired = FALSE]
  BY DEF RclipEnd
<1> HIDE DEF e
<1>4. /\ here' \in HereSet /\ ~here'.open /\ ~here'.connected /\ ~here'.active
      /\ ~here'.required /\ (here'.remoteSync \/ here'.localSync => here'.state = "idle")
      /\ ~(here'.remoteChanged /\ here'.localChanged)
      /\ here'.state = here.state /\ here'.block = here.block /\ here'.busy = here.busy
      /\ here'.request = here.request
  BY <1>2, <1>3 DEF HereSet
<1>5. HereOK(here')
  BY <1>1, <1>4 DEF HereOK
<1>6. Silent(noted) /\ changes' = changes
  BY DEF RclipEnd
<1>7. WireOK(here', device', wire')
  BY <1>4, <1>6, SilentQuiet, EmptyHolds DEF WireOK
<1> QED BY <1>1, <1>4, <1>5, <1>6, <1>7, SilentQuiet DEF IInv, TypeOK, ContentOK, ToldOK, Live

\* The channel changes, but not the clipboard or its transfer.
SameClip(h, k) ==
    /\ k.active = h.active /\ k.open = h.open /\ k.required = h.required
    /\ k.state = h.state /\ k.block = h.block /\ k.busy = h.busy /\ k.request = h.request
    /\ k.transfer = h.transfer /\ k.local = h.local
    /\ k.remoteChanged = h.remoteChanged /\ k.localChanged = h.localChanged
    /\ k.remoteSync = h.remoteSync /\ k.localSync = h.localSync

LEMMA ChannelStep ==
    ASSUME IInv, here' \in HereSet, SameClip(here, here'),
           here'.connected => here.open,
           here'.connected /\ here'.initDone => here.active /\ ~here'.initPending,
           device' \in DeviceSet, device'.file = device.file, wire' \in WireSet,
           noted' \in NotedSet, noted'.untyped = noted.untyped, noted'.copied = noted.copied,
           WireOK(here', device', wire'), UNCHANGED changes,
           Clean(here', device', wire', noted') => Clean(here, device, wire, noted),
           ToldOK(here', device', wire', Clean(here', device', wire', noted'), noted')
    PROVE  IInv'
<1>1. HereOK(here')
  BY DEF IInv, HereOK, SameClip, Doomed
<1>2. ContentOK(here', device'.file, Clean(here', device', wire', noted'), noted')
  <2>1. ContentOK(here, device.file, Clean(here, device, wire, noted), noted)
    BY DEF IInv
  <2>2. ContentOK(here', device.file, Clean(here, device, wire, noted), noted)
    BY <2>1 DEF ContentOK, SameClip, Live, Doomed
  <2> QED BY <2>2, NotedFrame
<1> QED BY <1>1, <1>2 DEF IInv, TypeOK

\* What was told remains so while no more than before is owed.
LEMMA ToldFrame ==
    ASSUME NEW h, NEW k, NEW d, NEW e, NEW v, NEW w, NEW c1, NEW c2, NEW n, NEW n2,
           SameClip(h, k), e.told = d.told, e.file = d.file,
           n.untold => n2.untold, c2 => c1, ToldOK(h, d, v, c1, n),
           k.notifyRequired = h.notifyRequired, Holds(w.in, "notify") => Holds(v.in, "notify")
    PROVE  ToldOK(k, e, w, c2, n2)
BY DEF ToldOK, SameClip, Live, Doomed

LEMMA ServerConnectedStep ==
    ASSUME ClipboardParameters, IInv, ServerConnected
    PROVE  IInv'
<1>1. here \in HereSet /\ here.open /\ ~here.connected
  BY DEF IInv, TypeOK, ServerConnected
<1>2. here' = [here EXCEPT !.connected = TRUE, !.initPending = FALSE, !.initDone = FALSE,
                           !.listenPending = FALSE, !.notifyPending = FALSE]
  BY DEF ServerConnected
<1>3. /\ here' \in HereSet /\ SameClip(here, here') /\ ~here'.initDone /\ ~here'.initPending
      /\ here'.notifyRequired = here.notifyRequired
  BY <1>1, <1>2 DEF HereSet, SameClip
<1>4. UNCHANGED <<device, wire, noted, changes>>
  BY DEF ServerConnected
<1>5. wire.out = <<>> /\ wire.in = <<>> /\ ~device.listening
  BY <1>1 DEF IInv, WireOK
<1>6. WireOK(here', device', wire')
  BY <1>3, <1>4, <1>5, EmptyHolds DEF WireOK
<1>7. Clean(here', device', wire', noted') => Clean(here, device, wire, noted)
  BY <1>4, <1>5, EmptyHolds DEF Clean
<1>8. ToldOK(here', device', wire', Clean(here', device', wire', noted'), noted')
  BY <1>3, <1>4, <1>7, ToldFrame DEF IInv
<1> QED BY <1>1, <1>3, <1>4, <1>6, <1>7, <1>8, ChannelStep DEF IInv, TypeOK

LEMMA ServerDisconnectedStep ==
    ASSUME ClipboardParameters, IInv, ServerDisconnected
    PROVE  IInv'
<1>1. here \in HereSet
  BY DEF IInv, TypeOK
<1>2. here' = [here EXCEPT !.connected = FALSE, !.initDone = FALSE]
  BY DEF ServerDisconnected
<1>3. /\ here' \in HereSet /\ SameClip(here, here') /\ ~here'.connected /\ ~here'.initDone
      /\ here'.notifyRequired = here.notifyRequired
  BY <1>1, <1>2 DEF HereSet, SameClip
<1>4. Silent(noted) /\ UNCHANGED changes
  BY DEF ServerDisconnected
<1>5. WireOK(here', device', wire')
  BY <1>3, <1>4, SilentQuiet, EmptyHolds DEF WireOK
<1>6. Clean(here', device', wire', noted') => Clean(here, device, wire, noted)
  BY <1>4, SilentQuiet DEF Clean
<1>7. ToldOK(here', device', wire', Clean(here', device', wire', noted'), noted')
  <2>1. ~Holds(wire'.in, "notify")
    BY <1>4, SilentQuiet, EmptyHolds
  <2> QED BY <1>3, <1>4, <1>6, <2>1, SilentQuiet, ToldFrame DEF IInv
<1> QED BY <1>3, <1>4, <1>5, <1>6, <1>7, SilentQuiet, ChannelStep

\* A message is sent: the registration, a notice, or a request to be told.
Sends(h, message) ==
    /\ h \in HereSet /\ SameClip(here, h) /\ h.notifyRequired = here.notifyRequired
    /\ here.connected /\ h.connected /\ h.initDone = here.initDone
    /\ h.initPending <=> (here.initPending \/ message = "init")
    /\ h.notifyPending <=> (here.notifyPending \/ message = "notify")
    /\ message = "init" => ~here.initDone /\ ~here.initPending
    /\ message # "init" => here.initDone
    /\ message = "notify" => ~here.notifyPending

LEMMA SendStep ==
    ASSUME IInv, NEW h, NEW message \in Messages, Send(h, message), Sends(h, message)
    PROVE  IInv'
<1> USE DEF Sends
<1>1. /\ here' = h /\ wire' = [wire EXCEPT !.out = Append(wire.out, message)]
      /\ UNCHANGED <<device, noted, changes>>
  BY DEF Send
<1>2. wire \in WireSet /\ HereOK(here) /\ WireOK(here, device, wire)
  BY DEF IInv, TypeOK
<1>3. wire.out \in Seq(Messages) /\ Append(wire.out, message) \in Seq(Messages)
  BY <1>2, AppendHolds DEF WireSet
<1>4. wire' \in WireSet /\ wire'.in = wire.in /\ wire'.out = Append(wire.out, message)
  BY <1>1, <1>2, <1>3 DEF WireSet
<1>5. /\ Holds(wire'.out, "init") <=> (Holds(wire.out, "init") \/ message = "init")
      /\ Holds(wire'.out, "notify") <=> (Holds(wire.out, "notify") \/ message = "notify")
      /\ Once(wire.out, "notify") /\ (message = "notify" => ~Holds(wire.out, "notify"))
            => Once(wire'.out, "notify")
  BY <1>3, <1>4, AppendHolds
<1>6. here.initDone => here.active /\ ~here.initPending
  BY <1>2 DEF HereOK
<1>7. CASE message = "init"
  <2>1. wire.out = <<>> /\ wire.in = <<>> /\ ~device.listening
    BY <1>2, <1>7 DEF WireOK
  <2>2. wire'.out = <<"init">>
    BY <1>4, <1>7, <2>1
  <2>3. WireOK(here', device', wire')
    BY <1>1, <1>2, <1>4, <1>5, <1>7, <2>1, <2>2, EmptyHolds DEF WireOK
  <2>4. Clean(here', device', wire', noted') => Clean(here, device, wire, noted)
    BY <1>1, <2>1, EmptyHolds DEF Clean
  <2>5. ToldOK(here', device', wire', Clean(here', device', wire', noted'), noted')
    BY <1>1, <1>4, <2>4 DEF IInv, ToldOK, SameClip, Live, Doomed
  <2> QED BY <1>1, <1>2, <1>4, <1>7, <2>3, <2>4, <2>5, ChannelStep DEF IInv, TypeOK, HereOK
<1>8. CASE message # "init"
  <2>1. WireOK(here', device', wire')
    BY <1>1, <1>2, <1>4, <1>5, <1>6, <1>8 DEF WireOK
  <2>2. Clean(here', device', wire', noted') => Clean(here, device, wire, noted)
    BY <1>1, <1>4, <1>8 DEF Clean
  <2>3. ToldOK(here', device', wire', Clean(here', device', wire', noted'), noted')
    BY <1>1, <1>4, <2>2 DEF IInv, ToldOK, SameClip, Live, Doomed
  <2> QED BY <1>1, <1>2, <1>4, <1>6, <1>8, <2>1, <2>2, <2>3, ChannelStep DEF IInv, TypeOK, HereOK
<1> QED BY <1>7, <1>8

LEMMA RclipIdleStep ==
    ASSUME ClipboardParameters, IInv, RclipIdle
    PROVE  IInv'
<1>1. here \in HereSet /\ here.connected /\ HereOK(here)
  BY DEF IInv, TypeOK, RclipIdle
<1>2. CASE ~here.initDone /\ ~here.initPending /\ Send([here EXCEPT !.initPending = TRUE], "init")
  <2> DEFINE h == [here EXCEPT !.initPending = TRUE]
  <2>1. /\ h \in HereSet /\ SameClip(here, h) /\ h.notifyRequired = here.notifyRequired
        /\ h.connected = here.connected /\ h.initDone = here.initDone /\ h.initPending
        /\ h.notifyPending = here.notifyPending
    BY <1>1 DEF HereSet, SameClip
  <2>2. PICK m \in Messages : m = "init"
    BY DEF Messages
  <2> HIDE DEF h
  <2>3. Send(h, m)
    BY <1>2, <2>2 DEF h
  <2>4. Sends(h, m)
    BY <1>1, <1>2, <2>1, <2>2 DEF Sends, HereOK
  <2> QED BY <2>3, <2>4, SendStep
<1>3. CASE /\ here.initDone /\ ~here.notifyPending /\ here.notifyRequired
           /\ Send([here EXCEPT !.notifyPending = TRUE], "notify")
  <2> DEFINE h == [here EXCEPT !.notifyPending = TRUE]
  <2>1. /\ h \in HereSet /\ SameClip(here, h) /\ h.notifyRequired = here.notifyRequired
        /\ h.connected = here.connected /\ h.initDone = here.initDone
        /\ h.initPending = here.initPending /\ h.notifyPending
    BY <1>1 DEF HereSet, SameClip
  <2>2. PICK m \in Messages : m = "notify"
    BY DEF Messages
  <2> HIDE DEF h
  <2>3. Send(h, m)
    BY <1>3, <2>2 DEF h
  <2>4. Sends(h, m)
    BY <1>1, <1>3, <2>1, <2>2 DEF Sends, HereOK
  <2> QED BY <2>3, <2>4, SendStep
<1>4. CASE here.initDone /\ Send([here EXCEPT !.listenPending = TRUE], "listen")
  <2> DEFINE h == [here EXCEPT !.listenPending = TRUE]
  <2>1. /\ h \in HereSet /\ SameClip(here, h) /\ h.notifyRequired = here.notifyRequired
        /\ h.connected = here.connected /\ h.initDone = here.initDone
        /\ h.initPending = here.initPending /\ h.notifyPending = here.notifyPending
    BY <1>1 DEF HereSet, SameClip
  <2>2. PICK m \in Messages : m = "listen"
    BY DEF Messages
  <2> HIDE DEF h
  <2>3. Send(h, m)
    BY <1>4, <2>2 DEF h
  <2>4. Sends(h, m)
    BY <1>1, <1>4, <2>1, <2>2 DEF Sends, HereOK
  <2> QED BY <2>3, <2>4, SendStep
<1> QED BY <1>2, <1>3, <1>4 DEF RclipIdle

\* A message of the server has been taken off its queue.
Taken(message) ==
    /\ wire.in # <<>> /\ message = Head(wire.in)
    /\ wire' \in WireSet /\ wire'.out = wire.out /\ wire'.in = Tail(wire.in)
    /\ UNCHANGED <<device, changes>>

\* clipboard_start
LEMMA StartedSame ==
    ASSUME NEW h \in HereSet, NEW k,
           k = IF h.active THEN h
               ELSE [h EXCEPT !.active = TRUE, !.remoteChanged = FALSE, !.remoteSync = FALSE,
                              !.localChanged = FALSE, !.localSync = FALSE]
    PROVE  /\ k \in HereSet /\ k.active /\ k.connected = h.connected
           /\ k.initDone = h.initDone /\ k.initPending = h.initPending
           /\ k.open = h.open /\ k.required = h.required /\ k.state = h.state
           /\ k.block = h.block /\ k.busy = h.busy /\ k.request = h.request
<1>1. CASE h.active
  BY <1>1
<1>2. CASE ~h.active
  BY <1>2 DEF HereSet
<1> QED BY <1>1, <1>2

\* Registered: the clipboard starts, if it was not active.
LEMMA RegisteredStep ==
    ASSUME ClipboardParameters, IInv, NEW message, Taken(message), here.connected,
           here.initPending, UNCHANGED noted,
           here' = Started([here EXCEPT !.initDone = TRUE, !.initPending = FALSE])
    PROVE  IInv'
<1> DEFINE r == [here EXCEPT !.initDone = TRUE, !.initPending = FALSE]
<1>1. here \in HereSet /\ HereOK(here) /\ WireOK(here, device, wire) /\ noted \in NotedSet
  BY DEF IInv, TypeOK
<1>2. wire.out = <<>> /\ wire'.in = <<>> /\ wire'.out = <<>> /\ ~device.listening
  <2>1. wire.out = <<>> /\ wire.in = <<"init">> /\ ~device.listening
    BY <1>1 DEF WireOK, Taken
  <2>2. Tail(<<"init">>) = <<>>
    OBVIOUS
  <2> QED BY <2>1, <2>2 DEF Taken
<1>3. /\ r \in HereSet /\ SameClip(here, r) /\ r.connected /\ r.initDone /\ ~r.initPending
      /\ r.notifyPending = here.notifyPending /\ r.notifyRequired = here.notifyRequired
  BY <1>1 DEF HereSet, SameClip
<1>4. here' = IF r.active THEN r
              ELSE [r EXCEPT !.active = TRUE, !.remoteChanged = FALSE, !.remoteSync = FALSE,
                             !.localChanged = FALSE, !.localSync = FALSE]
  BY DEF Started
<1> HIDE DEF r
<1>5. /\ here' \in HereSet /\ here'.active /\ here'.connected /\ here'.initDone
      /\ ~here'.initPending
      /\ here'.open = here.open /\ here'.required = here.required /\ here'.state = here.state
      /\ here'.block = here.block /\ here'.busy = here.busy /\ here'.request = here.request
  <2>1. r \in HereSet
    BY <1>3
  <2>2. /\ here' \in HereSet /\ here'.active /\ here'.connected = r.connected
        /\ here'.initDone = r.initDone /\ here'.initPending = r.initPending
        /\ here'.open = r.open /\ here'.required = r.required /\ here'.state = r.state
        /\ here'.block = r.block /\ here'.busy = r.busy /\ here'.request = r.request
    BY <1>4, <2>1, StartedSame
  <2> QED BY <1>3, <2>2 DEF SameClip
<1>6. WireOK(here', device', wire')
  BY <1>2, <1>5, EmptyHolds DEF WireOK, Taken
<1>7. Clean(here', device', wire', noted') => Clean(here, device, wire, noted)
  BY DEF Clean, Taken
<1>8. CASE here.active
  <2>1. here' = r
    BY <1>3, <1>4, <1>8 DEF SameClip
  <2>2. ToldOK(here', device', wire', Clean(here', device', wire', noted'), noted')
    BY <1>2, <1>3, <1>7, <2>1, EmptyHolds DEF IInv, ToldOK, SameClip, Live, Doomed, Taken
  <2> QED BY <1>1, <1>3, <1>5, <1>6, <1>7, <1>8, <2>1, <2>2, ChannelStep
          DEF IInv, TypeOK, Taken, HereOK
<1>9. CASE ~here.active
  <2>1. /\ ~here'.remoteChanged /\ ~here'.remoteSync /\ ~here'.localChanged /\ ~here'.localSync
    BY ZenonT(30), <1>3, <1>4, <1>9 DEF HereSet, SameClip
  <2>2. HereOK(here')
    BY <1>1, <1>5, <1>9, <2>1 DEF HereOK, Doomed
  <2>3. here'.state \in {"idle", "close"} \/ ~Live(here')
    BY <1>1, <1>5, <1>9 DEF HereOK, Live, Doomed
  <2>4. ContentOK(here', device'.file, Clean(here', device', wire', noted'), noted')
    BY <2>1, <2>3 DEF ContentOK, Reading, Writing
  <2>5. ToldOK(here', device', wire', Clean(here', device', wire', noted'), noted')
    BY <2>1 DEF ToldOK
  <2> QED BY <1>1, <1>5, <1>6, <2>2, <2>4, <2>5 DEF IInv, TypeOK, Taken
<1> QED BY <1>8, <1>9

\* A change at the remote end is acted on.
LEMMA ToldOfChangeStep ==
    ASSUME ClipboardParameters, IInv, NEW able \in BOOLEAN, NEW message, Taken(message),
           here.connected, ~here.initPending, ~here.notifyActive,
           here' = RemoteCopy([here EXCEPT !.listenPending = FALSE], able),
           noted' \in NotedSet, ~noted'.untyped
    PROVE  IInv'
<1> DEFINE heard == [here EXCEPT !.listenPending = FALSE]
           g == [heard EXCEPT !.remoteSync = FALSE, !.localChanged = FALSE, !.localSync = FALSE,
                              !.remoteChanged = TRUE, !.required = TRUE]
           clean == Clean(here', device', wire', noted')
           t == Transfer(g, able)
<1>1. /\ here \in HereSet /\ HereOK(here) /\ WireOK(here, device, wire)
      /\ wire.in \in Seq(Answers)
  BY DEF IInv, TypeOK, WireSet
<1>2. here.initDone /\ here.active /\ wire.in # <<>>
  BY <1>1 DEF WireOK, Taken, HereOK
<1>3. here' = t
  BY <1>1, <1>2 DEF RemoteCopy, HereSet
<1>4. /\ g \in HereSet /\ g.required /\ g.remoteChanged /\ ~g.localChanged /\ ~g.localSync
      /\ ~g.remoteSync /\ g.active = here.active /\ g.open = here.open
      /\ g.connected = here.connected /\ g.initDone = here.initDone
      /\ g.initPending = here.initPending /\ g.notifyPending = here.notifyPending
      /\ g.state = here.state /\ g.block = here.block /\ g.busy = here.busy
      /\ g.request = here.request
  BY ZenonT(30), <1>1 DEF HereSet
<1> HIDE DEF g
<1>5. HereOK(g)
  BY <1>1, <1>2, <1>4 DEF HereOK, Doomed
<1>6. ContentOK(g, device.file, clean, noted')
  BY <1>4 DEF ContentOK, Live
<1> HIDE DEF clean
<1>7. Good(t, device.file, clean, noted') /\ SameWire(g, t) /\ (t = g \/ ~t.localSync)
  BY <1>4, <1>5, <1>6, TransferGood DEF Good
<1> HIDE DEF t
<1>8. /\ Holds(Tail(wire.in), "notify") => Holds(wire.in, "notify")
      /\ Once(wire.in, "notify") => Once(Tail(wire.in), "notify")
  BY <1>1, <1>2, TailHolds
<1>9. WireOK(g, device', wire')
  BY <1>1, <1>2, <1>4, <1>8 DEF WireOK, Taken
<1>10. WireOK(here', device', wire')
  BY <1>3, <1>7, <1>9, WireFrame
<1>11. ToldOK(here', device', wire', clean, noted')
  BY <1>3, <1>4, <1>7 DEF ToldOK
<1> QED BY <1>3, <1>7, <1>10, <1>11 DEF IInv, TypeOK, Good, Taken, clean

LEMMA RclipReceiveStep ==
    ASSUME ClipboardParameters, IInv, NEW able \in BOOLEAN, RclipReceive(able)
    PROVE  IInv'
<1> DEFINE heard == [here EXCEPT !.listenPending = FALSE]
<1>1. /\ here \in HereSet /\ HereOK(here) /\ WireOK(here, device, wire) /\ noted \in NotedSet
      /\ wire \in WireSet /\ wire.in \in Seq(Answers) /\ wire.out \in Seq(Messages)
      /\ device \in DeviceSet /\ changes \in Nat
  BY DEF IInv, TypeOK, WireSet
<1>2. /\ here.connected /\ wire.in # <<>> /\ wire' = [wire EXCEPT !.in = Tail(wire.in)]
      /\ UNCHANGED <<device, changes>>
  BY DEF RclipReceive
<1>3. PICK message \in Answers : message = Head(wire.in)
  BY <1>1, <1>2, TailHolds
<1>4. Tail(wire.in) \in Seq(Answers)
  BY <1>1, <1>2, TailHolds
<1>5. Taken(message)
  BY <1>1, <1>2, <1>3, <1>4 DEF Taken, WireSet
<1>6. ~here.initPending => here.initDone /\ here.active
  BY <1>1, <1>2 DEF WireOK, HereOK
<1>7. CASE /\ message = "init" /\ here.initPending /\ UNCHANGED noted
           /\ here' = Started([here EXCEPT !.initDone = TRUE, !.initPending = FALSE])
  BY <1>2, <1>5, <1>7, RegisteredStep
<1>8. CASE /\ message = "init" /\ ~here.initPending /\ here.listenPending
           /\ here' = IF here.notifyActive THEN heard ELSE RemoteCopy(heard, able)
           /\ noted' = [noted EXCEPT !.missed = noted.missed \/ here.notifyActive, !.failed = ~able,
                                       !.untyped = noted.untyped /\ here.notifyActive]
  <2>1. /\ noted' \in NotedSet /\ noted'.missed = (noted.missed \/ here.notifyActive)
        /\ noted'.untyped = (noted.untyped /\ here.notifyActive)
        /\ noted'.copied = noted.copied
    BY <1>1, <1>8 DEF NotedSet
  <2>2. CASE here.notifyActive
    <3>1. here' = heard
      BY <1>8, <2>2
    <3>2. /\ heard \in HereSet /\ SameClip(here, heard) /\ heard.connected = here.connected
          /\ heard.initDone = here.initDone /\ heard.initPending = here.initPending
          /\ heard.notifyPending = here.notifyPending
      BY <1>1 DEF HereSet, SameClip
    <3> HIDE DEF heard
    <3>3. /\ Holds(Tail(wire.in), "notify") => Holds(wire.in, "notify")
          /\ Once(wire.in, "notify") => Once(Tail(wire.in), "notify")
      BY <1>1, <1>2, TailHolds
    <3>4. WireOK(here', device', wire')
      BY <1>1, <1>2, <1>5, <1>6, <1>8, <3>1, <3>2, <3>3 DEF WireOK, Taken
    <3>5. ~Clean(here', device', wire', noted')
      BY <2>1, <2>2 DEF Clean
    <3>6. ToldOK(here', device', wire', Clean(here', device', wire', noted'), noted')
      BY <3>5 DEF ToldOK
    <3>7. noted'.untyped = noted.untyped
      BY <1>1, <2>1, <2>2 DEF NotedSet
    <3> QED BY <1>1, <1>2, <1>5, <1>6, <1>8, <2>1, <3>1, <3>2, <3>4, <3>5, <3>6, <3>7, ChannelStep
            DEF Taken, HereOK
  <2>3. CASE ~here.notifyActive
    <3>1. here' = RemoteCopy([here EXCEPT !.listenPending = FALSE], able)
      BY <1>8, <2>3
    <3>2. noted' \in NotedSet /\ ~noted'.untyped
      BY <2>1, <2>3
    <3> QED BY <1>2, <1>5, <1>8, <2>3, <3>1, <3>2, ToldOfChangeStep
  <2> QED BY <2>2, <2>3
<1>9. CASE /\ message # "init" /\ here.notifyPending /\ UNCHANGED noted
           /\ here' = [here EXCEPT !.notifyPending = FALSE, !.notifyRequired = FALSE]
  <2>1. message = "notify"
    BY <1>9 DEF Answers
  <2>2. /\ here' \in HereSet /\ SameClip(here, here') /\ here'.connected = here.connected
        /\ here'.initDone = here.initDone /\ here'.initPending = here.initPending
    BY <1>1, <1>9 DEF HereSet, SameClip
  <2>3. /\ Holds(wire.in, "notify")
        /\ Once(wire.in, "notify") => ~Holds(Tail(wire.in), "notify") /\ Once(Tail(wire.in), "notify")
        /\ Holds(Tail(wire.in), "init") <=> Holds(wire.in, "init")
    BY <1>1, <1>2, <1>3, <1>9, <2>1, TailHolds
  <2>4. ~here.initPending
    <3>1. ASSUME wire.in = <<"init">> PROVE FALSE
      BY <1>3, <1>9, <3>1
    <3> QED BY <1>1, <1>2, <3>1 DEF WireOK
  <2>5. WireOK(here', device', wire')
    BY <1>1, <1>2, <1>5, <1>6, <2>2, <2>3, <2>4 DEF WireOK, Taken
  <2>6. Clean(here', device', wire', noted') => Clean(here, device, wire, noted)
    BY <1>5, <1>9, <2>2, <2>3 DEF Clean, Taken
  <2>7. ToldOK(here', device', wire', Clean(here', device', wire', noted'), noted')
    BY <1>5, <1>9, <2>2, <2>3, <2>6 DEF IInv, ToldOK, SameClip, Live, Doomed, Taken
  <2> QED BY <1>1, <1>2, <1>5, <1>6, <1>9, <2>2, <2>4, <2>5, <2>6, <2>7, ChannelStep
          DEF Taken, HereOK
<1> QED BY <1>3, <1>7, <1>8, <1>9 DEF RclipReceive

\* The clipboard server takes a message, or answers a request to be told.
LEMMA ServeClipboardStep ==
    ASSUME ClipboardParameters, IInv, ServeClipboard
    PROVE  IInv'
<1>1. /\ here \in HereSet /\ HereOK(here) /\ WireOK(here, device, wire) /\ noted \in NotedSet
      /\ wire \in WireSet /\ wire.in \in Seq(Answers) /\ wire.out \in Seq(Messages)
      /\ device \in DeviceSet /\ device.file \in File
  BY DEF IInv, TypeOK, WireSet, DeviceSet
<1>2. UNCHANGED <<here, changes>>
  BY DEF ServeClipboard
<1>3. SameClip(here, here') /\ here' \in HereSet
  BY <1>1, <1>2 DEF SameClip
<1>4. here.connected => here.open
  BY <1>1 DEF HereOK
<1>5. here.connected /\ here.initDone => here.active /\ ~here.initPending
  BY <1>1 DEF HereOK
<1>6. ASSUME NEW x, x = Head(wire.out), wire.out # <<>>,
             wire' = [out |-> Tail(wire.out),
                      in |-> IF x = "listen" THEN wire.in ELSE Append(wire.in, x)],
             device' = CASE x = "init" -> [device EXCEPT !.session = TRUE]
                         [] x = "listen" -> [device EXCEPT !.listening = TRUE]
                         [] x = "notify" -> [device EXCEPT !.told = device.file],
             noted' = IF x = "notify" THEN [noted EXCEPT !.untold = FALSE] ELSE noted
      PROVE  IInv'
  <2>1. PICK message \in Messages : message = x /\ message = Head(wire.out)
    BY <1>1, <1>6, TailHolds
  <2>2. /\ Tail(wire.out) \in Seq(Messages)
        /\ Holds(wire.out, "init") <=> (message = "init" \/ Holds(Tail(wire.out), "init"))
        /\ Holds(wire.out, "notify") <=> (message = "notify" \/ Holds(Tail(wire.out), "notify"))
        /\ Once(wire.out, "notify") => Once(Tail(wire.out), "notify")
        /\ Once(wire.out, "notify") /\ message = "notify" => ~Holds(Tail(wire.out), "notify")
    BY <1>1, <1>6, <2>1, TailHolds
  <2>3. here.connected /\ (here.initDone \/ here.initPending)
    BY <1>1, <1>6 DEF WireOK
  <2>4. CASE message = "init" /\ device' = [device EXCEPT !.session = TRUE]
             /\ wire' = [out |-> Tail(wire.out), in |-> Append(wire.in, message)]
             /\ noted' = noted
    <3>1. here.initPending /\ ~here.initDone
      BY <1>1, <2>2, <2>3, <2>4 DEF WireOK
    <3>2. wire.out = <<"init">> /\ wire.in = <<>> /\ ~device.listening
      BY <1>1, <1>6, <2>3, <3>1 DEF WireOK
    <3>3. wire'.out = <<>> /\ wire'.in = <<"init">>
      BY <2>4, <3>2
    <3>4. /\ device' \in DeviceSet /\ device'.file = device.file /\ device'.told = device.told
          /\ device'.listening = device.listening /\ device'.news = device.news
      BY <1>1, <2>4 DEF DeviceSet
    <3>5. ~Holds(wire'.in, "notify") /\ Once(wire'.in, "notify")
      <4>1. ~Holds(<<"init">>, "notify") /\ Once(<<"init">>, "notify")
        BY DEF Holds, Once
      <4> QED BY <3>3, <4>1
    <3>6. WireOK(here', device', wire')
      BY <1>1, <1>2, <2>3, <3>1, <3>2, <3>3, <3>4, <3>5, EmptyHolds DEF WireOK
    <3>7. wire' \in WireSet
      <4>1. <<"init">> \in Seq(Answers) /\ <<>> \in Seq(Messages)
        BY DEF Answers
      <4> QED BY <2>4, <3>3, <4>1 DEF WireSet
    <3>8. Clean(here', device', wire', noted') => Clean(here, device, wire, noted)
      BY <2>4, <3>1, <3>4 DEF Clean
    <3>9. ToldOK(here', device', wire', Clean(here', device', wire', noted'), noted')
      BY <1>2, <2>4, <3>4, <3>5, <3>8 DEF IInv, ToldOK, Live
    <3> QED BY <1>1, <1>2, <1>3, <1>4, <1>5, <2>4, <3>4, <3>6, <3>7, <3>8, <3>9, ChannelStep
  <2>5. CASE message = "listen" /\ device' = [device EXCEPT !.listening = TRUE]
             /\ wire' = [out |-> Tail(wire.out), in |-> wire.in]
             /\ noted' = noted
    <3>1. ~here.initPending /\ here.initDone
      <4>1. ASSUME wire.out = <<"init">> PROVE FALSE
        BY <2>1, <2>5, <4>1
      <4> QED BY <1>1, <1>6, <2>3, <4>1 DEF WireOK
    <3>2. /\ device' \in DeviceSet /\ device'.file = device.file /\ device'.told = device.told
          /\ device'.news = device.news
      BY <1>1, <2>5 DEF DeviceSet
    <3>3. wire' \in WireSet /\ wire'.in = wire.in /\ wire'.out = Tail(wire.out)
      BY <1>1, <2>2, <2>5 DEF WireSet
    <3>4. WireOK(here', device', wire')
      BY <1>1, <1>2, <2>2, <2>3, <3>1, <3>3 DEF WireOK
    <3>5. Clean(here', device', wire', noted') => Clean(here, device, wire, noted)
      BY <1>2, <2>5, <3>2, <3>3 DEF Clean
    <3>6. ToldOK(here', device', wire', Clean(here', device', wire', noted'), noted')
      BY <1>2, <2>5, <3>2, <3>3, <3>5 DEF IInv, ToldOK, Live
    <3> QED BY <1>1, <1>2, <1>3, <1>4, <1>5, <2>5, <3>2, <3>3, <3>4, <3>5, <3>6, ChannelStep
  <2>6. CASE message = "notify" /\ device' = [device EXCEPT !.told = device.file]
             /\ wire' = [out |-> Tail(wire.out), in |-> Append(wire.in, message)]
             /\ noted' = [noted EXCEPT !.untold = FALSE]
    <3>1. ~here.initPending /\ here.initDone
      <4>1. ASSUME wire.out = <<"init">> PROVE FALSE
        BY <2>1, <2>6, <4>1
      <4> QED BY <1>1, <1>6, <2>3, <4>1 DEF WireOK
    <3>2. /\ device' \in DeviceSet /\ device'.file = device.file /\ device'.told = device.file
          /\ device'.news = device.news
      BY <1>1, <2>6 DEF DeviceSet
    <3>3. message \in Answers
      BY <2>6 DEF Answers
    <3>4. /\ Append(wire.in, message) \in Seq(Answers)
          /\ Holds(Append(wire.in, message), "init") <=> Holds(wire.in, "init")
          /\ Once(wire.in, "notify") /\ ~Holds(wire.in, "notify")
                => Once(Append(wire.in, message), "notify")
      BY <1>1, <2>6, <3>3, AppendHolds
    <3>5. wire' \in WireSet /\ wire'.in = Append(wire.in, message) /\ wire'.out = Tail(wire.out)
      BY <2>2, <2>6, <3>4 DEF WireSet
    <3>6. WireOK(here', device', wire')
      BY <1>1, <1>2, <2>2, <2>3, <2>6, <3>1, <3>4, <3>5 DEF WireOK
    <3>7. /\ noted' \in NotedSet /\ noted'.missed = noted.missed
          /\ noted'.untyped = noted.untyped /\ noted'.copied = noted.copied
      BY <1>1, <2>6 DEF NotedSet
    <3>8. Clean(here', device', wire', noted') => Clean(here, device, wire, noted)
      BY <1>2, <3>2, <3>4, <3>5, <3>7 DEF Clean
    <3>9. ToldOK(here', device', wire', Clean(here', device', wire', noted'), noted')
      BY <3>2 DEF ToldOK
    <3> QED BY <1>1, <1>2, <1>3, <1>4, <1>5, <3>2, <3>5, <3>6, <3>7, <3>8, <3>9, ChannelStep
  <2> QED BY <1>6, <2>1, <2>4, <2>5, <2>6 DEF Messages
<1>7. CASE device.listening /\ device.news
           /\ wire' = [wire EXCEPT !.in = Append(wire.in, "init")]
           /\ device' = [device EXCEPT !.listening = FALSE, !.news = FALSE]
           /\ noted' = noted
  <2>1. here.connected /\ here.initDone /\ ~here.initPending
    BY <1>1, <1>7 DEF WireOK
  <2>2. PICK message \in Answers : message = "init"
    BY DEF Answers
  <2>3. /\ Append(wire.in, message) \in Seq(Answers)
        /\ Holds(Append(wire.in, message), "init")
        /\ Holds(Append(wire.in, message), "notify") <=> Holds(wire.in, "notify")
        /\ Once(wire.in, "notify") => Once(Append(wire.in, message), "notify")
    BY <1>1, <2>2, AppendHolds
  <2>4. wire' \in WireSet /\ wire'.in = Append(wire.in, message) /\ wire'.out = wire.out
    BY <1>1, <1>7, <2>2, <2>3 DEF WireSet
  <2>5. device' \in DeviceSet /\ device'.file = device.file
    BY <1>1, <1>7 DEF DeviceSet
  <2>6. WireOK(here', device', wire')
    BY <1>1, <1>2, <2>1, <2>3, <2>4 DEF WireOK
  <2>7. ~Clean(here', device', wire', noted')
    BY <1>2, <2>1, <2>3, <2>4 DEF Clean
  <2>8. ToldOK(here', device', wire', Clean(here', device', wire', noted'), noted')
    BY <2>7 DEF ToldOK
  <2> QED BY <1>1, <1>2, <1>3, <1>4, <1>5, <1>7, <2>4, <2>5, <2>6, <2>7, <2>8, ChannelStep
<1> QED BY <1>6, <1>7 DEF ServeClipboard

-----------------------------------------------------------------------------
(* The theorems.                                                           *)

LEMMA InitIInv == ASSUME ClipboardParameters, ClipboardInit PROVE IInv
<1>1. Blank \in File
  BY Files
<1>2. /\ NoRequest \in Requests /\ NoRequest.op = "none" /\ NoRequest.served = FALSE
      /\ NoRequest.failed = FALSE
  BY DEF NoRequest, Requests, Ops
<1>3. /\ here \in HereSet /\ here.busy = 0 /\ here.state = "idle" /\ here.request = NoRequest
      /\ ~here.active /\ ~here.required /\ ~here.connected /\ ~here.initDone /\ ~here.initPending
      /\ ~here.remoteSync /\ ~here.localSync /\ ~here.remoteChanged /\ ~here.localChanged
      /\ ~here.notifyPending /\ ~here.open
  BY <1>1, <1>2 DEF ClipboardInit, HereSet, States
<1>4. /\ device \in DeviceSet /\ ~device.listening /\ wire \in WireSet
      /\ wire.out = <<>> /\ wire.in = <<>> /\ noted \in NotedSet /\ changes \in Nat
  BY <1>1 DEF ClipboardInit, DeviceSet, WireSet, NotedSet
<1>5. TypeOK
  BY <1>3, <1>4 DEF TypeOK
<1>6. HereOK(here)
  BY <1>2, <1>3, StatesOps DEF HereOK
<1>7. WireOK(here, device, wire)
  BY <1>3, <1>4, EmptyHolds DEF WireOK
<1> QED BY <1>3, <1>5, <1>6, <1>7 DEF IInv, ContentOK, ToldOK, Live

LEMMA NextIInv == ASSUME ClipboardParameters, IInv, [ClipboardNext]_cvars PROVE IInv'
<1>1. CASE UNCHANGED cvars
  BY <1>1 DEF cvars, IInv, TypeOK
<1>2. here.request.failed \in BOOLEAN
  BY DEF IInv, TypeOK, HereSet, Requests
<1>3. Able \subseteq BOOLEAN /\ Fails \subseteq BOOLEAN
  BY DEF Able, Fails
<1>4. CASE ClipboardStep
  <2>1. ASSUME NEW error \in Fails \cup {here.request.failed}, NEW able \in Able,
               Callback(error, able)
        PROVE  IInv'
    BY <1>2, <1>3, <2>1, CallbackStep
  <2>2. ASSUME NEW able \in Able, RclipReceive(able) PROVE IInv'
    BY <1>3, <2>2, RclipReceiveStep
  <2>3. ASSUME NEW failed \in Fails, ServeFile(failed) PROVE IInv'
    BY <1>3, <2>3, ServeFileStep
  <2> QED BY <1>4, <2>1, <2>2, <2>3, RclipIdleStep, ServeClipboardStep DEF ClipboardStep
<1>5. CASE RclipStart \/ RclipEnd \/ ServerConnected \/ ServerDisconnected
  BY <1>5, RclipStartStep, RclipEndStep, ServerConnectedStep, ServerDisconnectedStep
<1>6. CASE \E copied, typed, able \in BOOLEAN : Copy(copied, typed, able)
  BY <1>6, CopyStep
<1>7. CASE DeviceCopy
  BY <1>7, DeviceCopyStep
<1> QED BY <1>1, <1>4, <1>5, <1>6, <1>7 DEF ClipboardNext

LEMMA InvariantClipboardOK == IInv => ClipboardOK
<1> SUFFICES ASSUME IInv PROVE ClipboardOK
  OBVIOUS
<1> DEFINE clean == Clean(here, device, wire, noted)
<1>1. /\ here \in HereSet /\ HereOK(here) /\ ContentOK(here, device.file, clean, noted)
      /\ ToldOK(here, device, wire, clean, noted)
  BY DEF IInv, TypeOK
<1>2. Settled => here.state = "idle" /\ ~here.required /\ (~noted.missed => clean)
  BY DEF Settled, Clean, Holds
<1>3. here.state = "idle" => ~Doomed(here)
  BY <1>1 DEF HereOK, Doomed
<1> HIDE DEF clean
<1>4. here.active /\ Settled /\ ~noted.missed => Live(here) /\ clean /\ here.state = "idle"
  BY <1>2, <1>3 DEF Live
<1>5. here.active /\ Settled /\ ~noted.missed /\ ~noted.untyped
         /\ (here.remoteSync \/ here.localSync) => here.local = device.file
  BY <1>1, <1>4 DEF ContentOK
<1>6. here.active /\ here.localChanged => here.local = noted.copied
  BY <1>1 DEF ContentOK
<1>7. here.active /\ Settled /\ here.localSync /\ ~here.notifyRequired /\ ~noted.missed
         => device.told = device.file \/ noted.untold
  BY <1>1, <1>4 DEF ToldOK
<1>8. here.busy = (IF here.state = "idle" THEN 0 ELSE 1)
  BY <1>1 DEF HereOK
<1> QED BY <1>5, <1>6, <1>7, <1>8 DEF ClipboardOK

\* The inductive invariant holds in every reachable state, whatever the number of
\* blocks of a clipboard, of changes and of faults (clipboard.c, rclip.c).
THEOREM ClipboardInvariant == ASSUME ClipboardParameters PROVE ClipboardSpec => []IInv
<1>1. ClipboardInit => IInv
  BY InitIInv
<1>2. IInv /\ [ClipboardNext]_cvars => IInv'
  BY NextIInv
<1> QED BY <1>1, <1>2, PTL DEF ClipboardSpec

\* A clipboard that is called synchronised is the same at both ends, a local change
\* survives a transfer that was already running, the remote applications have been
\* told of what was written, and the link is kept from being idle just while there is
\* a transfer, with the exceptions that ClipboardOK names (clipboard_callback,
\* clipboard_copy, clipboard_remote_copy, rclip_receive).
THEOREM ClipboardSafe == ASSUME ClipboardParameters PROVE ClipboardSpec => []ClipboardOK
<1>1. IInv => ClipboardOK
  BY InvariantClipboardOK
<1> QED BY <1>1, ClipboardInvariant, PTL
=============================================================================
