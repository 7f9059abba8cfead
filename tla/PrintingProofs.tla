---------------------------- MODULE PrintingProofs ----------------------------
(***************************************************************************)
(* Proofs about Printing: whatever the number of jobs, of their pages, of  *)
(* the packets of a page and of the failures, the jobs that clients read   *)
(* are those that the remote machine printed.                              *)
(*                                                                         *)
(* PrintingOK speaks of the pages that are finished.  The invariant also   *)
(* says which piece of which page the server sends next, what is in the    *)
(* page that is being written, and how the two ends fall into step again   *)
(* after a job was cancelled at either.                                    *)
(***************************************************************************)
EXTENDS Printing, SequenceTheorems, TLAPS

Sheet == Seq(Nat \X Nat \X Nat)
Status == {"idle", "start", "receiving", "complete", "cancelled"}
Job ==
    [handle : Nat, base : Nat, status : Status, file : Nat \cup {NoFile},
     received : Nat, read : Nat, kept : Seq(Sheet)]
Typed(h) ==
    /\ h \in [connected : BOOLEAN, suppress : BOOLEAN, pageLast : BOOLEAN, jobs : Seq(Job),
              disk : {h.disk}, page : Nat, handle : Nat, initPending : BOOLEAN, initDone : BOOLEAN,
              dataPending : BOOLEAN, dataEnabled : BOOLEAN, cancelRequired : BOOLEAN,
              stopRequired : BOOLEAN, busy : BOOLEAN, remain : Nat]
    /\ DOMAIN h.disk \in SUBSET Nat
    /\ h.disk \in [DOMAIN h.disk -> Sheet]

-----------------------------------------------------------------------------
(* The jobs and their files *)

\* The number after the last page of a job.
EndOf(job) == job.base + job.received + (IF job.file = NoFile THEN 0 ELSE 1)
JobOK(job) == job.read <= job.received /\ job.file \in {NoFile, job.base + job.received}
HeadOver(h) == h.jobs = <<>> \/ Over(h.jobs[1])

\* Jobs have their pages one after another, the newest job the last ones.
Shelf(h) ==
    /\ Typed(h)
    /\ \A i \in 1 .. Len(h.jobs) : JobOK(h.jobs[i]) /\ EndOf(h.jobs[i]) <= h.page
    /\ \A i, j \in 1 .. Len(h.jobs) : i < j => EndOf(h.jobs[j]) <= h.jobs[i].base
    /\ \A i \in 2 .. Len(h.jobs) : Over(h.jobs[i])
    /\ HeadOver(h) \/ EndOf(h.jobs[1]) = h.page
    /\ DOMAIN h.disk = UNION {PageFiles(h.jobs[i]) : i \in 1 .. Len(h.jobs)}

\* The state of wprt.c: the next packet is asked for, or the job waits.
Live(h) == h.connected /\ h.busy /\ ~h.suppress
Enabled(h) == h.dataEnabled \/ (h.jobs # <<>> /\ h.jobs[1].status = "start")
Flow(h) ==
    /\ Live(h) => ~HeadOver(h)
    /\ h.initDone => h.connected /\ ~h.initPending
    /\ h.connected => Enabled(h)
    /\ h.connected /\ (h.dataPending \/ h.stopRequired) => h.initDone
    /\ h.connected /\ ~h.busy => h.remain = 0

-----------------------------------------------------------------------------
(* What is in the pages, where pages[s] is the number of those of remote job s *)

Size(n) == IF n = 1 THEN 1 ELSE Pieces
At(pages, s, n, k) == s \in 1 .. Len(pages) /\ n \in 1 .. pages[s] + 1 /\ k \in 1 .. Size(n)

Whole(pages, disk, job, s) ==
    /\ s \in 1 .. Len(pages)
    /\ job.kept = [n \in 1 .. job.read |-> Page(s, n)]
    /\ \A n \in job.read + 1 .. job.received : disk[job.base + n - 1] = Page(s, n)
    /\ job.status = "complete" => job.received = pages[s] + 1
OthersWhole(pages, h) == \A i \in 2 .. Len(h.jobs) : \E s \in Nat : Whole(pages, h.disk, h.jobs[i], s)
AllWhole(pages, h) == \A i \in 1 .. Len(h.jobs) : \E s \in Nat : Whole(pages, h.disk, h.jobs[i], s)

\* The newest job is remote job s, up to piece k of page n.
Written(pages, h, s, n, k) ==
    /\ Whole(pages, h.disk, h.jobs[1], s)
    /\ h.jobs[1].received = n - 1
    /\ IF k = 1 THEN h.jobs[1].file = NoFile
       ELSE h.jobs[1].file # NoFile /\ h.disk[h.jobs[1].file] = [j \in 1 .. k - 1 |-> <<s, n, j>>]

-----------------------------------------------------------------------------
(* The two ends *)

\* The next packet is expected to have piece k of page n.
Synced(pages, h, s, n, k) ==
    /\ h.busy
    /\ h.remain = IF k = 1 THEN 0 ELSE Pieces - k + 1
    /\ k > 1 => h.pageLast = (n = pages[s] + 1)

\* Packets have one piece, but the last of a cancelled job the rest of a page.
PacketType == [reset : BOOLEAN, first : BOOLEAN, total : Nat, pageLast : BOOLEAN, data : Sheet, last : BOOLEAN]
Carries(pages, p, s, n, k) ==
    /\ p \in PacketType
    /\ p.reset = (n = 1) /\ p.first = (k = 1) /\ p.total = Size(n) /\ p.pageLast = (n = pages[s] + 1)
    /\ p.data = [j \in 1 .. Len(p.data) |-> <<s, n, k + j - 1>>]
    /\ Len(p.data) >= 1
    /\ IF p.last THEN k + Len(p.data) - 1 = Size(n) /\ (n = 1 => p.pageLast)
       ELSE Len(p.data) = 1 /\ ~(p.pageLast /\ k = Size(n))

\* What the server does next when it has sent such a packet.
Beyond(sv, p, s, n, k) ==
    sv.printing /\ sv.page > 1 =>
        /\ ~p.last /\ s = Len(sv.pages)
        /\ IF k = Size(n) THEN sv.page = n + 1 /\ sv.piece = 1 ELSE sv.page = n /\ sv.piece = k + 1
Coming(tracked, h, sv, p, s, n, k) ==
    /\ At(sv.pages, s, n, k) /\ Carries(sv.pages, p, s, n, k) /\ Beyond(sv, p, s, n, k)
    /\ n = 1 \/ (p.last /\ ~h.busy) \/ Synced(sv.pages, h, s, n, k)
    /\ tracked /\ n > 1 =>
          /\ Synced(sv.pages, h, s, n, k)
          /\ Live(h) => Written(sv.pages, h, s, n, k) /\ (p.last => p.pageLast)

\* There is at most one request or answer, behind what stops the server.
LevelReply == [reset : {FALSE}, data : {<<>>}, last : BOOLEAN]
Quiet(h, w) ==
    /\ ~h.initPending /\ ~h.dataPending /\ w.in = <<>>
    /\ w.out = <<>> \/ (w.out = <<"stop">> /\ h.initDone /\ ~h.stopRequired)
Levelling(h, w) ==
    /\ h.initPending /\ ~h.stopRequired
    /\ \/ w.out = <<"level">> /\ w.in = <<>>
       \/ w.out = <<>> /\ \E p \in LevelReply : w.in = <<p>>
Asking(h, w) ==
    /\ h.dataPending /\ ~h.stopRequired /\ w.in = <<>>
    /\ w.out \in {<<"data">>, <<"cancel">>, <<"stop", "data">>, <<"stop", "cancel">>}
Answered(tracked, h, w, sv) ==
    /\ h.dataPending /\ ~h.stopRequired /\ w.out = <<>>
    /\ \E p \in PacketType : \E s, n, k \in Nat : w.in = <<p>> /\ Coming(tracked, h, sv, p, s, n, k)
WireOK(tracked, h, w, sv) ==
    /\ w = [out |-> w.out, in |-> w.in]
    /\ IF h.connected THEN Quiet(h, w) \/ Levelling(h, w) \/ Asking(h, w) \/ Answered(tracked, h, w, sv)
       ELSE w.out = <<>> /\ w.in = <<>>

ServerOK(sv) ==
    /\ sv \in [pages : Seq(Nat), printing : BOOLEAN, page : Nat, piece : Nat]
    /\ sv.printing => sv.pages # <<>> /\ At(sv.pages, Len(sv.pages), sv.page, sv.piece)

\* A cancellation has yet to reach the server.
Sent(w) == \E i \in 1 .. Len(w.out) : w.out[i] = "cancel"
Due(h, w) == h.cancelRequired \/ Sent(w)

Sync(tracked, h, w, sv) ==
    sv.printing /\ sv.page > 1 =>
        /\ h.initDone
        /\ w.in = <<>> =>
              /\ \/ ~h.busy /\ ((h.cancelRequired /\ ~h.dataPending) \/ Sent(w))
                 \/ Synced(sv.pages, h, Len(sv.pages), sv.page, sv.piece)
              /\ tracked => /\ Synced(sv.pages, h, Len(sv.pages), sv.page, sv.piece)
                            /\ Live(h) => Written(sv.pages, h, Len(sv.pages), sv.page, sv.piece)
Kept(h, w, sv) ==
    /\ Due(h, w) => h.suppress
    /\ HeadOver(h) \/ Live(h)
    /\ AllWhole(sv.pages, h)

\* What is true until a local file fails or a job is crossed.
Tracked(u) == ~u.local /\ ~u.crossed
UpsetOK(u) == u \in [faults : Nat, local : BOOLEAN, crossed : BOOLEAN]

Safe(h, w, sv, u) ==
    /\ Shelf(h) /\ Flow(h) /\ ServerOK(sv) /\ UpsetOK(u)
    /\ WireOK(Tracked(u), h, w, sv) /\ Sync(Tracked(u), h, w, sv)
    /\ Tracked(u) => Kept(h, w, sv)

PrintingIInv == Safe(host, pipe, server, upset)

-----------------------------------------------------------------------------
(* Jobs that go *)

\* RemoveAt leaves the others as they are.
LEMMA RemoveAtFacts ==
    ASSUME NEW S, NEW s \in Seq(S), NEW i \in 1 .. Len(s)
    PROVE  /\ RemoveAt(s, i) \in Seq(S) /\ Len(RemoveAt(s, i)) = Len(s) - 1
           /\ \A j \in 1 .. Len(s) - 1 : RemoveAt(s, i)[j] = s[IF j < i THEN j ELSE j + 1]
<1> DEFINE a == SubSeq(s, 1, i - 1)
           b == SubSeq(s, i + 1, Len(s))
<1>1. a \in Seq(S) /\ Len(a) = i - 1 /\ \A j \in 1 .. i - 1 : a[j] = s[j]
  OBVIOUS
<1>2. b \in Seq(S) /\ Len(b) = Len(s) - i /\ \A j \in 1 .. Len(s) - i : b[j] = s[i + j]
  OBVIOUS
<1>3. a \o b \in Seq(S) /\ Len(a \o b) = Len(s) - 1
      /\ \A j \in 1 .. Len(s) - 1 : (a \o b)[j] = IF j < i THEN a[j] ELSE b[j - (i - 1)]
  <2> HIDE DEF a, b
  <2>1. a \o b \in Seq(S) /\ Len(a \o b) = Len(a) + Len(b)
    BY <1>1, <1>2, ConcatProperties
  <2>2. ASSUME NEW j \in 1 .. Len(s) - 1 PROVE (a \o b)[j] = IF j < i THEN a[j] ELSE b[j - (i - 1)]
    <3>1. j \in 1 .. Len(a) + Len(b) /\ (j <= Len(a) <=> j < i)
      BY <1>1, <1>2
    <3>2. (a \o b)[j] = IF j <= Len(a) THEN a[j] ELSE b[j - Len(a)]
      BY <1>1, <1>2, <3>1, ConcatProperties
    <3> QED BY <1>1, <3>1, <3>2
  <2> QED BY <1>1, <1>2, <2>1, <2>2
<1>4. ASSUME NEW j \in 1 .. Len(s) - 1 PROVE (a \o b)[j] = s[IF j < i THEN j ELSE j + 1]
  <2> HIDE DEF a, b
  <2>1. CASE j < i
    BY <1>1, <1>3, <2>1
  <2>2. CASE ~(j < i)
    <3>1. j - (i - 1) \in 1 .. Len(s) - i
      BY <2>2
    <3>2. i + (j - (i - 1)) = j + 1
      OBVIOUS
    <3> QED BY <1>2, <1>3, <2>2, <3>1, <3>2
  <2> QED BY <2>1, <2>2
<1> QED BY <1>3, <1>4 DEF RemoveAt

\* The pages of a job that have files are those from the first that was not read.
LEMMA FilesFacts ==
    ASSUME NEW job \in Job, JobOK(job)
    PROVE  /\ PageFiles(job) = job.base + job.read .. EndOf(job) - 1
           /\ EndOf(job) \in Nat /\ job.base \in Nat /\ job.base <= EndOf(job)
           /\ \A p \in PageFiles(job) : p \in Nat /\ job.base + job.read <= p /\ p < EndOf(job)
<1>1. /\ PageFiles(job) = job.base + job.read .. EndOf(job) - 1
      /\ EndOf(job) \in Nat /\ job.base \in Nat /\ job.base <= EndOf(job)
  BY DEF PageFiles, EndOf, JobOK, Job, NoFile
<1>2. job.base + job.read \in Nat
  BY DEF Job
<1> HIDE DEF JobOK
<1> QED BY <1>1, <1>2

\* Each page that is received and not read has a file.
LEMMA FilesHas ==
    ASSUME NEW job \in Job, NEW n \in job.read + 1 .. job.received
    PROVE  job.base + n - 1 \in PageFiles(job)
<1>1. job.base \in Nat /\ job.read \in Nat /\ job.received \in Nat
  BY DEF Job
<1> QED BY <1>1 DEF PageFiles

\* Two jobs have no file in common.
LEMMA Apart ==
    ASSUME NEW h, Shelf(h), NEW i \in 1 .. Len(h.jobs), NEW j \in 1 .. Len(h.jobs), i # j
    PROVE  PageFiles(h.jobs[i]) \cap PageFiles(h.jobs[j]) = {}
<1>1. \A k \in 1 .. Len(h.jobs) : h.jobs[k] \in Job /\ JobOK(h.jobs[k])
  BY DEF Shelf, Typed
<1>4. EndOf(h.jobs[i]) <= h.jobs[j].base \/ EndOf(h.jobs[j]) <= h.jobs[i].base
  <2>1. Len(h.jobs) \in Nat /\ (i < j \/ j < i)
    BY DEF Shelf, Typed
  <2> QED BY <2>1 DEF Shelf
<1>5. \A p \in PageFiles(h.jobs[i]) : p \in Nat /\ h.jobs[i].base <= p /\ p < EndOf(h.jobs[i])
  <2>1. h.jobs[i].read \in Nat /\ h.jobs[i].base \in Nat
    BY <1>1 DEF Job
  <2> QED BY <1>1, <2>1, FilesFacts
<1>6. \A p \in PageFiles(h.jobs[j]) : p \in Nat /\ h.jobs[j].base <= p /\ p < EndOf(h.jobs[j])
  <2>1. h.jobs[j].read \in Nat /\ h.jobs[j].base \in Nat
    BY <1>1 DEF Job
  <2> QED BY SMTT(30), <1>1, <2>1, FilesFacts
<1>7. h.jobs[i].base \in Nat /\ h.jobs[j].base \in Nat /\ EndOf(h.jobs[i]) \in Nat /\ EndOf(h.jobs[j]) \in Nat
  BY <1>1, FilesFacts
<1> QED BY SMTT(30), <1>4, <1>5, <1>6, <1>7

\* The fields that printing.c keeps are jobs, disk, page and handle; this is the rest.
SameState(g, h) ==
    /\ g.connected = h.connected /\ g.suppress = h.suppress /\ g.pageLast = h.pageLast
    /\ g.initPending = h.initPending /\ g.initDone = h.initDone /\ g.dataPending = h.dataPending
    /\ g.dataEnabled = h.dataEnabled /\ g.cancelRequired = h.cancelRequired
    /\ g.stopRequired = h.stopRequired /\ g.busy = h.busy /\ g.remain = h.remain

\* The files of the job are the same.
Agrees(g, h, job) == \A p \in PageFiles(job) : p \in DOMAIN g.disk /\ g.disk[p] = h.disk[p]

\* Nothing of a job is lost, but that it goes or is cancelled.
Comes(g, h, i, j) ==
    /\ Agrees(g, h, h.jobs[j])
    /\ g.jobs[i] \in {h.jobs[j], [h.jobs[j] EXCEPT !.status = "cancelled"]}
Descends(g, h) ==
    \A i \in 1 .. Len(g.jobs) : \E j \in 1 .. Len(h.jobs) : Comes(g, h, i, j)

\* What depends on the jobs only.
LEMMA ShelfSame ==
    ASSUME NEW h, Shelf(h), NEW g, Typed(g), g.jobs = h.jobs, g.disk = h.disk, g.page = h.page
    PROVE  Shelf(g)
BY DEF Shelf, HeadOver

\* Whole pages stay whole.
LEMMA DescendsWhole ==
    ASSUME NEW h, Shelf(h), NEW g, Descends(g, h), NEW pages, AllWhole(pages, h)
    PROVE  AllWhole(pages, g)
<1> SUFFICES ASSUME NEW i \in 1 .. Len(g.jobs) PROVE \E s \in Nat : Whole(pages, g.disk, g.jobs[i], s)
  BY DEF AllWhole
<1>1. PICK j \in 1 .. Len(h.jobs) : Comes(g, h, i, j)
  BY DEF Descends
<1>2. PICK s \in Nat : Whole(pages, h.disk, h.jobs[j], s)
  BY DEF AllWhole
<1> DEFINE job == h.jobs[j]
           mine == g.jobs[i]
<1>3. job \in Job /\ JobOK(job)
  BY DEF Shelf, Typed
<1>4. mine.kept = job.kept /\ mine.read = job.read /\ mine.received = job.received /\ mine.base = job.base
      /\ mine.status \in {job.status, "cancelled"}
  BY <1>1, <1>3 DEF Comes, Job
<1>5. ASSUME NEW n \in job.read + 1 .. job.received PROVE g.disk[job.base + n - 1] = h.disk[job.base + n - 1]
  <2>1. job.base + n - 1 \in PageFiles(job)
    BY <1>3, FilesHas
  <2> QED BY <1>1, <2>1 DEF Comes, Agrees
<1> HIDE DEF job, mine
<1>6. Whole(pages, g.disk, mine, s)
  BY <1>2, <1>4, <1>5 DEF Whole, job
<1> QED BY <1>6 DEF mine

Removed(g, h, i) ==
    /\ Shelf(g) /\ SameState(g, h) /\ Descends(g, h)
    /\ IF i = 1 THEN HeadOver(g) ELSE g.jobs # <<>> /\ g.jobs[1] = h.jobs[1] /\ Agrees(g, h, h.jobs[1])

\* printing_delete
LEMMA DeleteFacts ==
    ASSUME NEW h, Shelf(h), NEW i \in 1 .. Len(h.jobs)
    PROVE  Removed(Delete(h, i), h, i)
<1> DEFINE jobs == h.jobs
           r == RemoveAt(h.jobs, i)
           gone == IF r = <<>> THEN DOMAIN h.disk ELSE PageFiles(h.jobs[i])
           disk == [p \in DOMAIN h.disk \ gone |-> h.disk[p]]
           g == Delete(h, i)
           old(j) == IF j < i THEN j ELSE j + 1
<1>1. Typed(h) /\ h.jobs \in Seq(Job) /\ Len(h.jobs) \in Nat /\ h.page \in Nat
  BY DEF Shelf, Typed
<1>2. g.jobs = r /\ g.disk = disk /\ g.page = h.page /\ SameState(g, h)
  BY <1>1 DEF Typed, Delete, Wiped, SameState
<1>3. /\ r \in Seq(Job) /\ Len(r) = Len(jobs) - 1
      /\ \A j \in 1 .. Len(jobs) - 1 : r[j] = jobs[old(j)]
  BY <1>1, RemoveAtFacts
<1>4. Typed(g)
  <2>1. disk \in [DOMAIN disk -> Sheet] /\ DOMAIN disk \in SUBSET Nat
    BY <1>1 DEF Typed
  <2>2. g = [[h EXCEPT !.jobs = r] EXCEPT !.disk = disk]
    BY <1>1 DEF Typed, Delete, Wiped
  <2> HIDE DEF r, disk, g
  <2> QED BY <1>1, <1>3, <2>1, <2>2 DEF Typed
<1>5. ASSUME NEW j \in 1 .. Len(r)
      PROVE  old(j) \in 1 .. Len(jobs) /\ old(j) # i /\ r[j] = jobs[old(j)] /\ (j > 1 => old(j) > 1)
  BY <1>1, <1>3
<1> HIDE DEF old
<1>6. \A j \in 1 .. Len(jobs) : jobs[j] \in Job /\ JobOK(jobs[j]) /\ EndOf(jobs[j]) <= h.page
  BY <1>1 DEF Shelf
<1>7. ASSUME NEW j \in 1 .. Len(r)
      PROVE  PageFiles(r[j]) \subseteq DOMAIN disk
  <2>1. r # <<>>
    BY <1>3
  <2>2. PageFiles(jobs[old(j)]) \subseteq DOMAIN h.disk
    BY <1>5 DEF Shelf
  <2>3. PageFiles(jobs[old(j)]) \cap PageFiles(jobs[i]) = {}
    BY <1>5, Apart
  <2> QED BY <1>5, <2>1, <2>2, <2>3
<1>8. DOMAIN disk = UNION {PageFiles(r[j]) : j \in 1 .. Len(r)}
  <2>1. ASSUME NEW p \in DOMAIN disk PROVE \E j \in 1 .. Len(r) : p \in PageFiles(r[j])
    <3>1. r # <<>> /\ p \notin PageFiles(jobs[i])
      OBVIOUS
    <3>2. PICK k \in 1 .. Len(jobs) : p \in PageFiles(jobs[k])
      BY DEF Shelf
    <3>3. \E j \in 1 .. Len(r) : old(j) = k
      <4>1. k < i => k \in 1 .. Len(r) /\ old(k) = k
        BY <1>1, <1>3 DEF old
      <4>2. k > i => k - 1 \in 1 .. Len(r) /\ old(k - 1) = k
        BY <1>1, <1>3 DEF old
      <4>3. k < i \/ k > i
        BY <3>1, <3>2
      <4> QED BY <4>1, <4>2, <4>3
    <3> QED BY <3>2, <3>3, <1>5
  <2> HIDE DEF disk, r
  <2> QED BY <1>7, <2>1
<1>9. Shelf(g)
  <2>1. \A j \in 1 .. Len(r) : JobOK(r[j]) /\ EndOf(r[j]) <= h.page
    BY <1>5, <1>6
  <2>2. ASSUME NEW j \in 1 .. Len(r), NEW k \in 1 .. Len(r), j < k PROVE EndOf(r[k]) <= r[j].base
    <3>1. old(j) < old(k)
      BY <2>2, <1>1, <1>3 DEF old
    <3> QED BY <3>1, <1>5 DEF Shelf
  <2>3. \A j \in 2 .. Len(r) : Over(r[j])
    <3>1. \A j \in 2 .. Len(r) : j \in 1 .. Len(r) /\ j > 1
      OBVIOUS
    <3>2. \A j \in 1 .. Len(jobs) : j > 1 => Over(jobs[j])
      BY <1>1 DEF Shelf
    <3> QED BY <3>1, <3>2, <1>5
  <2>4. HeadOver(g) \/ EndOf(r[1]) = h.page
    <3> SUFFICES ASSUME r # <<>>, ~Over(r[1]) PROVE EndOf(r[1]) = h.page
      BY <1>2 DEF HeadOver
    <3>1. 1 \in 1 .. Len(r)
      BY <1>3
    <3>2. old(1) = 1
      <4>1. \A j \in 1 .. Len(jobs) : j > 1 => Over(jobs[j])
        BY <1>1 DEF Shelf
      <4> QED BY <3>1, <4>1, <1>5 DEF old
    <3>3. jobs # <<>> /\ ~Over(jobs[1]) /\ r[1] = jobs[1]
      BY <3>1, <3>2, <1>1, <1>5
    <3> QED BY <3>3 DEF Shelf, HeadOver
  <2> HIDE DEF r, disk, g, jobs
  <2> QED BY <1>2, <1>4, <1>8, <2>1, <2>2, <2>3, <2>4 DEF Shelf
<1>10. ASSUME NEW j \in 1 .. Len(r) PROVE Agrees(g, h, r[j])
  BY <1>2, <1>7 DEF Agrees
<1>11. Descends(g, h)
  <2>1. \A j \in 1 .. Len(r) : Comes(g, h, j, old(j))
    BY <1>2, <1>5, <1>10 DEF Comes
  <2> QED BY <1>2, <1>5, <2>1 DEF Descends
<1>12. CASE i = 1
  <2>1. HeadOver(g)
    <3> SUFFICES ASSUME r # <<>> PROVE Over(r[1])
      BY <1>2 DEF HeadOver
    <3>1. 1 \in 1 .. Len(r) /\ old(1) = 2 /\ 2 \in 2 .. Len(jobs)
      BY <1>1, <1>3, <1>12 DEF old
    <3> QED BY <3>1, <1>5 DEF Shelf
  <2> QED BY <1>12, <2>1, <1>2, <1>9, <1>11 DEF Removed
<1>13. CASE i # 1
  <2>1. 1 \in 1 .. Len(r) /\ old(1) = 1
    BY <1>1, <1>3, <1>13 DEF old
  <2>2. r[1] = jobs[1] /\ r # <<>>
    BY <2>1, <1>5
  <2> QED BY <1>13, <2>1, <2>2, <1>2, <1>9, <1>10, <1>11 DEF Removed
<1> QED BY <1>12, <1>13

\* After printing_cancelled.
Dropped(g, h) == Shelf(g) /\ SameState(g, h) /\ Descends(g, h) /\ HeadOver(g)

\* printing_cancelled leaves no job that goes on.
LEMMA CancelledFacts ==
    ASSUME NEW h, Shelf(h)
    PROVE  Dropped(Cancelled(h), h)
<1>1. Typed(h) /\ h.jobs \in Seq(Job) /\ Len(h.jobs) \in Nat
  BY DEF Shelf, Typed
<1>2. \A i \in 1 .. Len(h.jobs) : Agrees(h, h, h.jobs[i])
  BY DEF Agrees, Shelf
<1>3. CASE h.jobs = <<>>
  <2>1. Descends(h, h) /\ HeadOver(h)
    BY <1>3 DEF Descends, HeadOver
  <2> QED BY <1>3, <2>1 DEF Dropped, SameState, Cancelled
<1>4. CASE h.jobs # <<>> /\ h.jobs[1].status \in {"idle", "start"}
  <2>1. 1 \in 1 .. Len(h.jobs)
    BY <1>1, <1>4
  <2>2. Removed(Delete(h, 1), h, 1)
    BY <2>1, DeleteFacts
  <2>3. Dropped(Delete(h, 1), h)
    BY <2>2 DEF Removed, Dropped
  <2> QED BY <1>4, <2>3 DEF Cancelled
<1>5. CASE h.jobs # <<>> /\ h.jobs[1].status \notin {"idle", "start"}
  <2> DEFINE g == [h EXCEPT !.jobs[1].status = "cancelled"]
             job == [h.jobs[1] EXCEPT !.status = "cancelled"]
  <2>1. 1 \in 1 .. Len(h.jobs) /\ h.jobs[1] \in Job
    BY <1>1, <1>5
  <2>2. job \in Job /\ Over(job) /\ PageFiles(job) = PageFiles(h.jobs[1]) /\ EndOf(job) = EndOf(h.jobs[1])
        /\ job.base = h.jobs[1].base /\ (JobOK(h.jobs[1]) => JobOK(job))
    BY <2>1 DEF Job, Status, Over, PageFiles, EndOf, JobOK
  <2> HIDE DEF job
  <2>3. g.jobs = [h.jobs EXCEPT ![1] = job] /\ g.disk = h.disk /\ g.page = h.page /\ SameState(g, h)
    BY <1>1 DEF Typed, SameState, job
  <2>4. g.jobs \in Seq(Job) /\ Len(g.jobs) = Len(h.jobs) /\ g.jobs # <<>>
        /\ \A i \in 1 .. Len(h.jobs) : g.jobs[i] = IF i = 1 THEN job ELSE h.jobs[i]
    <3> DEFINE jobs == [h.jobs EXCEPT ![1] = job]
    <3>1. jobs \in Seq(Job) /\ Len(jobs) = Len(h.jobs)
          /\ \A i \in 1 .. Len(h.jobs) : jobs[i] = IF i = 1 THEN job ELSE h.jobs[i]
      BY <1>1, <2>1, <2>2, ExceptSeq
    <3> HIDE DEF jobs
    <3>2. jobs # <<>>
      BY <2>1, <3>1
    <3> QED BY <2>3, <3>1, <3>2 DEF jobs
  <2>5. Typed(g)
    BY <1>1, <2>3, <2>4 DEF Typed
  <2> HIDE DEF g
  <2>6. Shelf(g)
    <3>1. \A i \in 1 .. Len(h.jobs) :
              /\ PageFiles(g.jobs[i]) = PageFiles(h.jobs[i]) /\ EndOf(g.jobs[i]) = EndOf(h.jobs[i])
              /\ g.jobs[i].base = h.jobs[i].base /\ (JobOK(h.jobs[i]) => JobOK(g.jobs[i]))
              /\ (Over(h.jobs[i]) => Over(g.jobs[i]))
      BY <2>2, <2>4
    <3>2. Over(g.jobs[1])
      BY <2>1, <2>2, <2>4
    <3>3. {PageFiles(g.jobs[i]) : i \in 1 .. Len(g.jobs)} = {PageFiles(h.jobs[i]) : i \in 1 .. Len(h.jobs)}
      BY <3>1, <2>4
    <3> QED BY <2>3, <2>4, <2>5, <3>1, <3>2, <3>3 DEF Shelf, HeadOver
  <2>7. Descends(g, h)
    <3>1. \A i \in 1 .. Len(h.jobs) : Comes(g, h, i, i)
      BY <1>2, <2>3, <2>4 DEF Comes, Agrees, job
    <3> QED BY <3>1, <2>4 DEF Descends
  <2>8. HeadOver(g)
    BY <2>1, <2>2, <2>4 DEF HeadOver
  <2> QED BY <1>5, <2>3, <2>6, <2>7, <2>8 DEF Dropped, Cancelled, g
<1> QED BY <1>3, <1>4, <1>5

\* wprt_cancel: the job was told to end.
Told(g, h) ==
    /\ Shelf(g) /\ Descends(g, h) /\ HeadOver(g)
    /\ SameState(g, [h EXCEPT !.cancelRequired = TRUE, !.dataEnabled = TRUE, !.suppress = TRUE])

\* Nor does wprt_cancel while a job arrives; the next request then says so.
LEMMA CancelFacts ==
    ASSUME NEW h, Shelf(h)
    PROVE  IF h.busy /\ ~h.suppress THEN Told(Cancel(h), h) ELSE Cancel(h) = h
<1> DEFINE f == [h EXCEPT !.cancelRequired = TRUE, !.dataEnabled = TRUE, !.suppress = TRUE]
<1>1. Typed(f) /\ f.jobs = h.jobs /\ f.disk = h.disk /\ f.page = h.page
  BY DEF Shelf, Typed
<1> HIDE DEF f
<1>2. Shelf(f)
  BY <1>1, ShelfSame
<1>3. Dropped(Cancelled(f), f)
  BY <1>2, CancelledFacts
<1>4. Descends(Cancelled(f), h)
  <2>1. \A job : Agrees(Cancelled(f), f, job) => Agrees(Cancelled(f), h, job)
    BY <1>1 DEF Agrees
  <2> QED BY <1>1, <1>3, <2>1 DEF Dropped, Descends, Comes
<1> QED BY <1>3, <1>4 DEF Dropped, Told, Cancel, f

-----------------------------------------------------------------------------
(* Jobs that change *)

\* Job i becomes job, and nothing else on the shelf changes but its files.
Replaces(g, h, i, job) ==
    /\ g.jobs = [h.jobs EXCEPT ![i] = job]
    /\ h.page <= g.page
    /\ DOMAIN g.disk = (DOMAIN h.disk \ PageFiles(h.jobs[i])) \cup PageFiles(job)
    /\ \A p \in DOMAIN h.disk \ PageFiles(h.jobs[i]) : g.disk[p] = h.disk[p]

\* What is in the list then.
LEMMA ReplacedJobs ==
    ASSUME NEW h, Shelf(h), NEW i \in 1 .. Len(h.jobs), NEW job \in Job, NEW g, Replaces(g, h, i, job)
    PROVE  /\ g.jobs \in Seq(Job) /\ Len(g.jobs) = Len(h.jobs) /\ g.jobs # <<>>
           /\ \A j \in 1 .. Len(h.jobs) : g.jobs[j] = IF j = i THEN job ELSE h.jobs[j]
<1>1. h.jobs \in Seq(Job)
  BY DEF Shelf, Typed
<1> DEFINE jobs == [h.jobs EXCEPT ![i] = job]
<1>2. jobs \in Seq(Job) /\ Len(jobs) = Len(h.jobs)
      /\ \A j \in 1 .. Len(h.jobs) : jobs[j] = IF j = i THEN job ELSE h.jobs[j]
  BY <1>1, ExceptSeq
<1> HIDE DEF jobs
<1>3. jobs # <<>>
  BY <1>2
<1> QED BY <1>2, <1>3 DEF jobs, Replaces

\* Jobs keep their pages in order when the new one has no later pages than the old,
\* or the last ones.
LEMMA ReplacesShelf ==
    ASSUME NEW h, Shelf(h), NEW i \in 1 .. Len(h.jobs), NEW job \in Job, NEW g, Typed(g),
           Replaces(g, h, i, job), JobOK(job), job.base = h.jobs[i].base,
           i > 1 => Over(job) /\ EndOf(job) <= EndOf(h.jobs[i]) /\ g.page = h.page,
           EndOf(job) <= g.page, i = 1 => Over(job) \/ EndOf(job) = g.page
    PROVE  Shelf(g)
<1>1. Typed(h) /\ Len(h.jobs) \in Nat /\ h.page \in Nat /\ g.page \in Nat /\ h.page <= g.page
      /\ Len(g.jobs) = Len(h.jobs)
  BY ReplacedJobs DEF Shelf, Typed, Replaces
<1>2. ASSUME NEW j \in 1 .. Len(h.jobs)
      PROVE  /\ h.jobs[j] \in Job /\ JobOK(h.jobs[j]) /\ EndOf(h.jobs[j]) \in Nat /\ h.jobs[j].base \in Nat
             /\ EndOf(h.jobs[j]) <= h.page
  <2>1. h.jobs[j] \in Job
    BY <1>1 DEF Typed
  <2>2. JobOK(h.jobs[j]) /\ EndOf(h.jobs[j]) <= h.page
    BY DEF Shelf
  <2> QED BY <2>1, <2>2, FilesFacts
<1>3. EndOf(job) \in Nat /\ job.base \in Nat
  BY FilesFacts
<1>4. ASSUME NEW j \in 1 .. Len(h.jobs) PROVE g.jobs[j] = IF j = i THEN job ELSE h.jobs[j]
  BY SMTT(30), ReplacedJobs
<1>5. \A j \in 1 .. Len(g.jobs) : JobOK(g.jobs[j]) /\ EndOf(g.jobs[j]) <= g.page
  BY SMTT(30), <1>1, <1>2, <1>3, <1>4
<1>6. ASSUME NEW j \in 1 .. Len(g.jobs), NEW k \in 1 .. Len(g.jobs), j < k PROVE EndOf(g.jobs[k]) <= g.jobs[j].base
  <2>1. EndOf(h.jobs[k]) <= h.jobs[j].base
    BY <1>1, <1>6 DEF Shelf
  <2>2. g.jobs[j].base = h.jobs[j].base
    BY <1>1, <1>4
  <2>3. EndOf(g.jobs[k]) <= EndOf(h.jobs[k])
    <3>1. CASE k = i
      BY <3>1, <1>1, <1>4, <1>6
    <3>2. CASE k # i
      BY <3>2, <1>1, <1>2, <1>4
    <3> QED BY <3>1, <3>2
  <2>4. EndOf(g.jobs[k]) \in Nat
    BY <1>1, <1>2, <1>3, <1>4
  <2> QED BY SMTT(30), <1>1, <1>2, <2>1, <2>2, <2>3, <2>4
<1>7. \A j \in 2 .. Len(g.jobs) : Over(g.jobs[j])
  <2> SUFFICES ASSUME NEW j \in 2 .. Len(g.jobs) PROVE Over(g.jobs[j])
    OBVIOUS
  <2>1. j \in 1 .. Len(h.jobs) /\ j > 1 /\ Over(h.jobs[j])
    BY <1>1 DEF Shelf
  <2> QED BY <2>1, <1>4
<1>8. HeadOver(g) \/ EndOf(g.jobs[1]) = g.page
  <2>1. CASE i = 1
    BY <2>1, <1>4 DEF HeadOver
  <2>2. CASE i # 1
    <3>1. 1 \in 1 .. Len(h.jobs) /\ 1 < i
      BY <1>1, <2>2
    <3>2. g.jobs[1] = h.jobs[1] /\ h.jobs # <<>> /\ g.page = h.page
      BY <1>1, <1>4, <2>2, <3>1
    <3> QED BY <3>2 DEF HeadOver, Shelf
  <2> QED BY <2>1, <2>2
<1>9. DOMAIN g.disk = UNION {PageFiles(g.jobs[j]) : j \in 1 .. Len(g.jobs)}
  <2>1. \A j \in 1 .. Len(h.jobs) : j # i => PageFiles(h.jobs[j]) \cap PageFiles(h.jobs[i]) = {}
    BY Apart
  <2>2. \A p : p \in DOMAIN h.disk <=> \E j \in 1 .. Len(h.jobs) : p \in PageFiles(h.jobs[j])
    BY DEF Shelf
  <2>3. ASSUME NEW p PROVE p \in DOMAIN g.disk <=> \E j \in 1 .. Len(g.jobs) : p \in PageFiles(g.jobs[j])
    <3>1. CASE p \in PageFiles(job)
      BY <3>1, <1>1, <1>4 DEF Replaces
    <3>2. CASE p \notin PageFiles(job)
      <4>1. p \in DOMAIN g.disk <=> p \in DOMAIN h.disk /\ p \notin PageFiles(h.jobs[i])
        BY <3>2 DEF Replaces
      <4> QED BY <3>2, <4>1, <2>1, <2>2, <1>1, <1>4
    <3> QED BY <3>1, <3>2
  <2> QED BY <2>3
<1> QED BY <1>5, <1>6, <1>7, <1>8, <1>9 DEF Shelf

\* The other jobs are as whole as they were.
LEMMA ReplacesOthers ==
    ASSUME NEW h, Shelf(h), NEW i \in 1 .. Len(h.jobs), NEW job \in Job, NEW g, Replaces(g, h, i, job),
           NEW j \in 1 .. Len(h.jobs), j # i
    PROVE  g.jobs[j] = h.jobs[j] /\ Agrees(g, h, h.jobs[j])
<1>1. g.jobs[j] = h.jobs[j]
  BY ReplacedJobs
<1>2. PageFiles(h.jobs[j]) \subseteq DOMAIN h.disk \ PageFiles(h.jobs[i])
  BY Apart DEF Shelf
<1> QED BY <1>1, <1>2 DEF Replaces, Agrees

\* The pages of a job that did not change are what they were.
LEMMA AgreesWhole ==
    ASSUME NEW g, NEW h, NEW job \in Job, Agrees(g, h, job), NEW pages, NEW s, Whole(pages, h.disk, job, s)
    PROVE  Whole(pages, g.disk, job, s)
<1>1. ASSUME NEW n \in job.read + 1 .. job.received PROVE g.disk[job.base + n - 1] = h.disk[job.base + n - 1]
  BY FilesHas DEF Agrees
<1> QED BY <1>1 DEF Whole

\* So are those of the other jobs.
LEMMA ReplacesWhole ==
    ASSUME NEW h, Shelf(h), h.jobs # <<>>, NEW job \in Job, NEW g, Replaces(g, h, 1, job),
           NEW pages, OthersWhole(pages, h)
    PROVE  OthersWhole(pages, g)
<1>1. Len(h.jobs) \in Nat /\ 1 \in 1 .. Len(h.jobs) /\ Len(g.jobs) = Len(h.jobs)
      /\ \A j \in 1 .. Len(h.jobs) : h.jobs[j] \in Job
  <2>1. h.jobs \in Seq(Job)
    BY DEF Shelf, Typed
  <2>2. Len(h.jobs) \in Nat /\ 1 \in 1 .. Len(h.jobs) /\ \A j \in 1 .. Len(h.jobs) : h.jobs[j] \in Job
    BY <2>1
  <2> QED BY <2>2, ReplacedJobs
<1>2. ASSUME NEW j \in 2 .. Len(h.jobs) PROVE g.jobs[j] = h.jobs[j] /\ Agrees(g, h, h.jobs[j]) /\ j \in 1 .. Len(h.jobs)
  BY <1>1, ReplacesOthers
<1> QED BY <1>1, <1>2, AgreesWhole DEF OthersWhole

\* With the newest job all jobs are whole.
LEMMA HeadAndOthers ==
    ASSUME NEW h, NEW pages, OthersWhole(pages, h), NEW s \in Nat, h.jobs = <<>> \/ Whole(pages, h.disk, h.jobs[1], s),
           Len(h.jobs) \in Nat
    PROVE  AllWhole(pages, h)
<1>1. ASSUME NEW i \in 1 .. Len(h.jobs) PROVE \E t \in Nat : Whole(pages, h.disk, h.jobs[i], t)
  <2>1. CASE i = 1
    BY <2>1
  <2>2. CASE i # 1
    BY <2>2 DEF OthersWhole
  <2> QED BY <2>1, <2>2
<1> QED BY <1>1 DEF AllWhole

-----------------------------------------------------------------------------
(* printing_data *)

\* The newest job is remote job s, and its page that is open has m pieces.
Filled(pages, h, s, n, m) ==
    /\ Whole(pages, h.disk, h.jobs[1], s)
    /\ h.jobs[1].received = n - 1
    /\ h.jobs[1].file # NoFile
    /\ h.disk[h.jobs[1].file] = [j \in 1 .. m |-> <<s, n, j>>]

\* The newest job and the next page.
LEMMA HeadFacts ==
    ASSUME NEW h, Shelf(h), h.jobs # <<>>
    PROVE  /\ 1 \in 1 .. Len(h.jobs) /\ h.jobs[1] \in Job /\ JobOK(h.jobs[1])
           /\ PageFiles(h.jobs[1]) \subseteq DOMAIN h.disk
           /\ h.page \in Nat /\ h.page \notin DOMAIN h.disk /\ EndOf(h.jobs[1]) <= h.page
<1>1. h.jobs \in Seq(Job) /\ h.page \in Nat
  BY DEF Shelf, Typed
<1>2. 1 \in 1 .. Len(h.jobs) /\ \A i \in 1 .. Len(h.jobs) : h.jobs[i] \in Job
  BY <1>1
<1>3. ASSUME h.page \in DOMAIN h.disk PROVE FALSE
  <2>1. PICK i \in 1 .. Len(h.jobs) : h.page \in PageFiles(h.jobs[i])
    BY <1>3 DEF Shelf
  <2>2. h.page < EndOf(h.jobs[i]) /\ EndOf(h.jobs[i]) <= h.page /\ EndOf(h.jobs[i]) \in Nat
    BY <1>2, <2>1, FilesFacts DEF Shelf
  <2> QED BY <1>1, <2>2
<1> QED BY <1>1, <1>2, <1>3 DEF Shelf

Fresh(h) == [handle |-> h.handle, base |-> h.page, status |-> "idle", file |-> NoFile,
             received |-> 0, read |-> 0, kept |-> <<>>]

\* What printing_new changes.
LEMMA NewJobs ==
    ASSUME NEW h, Shelf(h)
    PROVE  /\ Fresh(h) \in Job /\ New(h).jobs \in Seq(Job) /\ Len(New(h).jobs) = Len(h.jobs) + 1
           /\ New(h).jobs # <<>> /\ New(h).jobs[1] = Fresh(h)
           /\ \A i \in 2 .. Len(h.jobs) + 1 : New(h).jobs[i] = h.jobs[i - 1]
           /\ New(h).disk = h.disk /\ New(h).page = h.page /\ SameState(New(h), h) /\ Typed(New(h))
<1>1. Typed(h) /\ h.jobs \in Seq(Job) /\ Len(h.jobs) \in Nat
  BY DEF Shelf, Typed
<1>2. Fresh(h) \in Job
  BY <1>1 DEF Fresh, Job, Status, Typed
<1>3. New(h).jobs = <<Fresh(h)>> \o h.jobs /\ New(h).disk = h.disk /\ New(h).page = h.page
      /\ New(h).handle = h.handle + 1 /\ SameState(New(h), h)
  BY <1>1 DEF Typed, New, Fresh, SameState
<1> HIDE DEF Fresh
<1> DEFINE one == <<Fresh(h)>>
           jobs == one \o h.jobs
<1>4. one \in Seq(Job) /\ Len(one) = 1 /\ one[1] = Fresh(h)
  BY <1>2
<1>5. jobs \in Seq(Job) /\ Len(jobs) = Len(h.jobs) + 1 /\ jobs[1] = Fresh(h)
      /\ \A i \in 2 .. Len(h.jobs) + 1 : jobs[i] = h.jobs[i - 1]
  <2> HIDE DEF one
  <2>1. jobs \in Seq(Job) /\ Len(jobs) = Len(one) + Len(h.jobs)
        /\ \A i \in 1 .. Len(one) + Len(h.jobs) : jobs[i] = IF i <= Len(one) THEN one[i] ELSE h.jobs[i - Len(one)]
    BY <1>1, <1>4, ConcatProperties
  <2> HIDE DEF jobs
  <2> QED BY <1>1, <1>4, <2>1
<1> HIDE DEF jobs
<1>6. jobs # <<>>
  BY <1>1, <1>5
<1>7. Typed(New(h))
  <2>1. New(h) = [h EXCEPT !.handle = @ + 1, !.jobs = jobs]
    BY DEF New, Fresh, jobs
  <2>2. h.handle + 1 \in Nat
    BY <1>1 DEF Typed
  <2> QED BY <1>1, <1>3, <1>5, <2>1, <2>2 DEF Typed
<1> QED BY <1>2, <1>3, <1>5, <1>6, <1>7 DEF jobs

\* A new job has no page yet.
LEMMA NewFacts ==
    ASSUME NEW h, Shelf(h), HeadOver(h)
    PROVE  Shelf(New(h)) /\ ~HeadOver(New(h)) /\ SameState(New(h), h)
<1> DEFINE g == New(h)
           job == Fresh(h)
           N == Len(h.jobs)
<1>1. N \in Nat /\ h.page \in Nat /\ (N # 0 => h.jobs # <<>>)
  BY DEF Shelf, Typed
<1>2. job \in Job /\ JobOK(job) /\ EndOf(job) = h.page /\ PageFiles(job) = {} /\ ~Over(job) /\ job.base = h.page
  BY <1>1, NewJobs DEF Fresh, JobOK, EndOf, PageFiles, Over
<1>3. g.jobs # <<>> /\ Len(g.jobs) = N + 1 /\ g.jobs[1] = job /\ g.disk = h.disk /\ g.page = h.page
      /\ \A i \in 2 .. N + 1 : g.jobs[i] = h.jobs[i - 1] /\ i - 1 \in 1 .. N
  BY <1>1, NewJobs
<1>4. Typed(g) /\ SameState(g, h)
  BY NewJobs
<1> HIDE DEF g, job
<1>5. \A i \in 1 .. N : JobOK(h.jobs[i]) /\ EndOf(h.jobs[i]) <= h.page /\ Over(h.jobs[i])
  <2>1. ASSUME NEW i \in 1 .. N PROVE Over(h.jobs[i])
    <3>1. CASE i = 1
      BY <1>1, <3>1 DEF HeadOver
    <3>2. CASE i # 1
      BY <1>1, <3>2 DEF Shelf
    <3> QED BY <3>1, <3>2
  <2> QED BY <2>1 DEF Shelf
<1>6. \A i \in 1 .. N + 1 : JobOK(g.jobs[i]) /\ EndOf(g.jobs[i]) <= g.page
  <2> SUFFICES ASSUME NEW i \in 1 .. N + 1 PROVE JobOK(g.jobs[i]) /\ EndOf(g.jobs[i]) <= g.page
    BY <1>3
  <2>1. CASE i = 1
    BY <2>1, <1>1, <1>2, <1>3
  <2>2. CASE i # 1
    <3>1. i \in 2 .. N + 1
      BY <2>2, <1>1
    <3> QED BY <3>1, <1>3, <1>5
  <2> QED BY <2>1, <2>2
<1>7. \A i \in 2 .. N + 1 : Over(g.jobs[i])
  BY <1>3, <1>5
<1>8. ASSUME NEW i \in 1 .. N + 1, NEW j \in 1 .. N + 1, i < j PROVE EndOf(g.jobs[j]) <= g.jobs[i].base
  <2>1. j \in 2 .. N + 1
    BY <1>8, <1>1
  <2>2. CASE i = 1
    BY <2>1, <2>2, <1>2, <1>3, <1>5
  <2>3. CASE i # 1
    <3>1. i \in 2 .. N + 1 /\ i - 1 < j - 1
      BY <2>3, <1>8, <1>1
    <3> QED BY <2>1, <3>1, <1>3 DEF Shelf
  <2> QED BY <2>2, <2>3
<1>9. DOMAIN g.disk = UNION {PageFiles(g.jobs[i]) : i \in 1 .. N + 1}
  <2>1. \A p : p \in DOMAIN h.disk <=> \E i \in 1 .. N : p \in PageFiles(h.jobs[i])
    BY DEF Shelf
  <2>2. ASSUME NEW p PROVE p \in DOMAIN g.disk <=> \E i \in 1 .. N + 1 : p \in PageFiles(g.jobs[i])
    <3>1. ASSUME NEW i \in 1 .. N PROVE PageFiles(g.jobs[i + 1]) = PageFiles(h.jobs[i]) /\ i + 1 \in 1 .. N + 1
      <4>1. i + 1 \in 2 .. N + 1 /\ (i + 1) - 1 = i
        BY <1>1
      <4> QED BY <4>1, <1>3
    <3>2. ASSUME NEW i \in 1 .. N + 1, p \in PageFiles(g.jobs[i]) PROVE \E j \in 1 .. N : p \in PageFiles(h.jobs[j])
      <4>1. i # 1
        BY <3>2, <1>2, <1>3
      <4>2. i \in 2 .. N + 1
        BY <4>1, <1>1
      <4> QED BY <4>2, <3>2, <1>3
    <3> QED BY <2>1, <3>1, <3>2, <1>3
  <2> QED BY <2>2
<1>10. ~HeadOver(g) /\ EndOf(g.jobs[1]) = g.page
  BY <1>2, <1>3 DEF HeadOver
<1> QED BY <1>3, <1>4, <1>6, <1>7, <1>8, <1>9, <1>10 DEF Shelf, g

\* The new job has nothing of a remote job yet.
LEMMA NewWhole ==
    ASSUME NEW h, Shelf(h), NEW pages, AllWhole(pages, h), NEW s \in 1 .. Len(pages)
    PROVE  OthersWhole(pages, New(h)) /\ Written(pages, New(h), s, 1, 1)
<1>1. Len(h.jobs) \in Nat
  BY DEF Shelf, Typed
<1>2. OthersWhole(pages, New(h))
  <2>1. \A i \in 2 .. Len(h.jobs) + 1 : i - 1 \in 1 .. Len(h.jobs)
    BY <1>1
  <2> QED BY <2>1, NewJobs DEF OthersWhole, AllWhole
<1>3. Whole(pages, New(h).disk, Fresh(h), s)
  <2>1. <<>> = [n \in 1 .. 0 |-> Page(s, n)]
    OBVIOUS
  <2> QED BY <2>1 DEF Whole, Fresh
<1> QED BY <1>2, <1>3, NewJobs DEF Written, Fresh

\* The page is open.
LEMMA OpenFacts ==
    ASSUME NEW h, Shelf(h), ~HeadOver(h)
    PROVE  /\ Shelf(OpenPage(h)) /\ ~HeadOver(OpenPage(h)) /\ SameState(OpenPage(h), h)
           /\ OpenPage(h).jobs[1].file # NoFile
           /\ OpenPage(h).jobs[1].status = h.jobs[1].status
           /\ \A pages : OthersWhole(pages, h) => OthersWhole(pages, OpenPage(h))
           /\ \A pages, s, n : \A k \in Nat \ {0} :
                 Written(pages, h, s, n, k) => Filled(pages, OpenPage(h), s, n, k - 1)
<1> DEFINE job == h.jobs[1]
<1>1. /\ Typed(h) /\ h.jobs # <<>> /\ ~Over(job) /\ EndOf(job) = h.page
      /\ 1 \in 1 .. Len(h.jobs) /\ job \in Job /\ JobOK(job) /\ PageFiles(job) \subseteq DOMAIN h.disk
      /\ h.page \in Nat /\ h.page \notin DOMAIN h.disk /\ h.jobs \in Seq(Job)
  BY HeadFacts DEF Shelf, HeadOver, Typed
<1>2. CASE job.file # NoFile
  <2>1. OpenPage(h) = h
    BY <1>2 DEF OpenPage
  <2>2. ASSUME NEW pages, NEW s, NEW n, NEW k \in Nat \ {0}, Written(pages, h, s, n, k)
        PROVE  Filled(pages, h, s, n, k - 1)
    BY <1>2, <2>2 DEF Written, Filled
  <2> QED BY <1>1, <1>2, <2>1, <2>2 DEF SameState
<1>3. CASE job.file = NoFile
  <2> DEFINE new == [job EXCEPT !.file = h.page]
             disk == [p \in DOMAIN h.disk \cup {h.page} |-> IF p = h.page THEN <<>> ELSE h.disk[p]]
             g == OpenPage(h)
  <2>1. g = [h EXCEPT !.jobs = [h.jobs EXCEPT ![1] = new], !.page = h.page + 1, !.disk = disk]
    BY <1>1, <1>3 DEF OpenPage, Typed
  <2> HIDE DEF new
  <2>2. new \in Job /\ JobOK(new) /\ new.base = job.base /\ ~Over(new) /\ EndOf(new) = h.page + 1
        /\ PageFiles(new) = PageFiles(job) \cup {h.page} /\ new.file = h.page /\ h.page # NoFile /\ new.received = job.received
        /\ new.kept = job.kept /\ new.read = job.read /\ new.status = job.status
    <3>1. new \in Job /\ new.base = job.base /\ ~Over(new) /\ new.file = h.page /\ new.received = job.received
          /\ new.kept = job.kept /\ new.read = job.read /\ new.status = job.status
      BY <1>1 DEF Job, Over, new
    <3>2. job.base \in Nat /\ job.read \in Nat /\ job.received \in Nat /\ job.read <= job.received
          /\ h.page = job.base + job.received /\ h.page # NoFile
      <4>1. job.base \in Nat /\ job.read \in Nat /\ job.received \in Nat
        BY <1>1 DEF Job
      <4>2. job.read <= job.received
        BY <1>1 DEF JobOK
      <4>3. h.page = job.base + job.received
        BY <1>1, <1>3, <4>1 DEF EndOf
      <4>4. h.page # NoFile
        BY <1>1 DEF NoFile
      <4> QED BY <4>1, <4>2, <4>3, <4>4
    <3>3. JobOK(new) /\ EndOf(new) = h.page + 1
      BY <3>1, <3>2 DEF JobOK, EndOf
    <3>4. PageFiles(new) = job.base + job.read .. job.base + job.received
      BY <3>1, <3>2 DEF PageFiles
    <3>5. PageFiles(job) = job.base + job.read .. job.base + job.received - 1
      BY <1>3, <3>2 DEF PageFiles
    <3>6. PageFiles(new) = PageFiles(job) \cup {h.page}
      <4> DEFINE lo == job.base + job.read
                 hi == job.base + job.received
      <4>1. lo \in Nat /\ hi \in Nat /\ lo <= hi
        BY <3>2
      <4>2. PageFiles(new) = lo .. hi /\ PageFiles(job) = lo .. hi - 1 /\ h.page = hi
        BY <3>2, <3>4, <3>5
      <4> HIDE DEF lo, hi
      <4> QED BY <4>1, <4>2
    <3> QED BY <3>1, <3>2, <3>3, <3>6
  <2>3. disk \in [DOMAIN disk -> Sheet] /\ DOMAIN disk \in SUBSET Nat
    <3>1. <<>> \in Sheet
      BY DEF Sheet
    <3> QED BY <1>1, <3>1 DEF Typed
  <2>4. g.page = h.page + 1 /\ g.disk = disk /\ g.jobs = [h.jobs EXCEPT ![1] = new] /\ SameState(g, h)
    BY <1>1, <2>1 DEF Typed, SameState
  <2>5. Replaces(g, h, 1, new)
    <3>1. DOMAIN disk = (DOMAIN h.disk \ PageFiles(job)) \cup PageFiles(new)
      BY <1>1, <2>2
    <3> QED BY <1>1, <2>4, <3>1 DEF Replaces
  <2>6. g.jobs \in Seq(Job) /\ g.jobs # <<>> /\ g.jobs[1] = new
    BY <1>1, <2>2, <2>5, ReplacedJobs
  <2>7. Typed(g)
    <3>1. g = [h EXCEPT !.jobs = g.jobs, !.page = h.page + 1, !.disk = g.disk] /\ h.page + 1 \in Nat
      BY <1>1, <2>1, <2>4
    <3>2. g.disk \in [DOMAIN g.disk -> Sheet] /\ DOMAIN g.disk \in SUBSET Nat
      BY <2>3, <2>4
    <3> HIDE DEF disk, g
    <3> QED BY <1>1, <2>6, <3>1, <3>2 DEF Typed
  <2> HIDE DEF disk, g
  <2>8. Shelf(g)
    BY <1>1, <2>2, <2>4, <2>5, <2>7, ReplacesShelf
  <2>9. ~HeadOver(g)
    BY <2>2, <2>6 DEF HeadOver
  <2>10. ASSUME NEW pages, OthersWhole(pages, h) PROVE OthersWhole(pages, g)
    BY <1>1, <2>2, <2>5, <2>10, ReplacesWhole
  <2>11. ASSUME NEW pages, NEW s, NEW n, NEW k \in Nat \ {0}, Written(pages, h, s, n, k)
         PROVE  Filled(pages, g, s, n, k - 1)
    <3>1. k = 1
      BY <1>3, <2>11 DEF Written
    <3>2. Agrees(g, h, job)
      BY <1>1, <2>4 DEF Agrees, disk
    <3>3. Whole(pages, g.disk, job, s)
      BY <1>1, <2>11, <3>2, AgreesWhole DEF Written
    <3>4. Whole(pages, g.disk, new, s)
      BY <2>2, <3>3 DEF Whole
    <3>5. g.disk[h.page] = <<>>
      BY <2>4 DEF disk
    <3>6. <<>> = [j \in 1 .. k - 1 |-> <<s, n, j>>]
      BY <3>1
    <3> QED BY <2>2, <2>6, <2>11, <3>4, <3>5, <3>6 DEF Filled, Written
  <2> QED BY <2>2, <2>4, <2>6, <2>8, <2>9, <2>10, <2>11 DEF g
<1> QED BY <1>2, <1>3

Put(h, pieces) == [h EXCEPT !.disk[h.jobs[1].file] = @ \o pieces]

\* The data follow what is in the page.
LEMMA PutFacts ==
    ASSUME NEW h, Shelf(h), h.jobs # <<>>, h.jobs[1].file # NoFile, NEW pieces \in Sheet
    PROVE  /\ Shelf(Put(h, pieces)) /\ SameState(Put(h, pieces), h) /\ Put(h, pieces).jobs = h.jobs
           /\ \A pages : OthersWhole(pages, h) => OthersWhole(pages, Put(h, pieces))
           /\ \A pages, s, n : \A m \in Nat :
                 /\ Filled(pages, h, s, n, m)
                 /\ pieces = [j \in 1 .. Len(pieces) |-> <<s, n, m + j>>]
                 => Filled(pages, Put(h, pieces), s, n, m + Len(pieces))
<1> DEFINE job == h.jobs[1]
           g == Put(h, pieces)
           disk == [h.disk EXCEPT ![job.file] = h.disk[job.file] \o pieces]
<1>1. /\ Typed(h) /\ h.jobs \in Seq(Job) /\ 1 \in 1 .. Len(h.jobs) /\ job \in Job /\ JobOK(job)
      /\ PageFiles(job) \subseteq DOMAIN h.disk /\ h.page \in Nat
  BY HeadFacts DEF Shelf, Typed
<1>2. job.file \in PageFiles(job) /\ \A p \in job.base + job.read .. job.base + job.received - 1 : p # job.file
  <2>1. job.base \in Nat /\ job.read \in Nat /\ job.received \in Nat /\ job.read <= job.received
        /\ job.file = job.base + job.received
    BY <1>1 DEF Job, JobOK
  <2>2. PageFiles(job) = job.base + job.read .. job.base + job.received
    BY <2>1 DEF PageFiles
  <2> DEFINE base == job.base
             read == job.read
             received == job.received
             file == job.file
  <2>3. base \in Nat /\ read \in Nat /\ received \in Nat /\ read <= received /\ file = base + received
    BY <2>1
  <2> HIDE DEF base, read, received, file
  <2>4. file \in base + read .. base + received /\ \A p \in base + read .. base + received - 1 : p # file
    BY <2>3
  <2> QED BY <2>2, <2>4 DEF base, read, received, file
<1>3. job.file \in DOMAIN h.disk /\ h.disk[job.file] \in Sheet
  BY <1>1, <1>2 DEF Typed
<1>4. h.disk[job.file] \o pieces \in Sheet
  BY <1>3, ConcatProperties DEF Sheet
<1>5. DOMAIN disk = DOMAIN h.disk /\ disk \in [DOMAIN disk -> Sheet]
      /\ disk[job.file] = h.disk[job.file] \o pieces
      /\ \A p \in DOMAIN h.disk : p # job.file => disk[p] = h.disk[p]
  BY <1>1, <1>3, <1>4 DEF Typed
<1>6. g = [h EXCEPT !.disk = disk]
  BY <1>1 DEF Put, Typed
<1> HIDE DEF disk
<1>7. g.disk = disk /\ g.jobs = h.jobs /\ g.page = h.page /\ SameState(g, h) /\ Typed(g)
  <2> HIDE DEF g
  <2>1. g.disk = disk /\ g.jobs = h.jobs /\ g.page = h.page /\ SameState(g, h)
    BY <1>1, <1>6 DEF Typed, SameState
  <2> QED BY <1>1, <1>5, <1>6, <2>1 DEF Typed
<1> HIDE DEF g
<1>8. Shelf(g)
  BY ZenonT(30), <1>5, <1>7 DEF Shelf, HeadOver
<1>9. ASSUME NEW pages, OthersWhole(pages, h) PROVE OthersWhole(pages, g)
  <2>1. Len(h.jobs) \in Nat /\ \A i \in 2 .. Len(h.jobs) : i \in 1 .. Len(h.jobs) /\ i # 1
    BY <1>1
  <2>2. ASSUME NEW i \in 2 .. Len(h.jobs) PROVE Agrees(g, h, h.jobs[i]) /\ h.jobs[i] \in Job
    <3>1. job.file \notin PageFiles(h.jobs[i]) /\ PageFiles(h.jobs[i]) \subseteq DOMAIN h.disk
      BY <1>1, <1>2, <2>1, Apart DEF Shelf
    <3>2. h.jobs[i] \in Job
      BY <1>1, <2>1
    <3>3. Agrees(g, h, h.jobs[i])
      BY <3>1, <1>5, <1>7 DEF Agrees
    <3> QED BY <3>2, <3>3
  <2> QED BY <1>7, <1>9, <2>2, AgreesWhole DEF OthersWhole
<1>10. ASSUME NEW pages, NEW s, NEW n, NEW m \in Nat, Filled(pages, h, s, n, m),
              pieces = [j \in 1 .. Len(pieces) |-> <<s, n, m + j>>]
       PROVE  Filled(pages, g, s, n, m + Len(pieces))
  <2>1. Whole(pages, g.disk, job, s)
    <3>1. ASSUME NEW i \in job.read + 1 .. job.received
          PROVE  g.disk[job.base + i - 1] = h.disk[job.base + i - 1]
      <4>1. job.base \in Nat /\ job.read \in Nat /\ job.received \in Nat
        BY <1>1 DEF Job
      <4>2. job.base + i - 1 \in job.base + job.read .. job.base + job.received - 1
        <5> DEFINE base == job.base
                   read == job.read
                   received == job.received
        <5>1. base \in Nat /\ read \in Nat /\ received \in Nat /\ i \in read + 1 .. received
          BY <4>1
        <5> HIDE DEF base, read, received
        <5>2. base + i - 1 \in base + read .. base + received - 1
          BY <5>1
        <5> QED BY <5>2 DEF base, read, received
      <4> QED BY <1>1, <1>2, <1>5, <1>7, <4>2, FilesHas
    <3> QED BY <1>10, <3>1 DEF Whole, Filled
  <2>2. h.disk[job.file] \o pieces = [j \in 1 .. m + Len(pieces) |-> <<s, n, j>>]
    <3> DEFINE a == h.disk[job.file]
               b == a \o pieces
               c == [j \in 1 .. m + Len(pieces) |-> <<s, n, j>>]
    <3>1. a \in Sheet /\ a = [j \in 1 .. m |-> <<s, n, j>>] /\ Len(a) = m /\ Len(pieces) \in Nat
      <4>1. a = [j \in 1 .. m |-> <<s, n, j>>] /\ a \in Sheet
        BY <1>3, <1>10 DEF Filled
      <4>2. Len(a) \in Nat /\ DOMAIN a = 1 .. Len(a) /\ DOMAIN a = 1 .. m
        BY <4>1 DEF Sheet
      <4> QED BY <4>1, <4>2 DEF Sheet
    <3> HIDE DEF a
    <3>2. b \in Sheet /\ Len(b) = m + Len(pieces)
          /\ \A j \in 1 .. m + Len(pieces) : b[j] = IF j <= m THEN a[j] ELSE pieces[j - m]
      BY <3>1, ConcatProperties DEF Sheet
    <3> HIDE DEF b
    <3>3. ASSUME NEW j \in 1 .. m + Len(pieces) PROVE b[j] = <<s, n, j>>
      <4>1. CASE j <= m
        BY <3>1, <3>2, <4>1
      <4>2. CASE ~(j <= m)
        <5>1. j - m \in 1 .. Len(pieces) /\ m + (j - m) = j
          BY <3>1, <4>2
        <5> QED BY <1>10, <3>2, <4>2, <5>1
      <4> QED BY <4>1, <4>2
    <3>4. b = [j \in DOMAIN b |-> b[j]] /\ DOMAIN b = 1 .. m + Len(pieces)
      BY <3>2 DEF Sheet
    <3>5. b = c
      BY <3>3, <3>4
    <3> QED BY <3>5 DEF a, b
  <2> QED BY <1>5, <1>7, <1>10, <2>1, <2>2 DEF Filled
<1> QED BY <1>7, <1>8, <1>9, <1>10 DEF g

\* The page is closed.
LEMMA EndFacts ==
    ASSUME NEW h, Shelf(h), ~HeadOver(h), h.jobs[1].file # NoFile, NEW lastPage \in BOOLEAN
    PROVE  /\ Shelf(EndPage(h, lastPage)) /\ SameState(EndPage(h, lastPage), h)
           /\ EndPage(h, lastPage).jobs # <<>>
           /\ Over(EndPage(h, lastPage).jobs[1]) <=> lastPage
           /\ \A pages : OthersWhole(pages, h) => OthersWhole(pages, EndPage(h, lastPage))
           /\ \A pages, s : \A n \in Nat \ {0} :
                 /\ Filled(pages, h, s, n, Size(n))
                 /\ lastPage => n = pages[s] + 1
                 => Written(pages, EndPage(h, lastPage), s, n + 1, 1)
<1> DEFINE job == h.jobs[1]
           status == IF lastPage THEN "complete" ELSE IF job.status = "idle" THEN "start" ELSE job.status
           new == [job EXCEPT !.file = NoFile, !.received = @ + 1, !.status = status]
           g == EndPage(h, lastPage)
<1>1. /\ Typed(h) /\ h.jobs # <<>> /\ ~Over(job) /\ EndOf(job) = h.page
      /\ 1 \in 1 .. Len(h.jobs) /\ job \in Job /\ JobOK(job) /\ PageFiles(job) \subseteq DOMAIN h.disk
      /\ h.page \in Nat /\ h.jobs \in Seq(Job)
  BY HeadFacts DEF Shelf, HeadOver, Typed
<1>2. g = [h EXCEPT !.jobs = [h.jobs EXCEPT ![1] = new]]
  BY <1>1 DEF EndPage, Typed
<1> HIDE DEF new
<1>3. /\ new \in Job /\ new.base = job.base /\ new.file = NoFile /\ new.received = job.received + 1
      /\ new.kept = job.kept /\ new.read = job.read /\ (Over(new) <=> lastPage)
      /\ (new.status = "complete" => lastPage)
  <2>1. status \in Status /\ (status \in {"complete", "cancelled"} <=> lastPage) /\ (status = "complete" => lastPage)
    BY <1>1 DEF Job, Status, Over
  <2> HIDE DEF status
  <2>2. job.received + 1 \in Nat
    <3>1. job.received \in Nat
      BY <1>1 DEF Job
    <3> QED BY <3>1
  <2> QED BY <1>1, <2>1, <2>2 DEF new, Job, NoFile, Over
<1>4. /\ job.base \in Nat /\ job.read \in Nat /\ job.received \in Nat /\ job.read <= job.received
      /\ job.file = job.base + job.received
  BY <1>1 DEF Job, JobOK
<1>5. JobOK(new) /\ EndOf(new) = EndOf(job) /\ PageFiles(new) = PageFiles(job)
  <2>1. JobOK(new)
    BY <1>3, <1>4 DEF JobOK
  <2>2. EndOf(new) = EndOf(job)
    BY <1>3, <1>4 DEF EndOf
  <2>3. PageFiles(new) = job.base + job.read .. job.base + (job.received + 1) - 1
    BY <1>3 DEF PageFiles
  <2>4. PageFiles(job) = job.base + job.read .. job.base + job.received - 0
    BY <1>1 DEF PageFiles
  <2>5. job.base + (job.received + 1) - 1 = job.base + job.received - 0
    BY <1>4
  <2> QED BY <2>1, <2>2, <2>3, <2>4, <2>5
<1>6. g.jobs = [h.jobs EXCEPT ![1] = new] /\ g.disk = h.disk /\ g.page = h.page /\ SameState(g, h)
  BY <1>1, <1>2 DEF Typed, SameState
<1>7. Replaces(g, h, 1, new)
  BY <1>1, <1>5, <1>6 DEF Replaces
<1>8. g.jobs \in Seq(Job) /\ g.jobs # <<>> /\ g.jobs[1] = new
  BY <1>1, <1>3, <1>7, ReplacedJobs
<1>9. Typed(g)
  <2>1. g = [h EXCEPT !.jobs = g.jobs]
    BY <1>2, <1>6
  <2> HIDE DEF g
  <2> QED BY <1>1, <1>6, <1>8, <2>1 DEF Typed
<1> HIDE DEF g
<1>10. Shelf(g)
  <2>1. EndOf(new) <= g.page /\ EndOf(new) = g.page
    BY <1>1, <1>5, <1>6
  <2> QED BY <1>1, <1>3, <1>5, <1>7, <1>9, <2>1, ReplacesShelf
<1>11. ASSUME NEW pages, OthersWhole(pages, h) PROVE OthersWhole(pages, g)
  BY <1>1, <1>3, <1>7, <1>11, ReplacesWhole
<1>12. ASSUME NEW pages, NEW s, NEW n \in Nat \ {0}, Filled(pages, h, s, n, Size(n)), lastPage => n = pages[s] + 1
       PROVE  Written(pages, g, s, n + 1, 1)
  <2>1. n = job.received + 1 /\ new.received = n
    BY <1>3, <1>4, <1>12 DEF Filled
  <2>2. h.disk[job.base + n - 1] = Page(s, n)
    <3>1. h.disk[job.file] = Page(s, n)
      BY <1>12 DEF Filled, Page, Size
    <3>2. job.base + n - 1 = job.file
      BY <1>4, <2>1
    <3> QED BY <3>1, <3>2
  <2>3. ASSUME NEW i \in job.read + 1 .. n PROVE h.disk[job.base + i - 1] = Page(s, i)
    <3>1. CASE i = n
      BY <2>2, <3>1
    <3>2. CASE i # n
      <4>1. i \in job.read + 1 .. job.received
        BY <1>4, <2>1, <3>2
      <4> QED BY <1>12, <4>1 DEF Filled, Whole
    <3> QED BY <3>1, <3>2
  <2>4. Whole(pages, g.disk, new, s)
    BY <1>3, <1>6, <1>12, <2>1, <2>3 DEF Whole, Filled
  <2> QED BY <1>3, <1>4, <1>8, <2>1, <2>4 DEF Written
<1> QED BY <1>3, <1>6, <1>8, <1>10, <1>11, <1>12 DEF g

\* What printing_data does, step by step.
Begin(h) == IF HeadOver(h) THEN New(h) ELSE h
Finish(h) == IF h.remain = 0 THEN EndPage(h, h.pageLast) ELSE h

\* There is a job that goes on.
LEMMA BeginFacts ==
    ASSUME NEW h, Shelf(h)
    PROVE  Shelf(Begin(h)) /\ ~HeadOver(Begin(h)) /\ SameState(Begin(h), h)
<1>1. CASE HeadOver(h)
  BY <1>1, NewFacts DEF Begin
<1>2. CASE ~HeadOver(h)
  BY <1>2 DEF Begin, SameState
<1> QED BY <1>1, <1>2

\* The packet is in the page that is being written.
LEMMA PutHead ==
    ASSUME NEW h, Shelf(h), NEW pieces \in Sheet
    PROVE  /\ Shelf(Put(OpenPage(Begin(h)), pieces)) /\ SameState(Put(OpenPage(Begin(h)), pieces), h)
           /\ ~HeadOver(Put(OpenPage(Begin(h)), pieces))
           /\ Put(OpenPage(Begin(h)), pieces).jobs[1].file # NoFile
           /\ Shelf(OpenPage(Begin(h))) /\ SameState(OpenPage(Begin(h)), h)
<1> DEFINE a == Begin(h)
           b == OpenPage(a)
           c == Put(b, pieces)
<1>1. Shelf(a) /\ ~HeadOver(a) /\ SameState(a, h)
  BY BeginFacts
<1> HIDE DEF a
<1>2. Shelf(b) /\ ~HeadOver(b) /\ SameState(b, a) /\ b.jobs[1].file # NoFile
  BY <1>1, OpenFacts
<1> HIDE DEF b
<1>3. Shelf(c) /\ SameState(c, b) /\ c.jobs = b.jobs
  BY <1>2, PutFacts DEF HeadOver
<1> HIDE DEF c
<1>4. SameState(b, h) /\ SameState(c, h)
  BY <1>1, <1>2, <1>3 DEF SameState
<1>5. ~HeadOver(c) /\ c.jobs[1].file # NoFile
  BY <1>2, <1>3 DEF HeadOver
<1> QED BY <1>2, <1>3, <1>4, <1>5 DEF a, b, c

\* The job is over when that was the last packet of its last page.
LEMMA FinishFacts ==
    ASSUME NEW h, Shelf(h), ~HeadOver(h), h.jobs[1].file # NoFile
    PROVE  /\ Shelf(Finish(h)) /\ SameState(Finish(h), h) /\ Finish(h).jobs # <<>>
           /\ Over(Finish(h).jobs[1]) <=> h.remain = 0 /\ h.pageLast
<1>1. h.pageLast \in BOOLEAN
  BY DEF Shelf, Typed
<1>2. CASE h.remain = 0
  BY <1>1, <1>2, EndFacts DEF Finish
<1>3. CASE h.remain # 0
  BY <1>3 DEF Finish, HeadOver, SameState
<1> QED BY <1>2, <1>3

\* The next packet is asked for, or the job waits for a client.
LEMMA ContinueFacts ==
    ASSUME NEW h, Shelf(h)
    PROVE  /\ Shelf(WprtContinue(h)) /\ WprtContinue(h).jobs = h.jobs /\ WprtContinue(h).disk = h.disk
           /\ WprtContinue(h).dataEnabled \/ h.jobs[1].status = "start"
           /\ SameState(WprtContinue(h), [h EXCEPT !.dataEnabled = WprtContinue(h).dataEnabled])
<1>1. Typed(h)
  BY DEF Shelf
<1>2. CASE h.jobs[1].status = "start"
  <2>1. h = [h EXCEPT !.dataEnabled = h.dataEnabled]
    BY <1>1 DEF Typed
  <2> QED BY <1>2, <2>1 DEF WprtContinue, SameState
<1>3. CASE h.jobs[1].status # "start"
  <2> DEFINE g == [h EXCEPT !.dataEnabled = TRUE]
  <2>1. g.jobs = h.jobs /\ g.disk = h.disk /\ g.page = h.page /\ g.dataEnabled = TRUE /\ Typed(g)
    BY <1>1 DEF Typed
  <2> HIDE DEF g
  <2>2. Shelf(g)
    BY <2>1, ShelfSame
  <2>3. WprtContinue(h) = g
    BY <1>3 DEF WprtContinue, g
  <2> QED BY <2>1, <2>2, <2>3 DEF SameState, g
<1> QED BY <1>2, <1>3

\* A page that cannot be opened has used its number.
Skip(h) == [h EXCEPT !.page = @ + 1]

\* A number of a page that is lost does not change what a deletion does.
LEMMA SkipDelete ==
    ASSUME NEW h, Typed(h), NEW i
    PROVE  Delete(Skip(h), i) = Skip(Delete(h, i))
<1> DEFINE r == RemoveAt(h.jobs, i)
           gone == IF r = <<>> THEN DOMAIN h.disk ELSE PageFiles(h.jobs[i])
           disk == [p \in DOMAIN h.disk \ gone |-> h.disk[p]]
<1>1. Skip(h).jobs = h.jobs /\ Skip(h).disk = h.disk
  BY DEF Skip, Typed
<1>2. Delete(h, i) = [[h EXCEPT !.jobs = r] EXCEPT !.disk = disk]
  BY DEF Typed, Delete, Wiped
<1>3. Delete(Skip(h), i) = [[Skip(h) EXCEPT !.jobs = r] EXCEPT !.disk = disk]
  BY <1>1 DEF Typed, Delete, Wiped, Skip
<1> HIDE DEF r, disk
<1> QED BY <1>2, <1>3 DEF Skip, Typed

\* Nor what a cancellation does.
LEMMA SkipCancel ==
    ASSUME NEW h, Typed(h)
    PROVE  Cancel(Skip(h)) = Skip(Cancel(h))
<1> DEFINE f == [h EXCEPT !.cancelRequired = TRUE, !.dataEnabled = TRUE, !.suppress = TRUE]
<1>1. /\ Skip(h).busy = h.busy /\ Skip(h).suppress = h.suppress
      /\ [Skip(h) EXCEPT !.cancelRequired = TRUE, !.dataEnabled = TRUE, !.suppress = TRUE] = Skip(f)
  BY DEF Skip, Typed
<1>2. Typed(f)
  BY DEF Typed
<1> HIDE DEF f
<1>3. Skip(f).jobs = f.jobs
  BY <1>2 DEF Skip, Typed
<1>4. Cancelled(Skip(f)) = Skip(Cancelled(f))
  <2>1. CASE f.jobs = <<>>
    BY <1>3, <2>1 DEF Cancelled
  <2>2. CASE f.jobs # <<>> /\ f.jobs[1].status \in {"idle", "start"}
    BY <1>2, <1>3, <2>2, SkipDelete DEF Cancelled
  <2>3. CASE f.jobs # <<>> /\ f.jobs[1].status \notin {"idle", "start"}
    <3> DEFINE jobs == [f.jobs EXCEPT ![1] = [f.jobs[1] EXCEPT !.status = "cancelled"]]
    <3>1. Cancelled(f) = [f EXCEPT !.jobs = jobs]
      BY <1>2, <2>3 DEF Cancelled, Typed
    <3>2. Cancelled(Skip(f)) = [Skip(f) EXCEPT !.jobs = jobs]
      BY <1>2, <1>3, <2>3 DEF Cancelled, Typed, Skip
    <3> HIDE DEF jobs
    <3> QED BY <1>2, <3>1, <3>2 DEF Skip, Typed
  <2> QED BY <2>1, <2>2, <2>3
<1> QED BY <1>1, <1>4 DEF Cancel, f

\* The jobs have their pages in order even so, when none goes on.
LEMMA SkipFacts ==
    ASSUME NEW h, Shelf(h), HeadOver(h)
    PROVE  Shelf(Skip(h)) /\ HeadOver(Skip(h)) /\ SameState(Skip(h), h)
<1>1. Typed(h) /\ h.page \in Nat /\ h.page + 1 \in Nat
  BY DEF Shelf, Typed
<1>2. Skip(h).jobs = h.jobs /\ Skip(h).disk = h.disk /\ Skip(h).page = h.page + 1 /\ SameState(Skip(h), h)
  BY <1>1 DEF Skip, Typed, SameState
<1>3. Typed(Skip(h))
  BY <1>1, <1>2 DEF Skip, Typed
<1>4. \A i \in 1 .. Len(h.jobs) : EndOf(h.jobs[i]) <= Skip(h).page
  <2>1. \A i \in 1 .. Len(h.jobs) : EndOf(h.jobs[i]) \in Nat /\ EndOf(h.jobs[i]) <= h.page
    BY FilesFacts DEF Shelf, Typed
  <2> QED BY <1>1, <1>2, <2>1
<1>5. HeadOver(Skip(h))
  BY <1>2 DEF HeadOver
<1> QED BY <1>2, <1>3, <1>4, <1>5 DEF Shelf

\* What printing_data has done.
Stored(o, h, fails) ==
    /\ o.error \in BOOLEAN /\ (o.error => fails # "none") /\ Shelf(o.h)
    /\ o.error =>
          /\ HeadOver(o.h)
          /\ SameState(o.h, [h EXCEPT !.cancelRequired = TRUE, !.dataEnabled = TRUE, !.suppress = TRUE])
    /\ ~o.error =>
          /\ o.h.jobs # <<>> /\ (Over(o.h.jobs[1]) <=> h.remain = 0 /\ h.pageLast)
          /\ o.h.dataEnabled \/ o.h.jobs[1].status = "start"
          /\ SameState(o.h, [h EXCEPT !.dataEnabled = o.h.dataEnabled])

\* printing_data in those terms.
LEMMA DataIs ==
    ASSUME NEW h, Shelf(h), NEW pieces \in Sheet, NEW fails
    PROVE  Data(h, pieces, fails) =
               CASE fails = "open" /\ Begin(h).jobs[1].file = NoFile -> Results(Cancel(Skip(Begin(h))), TRUE)
                 [] fails = "write" -> Results(Cancel(OpenPage(Begin(h))), TRUE)
                 [] OTHER -> Results(WprtContinue(Finish(Put(OpenPage(Begin(h)), pieces))), FALSE)
<1>1. SameState(Put(OpenPage(Begin(h)), pieces), h)
  BY PutHead
<1>2. Finish(Put(OpenPage(Begin(h)), pieces)) =
          IF h.remain = 0 THEN EndPage(Put(OpenPage(Begin(h)), pieces), h.pageLast)
          ELSE Put(OpenPage(Begin(h)), pieces)
  BY <1>1 DEF SameState, Finish
<1> QED BY <1>2 DEF Data, Begin, HeadOver, Put, Skip

\* What a failure of a local file leaves.
LEMMA TellFacts ==
    ASSUME NEW h, Shelf(h), NEW f, Typed(f), Shelf(f), SameState(f, h), h.busy, ~h.suppress,
           NEW g, g \in {Cancel(f), Skip(Cancel(f))}
    PROVE  /\ Shelf(g) /\ HeadOver(g)
           /\ SameState(g, [h EXCEPT !.cancelRequired = TRUE, !.dataEnabled = TRUE, !.suppress = TRUE])
<1>1. Told(Cancel(f), f)
  BY CancelFacts DEF SameState
<1>2. SameState([f EXCEPT !.cancelRequired = TRUE, !.dataEnabled = TRUE, !.suppress = TRUE],
                [h EXCEPT !.cancelRequired = TRUE, !.dataEnabled = TRUE, !.suppress = TRUE])
  BY DEF SameState, Shelf, Typed
<1>3. SameState(Cancel(f), [h EXCEPT !.cancelRequired = TRUE, !.dataEnabled = TRUE, !.suppress = TRUE])
  BY <1>1, <1>2 DEF Told, SameState
<1>4. CASE g = Cancel(f)
  BY <1>1, <1>3, <1>4 DEF Told
<1>5. CASE g = Skip(Cancel(f))
  <2>1. Shelf(g) /\ HeadOver(g) /\ SameState(g, Cancel(f))
    BY <1>1, <1>5, SkipFacts DEF Told
  <2> QED BY <2>1, <1>3 DEF SameState
<1> QED BY <1>4, <1>5

\* What printing_data does, whether a local file fails or not.
LEMMA DataFacts ==
    ASSUME NEW h, Shelf(h), h.busy, ~h.suppress, NEW pieces \in Sheet, NEW fails
    PROVE  Stored(Data(h, pieces, fails), h, fails)
<1> DEFINE o == Data(h, pieces, fails)
           a == Begin(h)
           b == OpenPage(a)
           c == Put(b, pieces)
<1>1. Shelf(a) /\ SameState(a, h) /\ Typed(a)
  BY BeginFacts DEF Shelf
<1>2. Shelf(b) /\ SameState(b, h) /\ Typed(b)
  BY PutHead DEF Shelf
<1>3. Shelf(c) /\ SameState(c, h) /\ ~HeadOver(c) /\ c.jobs[1].file # NoFile
  BY PutHead
<1>4. o = CASE fails = "open" /\ a.jobs[1].file = NoFile -> Results(Cancel(Skip(a)), TRUE)
            [] fails = "write" -> Results(Cancel(b), TRUE)
            [] OTHER -> Results(WprtContinue(Finish(c)), FALSE)
  BY DataIs
<1> HIDE DEF o, a, b, c
<1>5. CASE fails = "open" /\ a.jobs[1].file = NoFile
  <2>1. o.h = Skip(Cancel(a)) /\ o.error = TRUE
    BY <1>1, <1>4, <1>5, SkipCancel DEF Results
  <2>2. /\ Shelf(o.h) /\ HeadOver(o.h)
        /\ SameState(o.h, [h EXCEPT !.cancelRequired = TRUE, !.dataEnabled = TRUE, !.suppress = TRUE])
    BY <1>1, <2>1, TellFacts
  <2> QED BY <1>5, <2>1, <2>2 DEF Stored, o
<1>6. CASE ~(fails = "open" /\ a.jobs[1].file = NoFile) /\ fails = "write"
  <2>1. o.h = Cancel(b) /\ o.error = TRUE
    BY <1>4, <1>6 DEF Results
  <2>2. /\ Shelf(o.h) /\ HeadOver(o.h)
        /\ SameState(o.h, [h EXCEPT !.cancelRequired = TRUE, !.dataEnabled = TRUE, !.suppress = TRUE])
    BY <1>2, <2>1, TellFacts
  <2> QED BY <1>6, <2>1, <2>2 DEF Stored, o
<1>7. CASE ~(fails = "open" /\ a.jobs[1].file = NoFile) /\ fails # "write"
  <2> DEFINE d == Finish(c)
             e == WprtContinue(d)
  <2>1. o.h = e /\ o.error = FALSE
    BY <1>4, <1>7 DEF Results
  <2>2. Shelf(d) /\ SameState(d, c) /\ d.jobs # <<>> /\ (Over(d.jobs[1]) <=> c.remain = 0 /\ c.pageLast)
    BY <1>3, FinishFacts
  <2> HIDE DEF d
  <2>3. /\ Shelf(e) /\ e.jobs = d.jobs /\ (e.dataEnabled \/ d.jobs[1].status = "start")
        /\ SameState(e, [d EXCEPT !.dataEnabled = e.dataEnabled])
    BY <2>2, ContinueFacts
  <2> HIDE DEF e
  <2>4. SameState(e, [h EXCEPT !.dataEnabled = e.dataEnabled])
    <3>1. SameState([d EXCEPT !.dataEnabled = e.dataEnabled], [h EXCEPT !.dataEnabled = e.dataEnabled])
      <4>1. Typed(d) /\ Typed(h) /\ SameState(d, h)
        BY <1>3, <2>2 DEF SameState, Shelf
      <4>2. e.dataEnabled \in BOOLEAN
        BY <2>3 DEF Shelf, Typed
      <4> QED BY <4>1, <4>2 DEF SameState, Typed
    <3> QED BY <2>3, <3>1 DEF SameState
  <2>5. Over(e.jobs[1]) <=> h.remain = 0 /\ h.pageLast
    BY <1>3, <2>2, <2>3 DEF SameState
  <2> QED BY <2>1, <2>2, <2>3, <2>4, <2>5 DEF Stored, o
<1> QED BY <1>5, <1>6, <1>7

\* The pieces go to the page that they are of.
LEMMA DataWhole ==
    ASSUME NEW h, Shelf(h), NEW pieces \in Sheet, NEW pages, AllWhole(pages, h),
           NEW s \in 1 .. Len(pages), NEW n \in Nat \ {0}, NEW k \in Nat \ {0},
           pieces = [j \in 1 .. Len(pieces) |-> <<s, n, k + j - 1>>],
           IF HeadOver(h) THEN n = 1 /\ k = 1 ELSE Written(pages, h, s, n, k),
           Len(pieces) >= 1, k + Len(pieces) - 1 <= Size(n), h.remain = Size(n) - (k + Len(pieces) - 1),
           h.remain = 0 /\ h.pageLast => n = pages[s] + 1, Pieces \in Nat \ {0}
    PROVE  LET g == Data(h, pieces, "none").h
           IN /\ AllWhole(pages, g)
              /\ IF h.remain = 0 THEN Written(pages, g, s, n + 1, 1)
                 ELSE Written(pages, g, s, n, k + Len(pieces))
<1> DEFINE a == Begin(h)
           b == OpenPage(a)
           c == Put(b, pieces)
           d == Finish(c)
           g == WprtContinue(d)
           m == k + Len(pieces) - 1
<1>1. m \in Nat \ {0} /\ Len(pieces) \in Nat /\ (k - 1) + Len(pieces) = m /\ s \in Nat
  BY SMTT(30) DEF Sheet
<1>2. Data(h, pieces, "none").h = g
  BY DataIs DEF Results
<1>3. Shelf(a) /\ ~HeadOver(a)
  BY BeginFacts
<1>4. OthersWhole(pages, a) /\ Written(pages, a, s, n, k)
  <2>1. CASE HeadOver(h)
    BY <2>1, NewWhole DEF Begin
  <2>2. CASE ~HeadOver(h)
    <3>1. OthersWhole(pages, h)
      <4>1. \A i \in 2 .. Len(h.jobs) : i \in 1 .. Len(h.jobs)
        OBVIOUS
      <4> QED BY <4>1 DEF AllWhole, OthersWhole
    <3> QED BY <2>2, <3>1 DEF Begin
  <2> QED BY <2>1, <2>2
<1> HIDE DEF a
<1>5. Shelf(b) /\ ~HeadOver(b) /\ b.jobs[1].file # NoFile
      /\ OthersWhole(pages, b) /\ Filled(pages, b, s, n, k - 1)
  BY <1>3, <1>4, OpenFacts
<1> HIDE DEF b
<1>6. Shelf(c) /\ OthersWhole(pages, c) /\ Filled(pages, c, s, n, m) /\ c.jobs = b.jobs /\ b.jobs # <<>>
  <2>1. k - 1 \in Nat /\ pieces = [j \in 1 .. Len(pieces) |-> <<s, n, (k - 1) + j>>]
    <3>1. \A j \in 1 .. Len(pieces) : k + j - 1 = (k - 1) + j
      OBVIOUS
    <3>2. [j \in 1 .. Len(pieces) |-> <<s, n, k + j - 1>>] = [j \in 1 .. Len(pieces) |-> <<s, n, (k - 1) + j>>]
      BY <3>1
    <3> QED BY <3>2
  <2>2. b.jobs # <<>>
    BY <1>5 DEF HeadOver
  <2>3. Filled(pages, c, s, n, (k - 1) + Len(pieces))
    BY <1>5, <2>1, <2>2, PutFacts
  <2> QED BY <1>1, <1>5, <2>2, <2>3, PutFacts
<1>7. SameState(c, h) /\ ~HeadOver(c) /\ c.jobs[1].file # NoFile
  BY PutHead DEF a, b
<1> HIDE DEF c
<1>8. h.remain = 0 <=> m = Size(n)
  BY <1>1 DEF Size
<1> HIDE DEF m
<1>9. OthersWhole(pages, d) /\ IF h.remain = 0 THEN Written(pages, d, s, n + 1, 1)
                               ELSE Written(pages, d, s, n, k + Len(pieces))
  <2>1. CASE h.remain = 0
    <3>1. d = EndPage(c, c.pageLast) /\ (c.pageLast => n = pages[s] + 1) /\ c.pageLast \in BOOLEAN
      BY <1>6, <1>7, <2>1 DEF SameState, Finish, Shelf, Typed
    <3> HIDE DEF d
    <3>2. Filled(pages, c, s, n, Size(n))
      BY <1>6, <1>8, <2>1
    <3> QED BY <1>6, <1>7, <2>1, <3>1, <3>2, EndFacts
  <2>2. CASE h.remain # 0
    <3>1. d = c
      BY <1>7, <2>2 DEF SameState, Finish
    <3>2. k + Len(pieces) # 1 /\ k + Len(pieces) - 1 = m
      BY <1>1 DEF m
    <3>3. Written(pages, c, s, n, k + Len(pieces))
      BY <1>6, <3>2 DEF Filled, Written
    <3> QED BY <1>6, <2>2, <3>1, <3>3
  <2> QED BY <2>1, <2>2
<1>10. Shelf(d) /\ d.jobs # <<>>
  BY <1>6, <1>7, FinishFacts
<1> HIDE DEF d
<1>11. g.jobs = d.jobs /\ g.disk = d.disk
  BY <1>10, ContinueFacts
<1> HIDE DEF g
<1>12. OthersWhole(pages, g) /\ IF h.remain = 0 THEN Written(pages, g, s, n + 1, 1)
                                ELSE Written(pages, g, s, n, k + Len(pieces))
  BY <1>9, <1>11 DEF OthersWhole, Written
<1>13. AllWhole(pages, g)
  <2>1. Whole(pages, g.disk, g.jobs[1], s)
    BY <1>12 DEF Written
  <2>2. Len(g.jobs) \in Nat
    BY <1>10, <1>11 DEF Shelf, Typed
  <2> QED BY <1>1, <1>12, <2>1, <2>2, HeadAndOthers
<1> QED BY <1>2, <1>12, <1>13

-----------------------------------------------------------------------------
(* wprt_receive *)

\* What the routines that follow leave alone.
Steady(h) == h.connected /\ h.initDone /\ ~h.initPending /\ ~h.dataPending

Clear(o, p) == IF o.error \/ p.last THEN [o.h EXCEPT !.busy = FALSE, !.remain = 0] ELSE o.h

\* The end of a job, or of what could not be kept.
LEMMA ClearFacts ==
    ASSUME NEW o, Shelf(o.h), NEW p
    PROVE  LET g == Clear(o, p) IN
           /\ Shelf(g) /\ g.jobs = o.h.jobs /\ g.disk = o.h.disk
           /\ SameState(g, [o.h EXCEPT !.busy = g.busy, !.remain = g.remain])
           /\ IF o.error \/ p.last THEN g.busy = FALSE /\ g.remain = 0
              ELSE g.busy = o.h.busy /\ g.remain = o.h.remain
<1> DEFINE h == o.h
           f == [h EXCEPT !.busy = FALSE, !.remain = 0]
           g == Clear(o, p)
<1>1. Typed(h)
  BY DEF Shelf
<1>2. CASE o.error \/ p.last
  <2>1. /\ f.jobs = h.jobs /\ f.disk = h.disk /\ f.page = h.page /\ f.busy = FALSE /\ f.remain = 0
        /\ Typed(f) /\ SameState(f, [h EXCEPT !.busy = f.busy, !.remain = f.remain])
    BY <1>1 DEF Typed, SameState
  <2>2. g = f
    BY <1>2 DEF Clear
  <2> HIDE DEF f, h, g
  <2>3. Shelf(f)
    BY <2>1, ShelfSame DEF h
  <2> QED BY <1>2, <2>1, <2>2, <2>3 DEF g, h
<1>3. CASE ~(o.error \/ p.last)
  <2>1. g = h
    BY <1>3 DEF Clear
  <2>2. SameState(h, [h EXCEPT !.busy = h.busy, !.remain = h.remain])
    BY <1>1 DEF Typed, SameState
  <2> HIDE DEF h, g
  <2> QED BY <1>3, <2>1, <2>2 DEF h, g
<1> QED BY <1>2, <1>3

\* The position after piece k of page n.
NextPage(n, k) == IF k = Size(n) THEN n + 1 ELSE n
NextPiece(n, k) == IF k = Size(n) THEN 1 ELSE k + 1

\* A packet was received.
Received(g, pages, p, s, n, k) ==
    /\ Shelf(g) /\ Flow(g) /\ Steady(g)
    /\ p.last \/ (g.cancelRequired /\ ~g.busy) \/ Synced(pages, g, s, NextPage(n, k), NextPiece(n, k))
Followed(g, pages, p, s, n, k) ==
    /\ g.cancelRequired => g.suppress
    /\ HeadOver(g) \/ Live(g)
    /\ AllWhole(pages, g)
    /\ ~p.last => /\ Synced(pages, g, s, NextPage(n, k), NextPiece(n, k))
                  /\ Live(g) => Written(pages, g, s, NextPage(n, k), NextPiece(n, k))

\* What Taken does with a packet whose header was read.
Accept(h, p) == [h EXCEPT !.remain = h.remain - Len(p.data), !.busy = TRUE, !.suppress = @ /\ h.busy]


Taking(f, h, p) ==
    /\ Shelf(f) /\ f.jobs = h.jobs /\ f.disk = h.disk
    /\ f.remain = h.remain - Len(p.data) /\ f.busy = TRUE /\ f.suppress = (h.suppress /\ h.busy)
    /\ f.connected = h.connected /\ f.pageLast = h.pageLast /\ f.initPending = h.initPending
    /\ f.initDone = h.initDone /\ f.dataPending = h.dataPending /\ f.cancelRequired = h.cancelRequired

\* What a packet that fits changes first.
LEMMA AcceptFacts ==
    ASSUME NEW h, Shelf(h), NEW p \in PacketType, h.remain - Len(p.data) >= 0
    PROVE  /\ Taking(Accept(h, p), h, p) /\ Accept(h, p).dataEnabled = h.dataEnabled
           /\ Taking([Accept(h, p) EXCEPT !.dataEnabled = FALSE], h, p)
           /\ [Accept(h, p) EXCEPT !.dataEnabled = FALSE].dataEnabled = FALSE
<1> DEFINE rest == h.remain - Len(p.data)
           quiet == h.suppress /\ h.busy
           f == [h EXCEPT !.remain = rest, !.busy = TRUE, !.suppress = quiet]
           g == [f EXCEPT !.dataEnabled = FALSE]
<1>1. Typed(h) /\ rest \in Nat /\ quiet \in BOOLEAN
  <2>1. Typed(h) /\ h.remain \in Nat /\ Len(p.data) \in Nat
    BY DEF Shelf, Typed, PacketType, Sheet
  <2> QED BY <2>1
<1>2. Accept(h, p) = f
  BY <1>1 DEF Accept, Typed
<1> HIDE DEF rest, quiet
<1>3. /\ f.jobs = h.jobs /\ f.disk = h.disk /\ f.page = h.page
      /\ f.remain = rest /\ f.busy = TRUE /\ f.suppress = quiet
      /\ f.connected = h.connected /\ f.pageLast = h.pageLast /\ f.initPending = h.initPending
      /\ f.initDone = h.initDone /\ f.dataPending = h.dataPending
      /\ f.dataEnabled = h.dataEnabled /\ f.cancelRequired = h.cancelRequired
  BY <1>1 DEF Typed
<1>4. Typed(f)
  BY <1>1 DEF Typed
<1> HIDE DEF f
<1>5. /\ g.jobs = f.jobs /\ g.disk = f.disk /\ g.page = f.page
      /\ g.remain = f.remain /\ g.busy = f.busy /\ g.suppress = f.suppress
      /\ g.connected = f.connected /\ g.pageLast = f.pageLast /\ g.initPending = f.initPending
      /\ g.initDone = f.initDone /\ g.dataPending = f.dataPending
      /\ g.dataEnabled = FALSE /\ g.cancelRequired = f.cancelRequired
  BY <1>4 DEF Typed
<1>6. Typed(g)
  BY <1>4 DEF Typed
<1> HIDE DEF g
<1>7. Shelf(f)
  BY <1>3, <1>4, ShelfSame
<1>8. Shelf(g)
  BY <1>5, <1>6, <1>7, ShelfSame
<1>9. Accept(h, p) = f /\ [Accept(h, p) EXCEPT !.dataEnabled = FALSE] = g
  BY <1>2 DEF g
<1>10. Taking(f, h, p) /\ f.dataEnabled = h.dataEnabled
  BY <1>3, <1>7 DEF Taking, rest, quiet
<1>11. Taking(g, h, p) /\ g.dataEnabled = FALSE
  BY <1>5, <1>8, <1>10 DEF Taking
<1> QED BY <1>9, <1>10, <1>11

\* wprt_receive once the header is read, in those terms.
LEMMA TakenIs ==
    ASSUME NEW h, Shelf(h), NEW p \in PacketType, NEW fails
    PROVE  Taken(h, p, fails) =
              IF h.remain - Len(p.data) < 0 \/ (p.last /\ h.remain - Len(p.data) > 0)
              THEN Results(IF h.busy THEN Cancelled(h) ELSE h, TRUE)
              ELSE IF h.suppress /\ h.busy THEN Results(Accept(h, p), FALSE)
              ELSE Data([Accept(h, p) EXCEPT !.dataEnabled = FALSE], p.data, fails)
<1>1. Accept(h, p).suppress <=> h.suppress /\ h.busy
  BY DEF Accept, Shelf, Typed
<1>2. Taken(h, p, fails) =
          IF h.remain - Len(p.data) < 0 \/ (p.last /\ h.remain - Len(p.data) > 0)
          THEN Results(IF h.busy THEN Cancelled(h) ELSE h, TRUE)
          ELSE IF Accept(h, p).suppress THEN Results(Accept(h, p), FALSE)
          ELSE Data([Accept(h, p) EXCEPT !.dataEnabled = FALSE], p.data, fails)
  BY Zenon DEF Taken, Accept
<1> QED BY <1>1, <1>2

\* A packet that fits.
Fitting(h, pages, p, s, n, k) ==
    /\ At(pages, s, n, k) /\ Carries(pages, p, s, n, k)
    /\ h.remain = Size(n) - k + 1 /\ h.pageLast = p.pageLast

\* What is left of a page after such a packet.
LEMMA FittingRest ==
    ASSUME Pieces \in Nat \ {0}, NEW h, NEW pages, NEW p, NEW s, NEW n, NEW k, Fitting(h, pages, p, s, n, k)
    PROVE  /\ p \in PacketType /\ p.data \in Sheet /\ Len(p.data) \in Nat
           /\ Size(n) \in Nat \ {0} /\ k \in 1 .. Size(n) /\ n \in Int /\ n >= 1
           /\ h.remain - Len(p.data) = Size(n) - (k + Len(p.data) - 1)
           /\ h.remain - Len(p.data) >= 0
           /\ p.last => h.remain - Len(p.data) = 0
           /\ ~p.last => /\ Len(p.data) = 1
                         /\ h.remain - 1 = IF NextPiece(n, k) = 1 THEN 0 ELSE Pieces - NextPiece(n, k) + 1
                         /\ h.remain - 1 = 0 <=> k = Size(n)
                         /\ ~(h.remain - 1 = 0 /\ h.pageLast)
<1>1. p \in PacketType /\ p.data \in Sheet /\ Len(p.data) \in Nat
  BY DEF Fitting, Carries, PacketType, Sheet
<1>2. Size(n) \in Nat \ {0} /\ k \in 1 .. Size(n) /\ (Size(n) = Pieces \/ Size(n) = 1)
  BY DEF Fitting, At, Size
<1>3. h.remain - Len(p.data) = Size(n) - (k + Len(p.data) - 1)
  BY SMTT(30), <1>1, <1>2 DEF Fitting
<1>4. n \in Int /\ n >= 1
  BY DEF Fitting, At
<1>5. CASE p.last
  <2>1. k + Len(p.data) - 1 = Size(n)
    BY <1>5 DEF Fitting, Carries
  <2> QED BY <1>1, <1>2, <1>3, <1>4, <1>5, <2>1
<1>6. CASE ~p.last
  <2>1. Len(p.data) = 1 /\ ~(h.pageLast /\ k = Size(n))
    BY <1>6, Zenon DEF Fitting, Carries
  <2>2. h.remain - 1 = Size(n) - k
    BY <1>2 DEF Fitting
  <2>3. CASE k = Size(n)
    <3>1. NextPiece(n, k) = 1 /\ h.remain - 1 = 0
      <4>1. NextPiece(n, k) = 1
        BY <2>3, Zenon DEF NextPiece
      <4>2. Size(n) - k = 0
        BY <1>2, <2>3
      <4> QED BY <2>2, <4>1, <4>2
    <3>2. ~h.pageLast
      BY <2>1, <2>3, Zenon
    <3>3. ~(h.remain - 1 = 0 /\ h.pageLast) /\ (p.last => h.remain - Len(p.data) = 0)
      BY <1>6, <3>2, Zenon
    <3>4. h.remain - Len(p.data) >= 0
      BY <2>1, <3>1
    <3>5. /\ Len(p.data) = 1
          /\ h.remain - 1 = IF NextPiece(n, k) = 1 THEN 0 ELSE Pieces - NextPiece(n, k) + 1
          /\ h.remain - 1 = 0 <=> k = Size(n)
      BY <2>1, <2>3, <3>1
    <3> QED BY <1>1, <1>2, <1>3, <1>4, <1>6, <3>3, <3>4, <3>5
  <2>4. CASE k # Size(n)
    <3>1. Size(n) = Pieces /\ NextPiece(n, k) = k + 1 /\ k + 1 # 1
      BY <1>2, <2>4 DEF NextPiece
    <3>2. h.remain - 1 = Pieces - (k + 1) + 1 /\ h.remain - 1 # 0
      BY <1>2, <2>2, <2>4, <3>1
    <3> QED BY <1>1, <1>2, <1>3, <1>4, <1>6, <2>1, <2>4, <3>1, <3>2
  <2> QED BY <2>3, <2>4
<1> QED BY <1>5, <1>6

\* A packet of a job that was cancelled here is not kept.
LEMMA SuppressedIn ==
    ASSUME Pieces \in Nat \ {0}, NEW h, Shelf(h), Steady(h), NEW pages, NEW p, NEW s, NEW n, NEW k,
           Fitting(h, pages, p, s, n, k), h.suppress, h.busy, Enabled(h), NEW fails
    PROVE  LET g == Clear(Taken(h, p, fails), p)
           IN /\ Received(g, pages, p, s, n, k)
              /\ HeadOver(h) /\ AllWhole(pages, h) => Followed(g, pages, p, s, n, k)
<1> DEFINE f == Accept(h, p)
           o == Taken(h, p, fails)
           g == Clear(o, p)
<1>1. p \in PacketType /\ h.remain - Len(p.data) >= 0 /\ (p.last => h.remain - Len(p.data) = 0)
      /\ Len(p.data) \in Nat
  BY FittingRest
<1>2. o = Results(f, FALSE)
  <2>1. h.remain \in Nat
    BY DEF Shelf, Typed
  <2>2. ~(h.remain - Len(p.data) < 0 \/ (p.last /\ h.remain - Len(p.data) > 0))
    BY <1>1, <2>1
  <2> QED BY <1>1, <2>2, TakenIs
<1>3. /\ Shelf(f) /\ f.jobs = h.jobs /\ f.disk = h.disk
      /\ f.remain = h.remain - Len(p.data) /\ f.busy = TRUE /\ f.suppress = (h.suppress /\ h.busy)
      /\ f.connected = h.connected /\ f.pageLast = h.pageLast /\ f.initPending = h.initPending
      /\ f.initDone = h.initDone /\ f.dataPending = h.dataPending
      /\ f.dataEnabled = h.dataEnabled /\ f.cancelRequired = h.cancelRequired
  <2>1. Taking(f, h, p) /\ f.dataEnabled = h.dataEnabled
    BY <1>1, AcceptFacts
  <2> HIDE DEF f
  <2> QED BY <2>1 DEF Taking
<1> HIDE DEF f
<1>4. o.h = f /\ o.error = FALSE
  BY <1>2 DEF Results
<1> HIDE DEF o
<1>5. /\ Shelf(g) /\ g.jobs = f.jobs /\ g.disk = f.disk
      /\ SameState(g, [f EXCEPT !.busy = g.busy, !.remain = g.remain])
      /\ IF p.last THEN g.busy = FALSE /\ g.remain = 0 ELSE g.busy = f.busy /\ g.remain = f.remain
  BY <1>3, <1>4, ClearFacts
<1> HIDE DEF g
<1>6. /\ g.suppress = f.suppress /\ g.connected = f.connected /\ g.pageLast = f.pageLast
      /\ g.initPending = f.initPending /\ g.initDone = f.initDone /\ g.dataPending = f.dataPending
      /\ g.dataEnabled = f.dataEnabled /\ g.cancelRequired = f.cancelRequired
  BY <1>3, <1>5 DEF SameState, Shelf, Typed
<1>7. g.suppress /\ Steady(g)
  BY <1>3, <1>6 DEF Steady
<1>8. Flow(g)
  <2>1. Enabled(g)
    BY <1>3, <1>5, <1>6 DEF Enabled
  <2>2. ~g.busy => g.remain = 0
    BY <1>3, <1>5
  <2> QED BY <1>7, <2>1, <2>2 DEF Flow, Live, Steady, Enabled
<1>9. ~p.last => Synced(pages, g, s, NextPage(n, k), NextPiece(n, k))
  <2> SUFFICES ASSUME ~p.last PROVE Synced(pages, g, s, NextPage(n, k), NextPiece(n, k))
    OBVIOUS
  <2>1. g.busy /\ g.remain = h.remain - 1
    BY <1>3, <1>5, FittingRest
  <2>2. g.remain = IF NextPiece(n, k) = 1 THEN 0 ELSE Pieces - NextPiece(n, k) + 1
    BY <2>1, FittingRest
  <2>3. g.pageLast = (n = pages[s] + 1)
    BY <1>3, <1>6 DEF Fitting, Carries
  <2>4. NextPiece(n, k) > 1 => NextPage(n, k) = n
    BY DEF NextPiece, NextPage
  <2> QED BY <2>1, <2>2, <2>3, <2>4 DEF Synced
<1>10. HeadOver(h) /\ AllWhole(pages, h) => HeadOver(g) /\ AllWhole(pages, g)
  BY <1>3, <1>5 DEF HeadOver, AllWhole
<1>11. ~Live(g)
  BY <1>7 DEF Live
<1>12. Received(g, pages, p, s, n, k)
  BY <1>5, <1>7, <1>8, <1>9 DEF Received
<1>13. HeadOver(h) /\ AllWhole(pages, h) => Followed(g, pages, p, s, n, k)
  BY <1>7, <1>9, <1>10, <1>11 DEF Followed
<1> QED BY <1>12, <1>13 DEF g, o

StoredWhole(g, pages, p, s, n, k) ==
    AllWhole(pages, g) /\ (~p.last => Written(pages, g, s, NextPage(n, k), NextPiece(n, k)))

\* The job stays whole when nothing fails.
LEMMA StoredWholeFacts ==
    ASSUME Pieces \in Nat \ {0}, NEW f, Shelf(f), NEW pages, NEW p, NEW s, NEW n, NEW k,
           At(pages, s, n, k), Carries(pages, p, s, n, k), AllWhole(pages, f),
           IF HeadOver(f) THEN n = 1 /\ k = 1 ELSE Written(pages, f, s, n, k),
           f.remain = Size(n) - (k + Len(p.data) - 1), f.pageLast = p.pageLast
    PROVE  StoredWhole(Data(f, p.data, "none").h, pages, p, s, n, k)
<1> DEFINE g == Data(f, p.data, "none").h
<1>1. p.data \in Sheet /\ Len(p.data) \in Nat /\ Len(p.data) >= 1
      /\ p.data = [j \in 1 .. Len(p.data) |-> <<s, n, k + j - 1>>]
  BY DEF Carries, PacketType, Sheet
<1>2. Size(n) \in Nat \ {0} /\ k \in Nat \ {0} /\ k <= Size(n) /\ s \in 1 .. Len(pages) /\ n \in Int /\ n >= 1
  BY DEF At, Size
<1>3. f.pageLast => n = pages[s] + 1
  BY Zenon DEF Carries
<1>4. k + Len(p.data) - 1 <= Size(n) /\ (~p.last => Len(p.data) = 1)
  <2>1. CASE p.last
    BY <2>1, <1>2 DEF Carries
  <2>2. CASE ~p.last
    <3>1. Len(p.data) = 1
      BY <2>2 DEF Carries
    <3> QED BY <2>2, <3>1, <1>2
  <2> QED BY <2>1, <2>2
<1>5. n \in Nat \ {0}
  BY <1>2
<1>6. /\ AllWhole(pages, g)
      /\ IF f.remain = 0 THEN Written(pages, g, s, n + 1, 1) ELSE Written(pages, g, s, n, k + Len(p.data))
  BY <1>1, <1>2, <1>3, <1>4, <1>5, DataWhole
<1> HIDE DEF g
<1>7. ASSUME ~p.last PROVE Written(pages, g, s, NextPage(n, k), NextPiece(n, k))
  <2>1. Len(p.data) = 1
    BY <1>4, <1>7
  <2>2. CASE k = Size(n)
    <3>1. f.remain = 0 /\ NextPage(n, k) = n + 1 /\ NextPiece(n, k) = 1
      BY <1>2, <2>1, <2>2 DEF NextPage, NextPiece
    <3> QED BY <1>6, <3>1
  <2>3. CASE k # Size(n)
    <3>1. f.remain # 0
      BY <1>2, <2>1, <2>3
    <3>2. NextPage(n, k) = n /\ NextPiece(n, k) = k + Len(p.data)
      BY <2>1, <2>3 DEF NextPage, NextPiece
    <3> QED BY <1>6, <3>1, <3>2
  <2> QED BY <2>2, <2>3
<1> QED BY <1>6, <1>7 DEF StoredWhole, g

\* The others go to a job.
LEMMA StoredIn ==
    ASSUME Pieces \in Nat \ {0}, NEW h, Shelf(h), Steady(h), NEW pages, NEW p, NEW s, NEW n, NEW k,
           Fitting(h, pages, p, s, n, k), ~(h.suppress /\ h.busy), NEW fails
    PROVE  LET g == Clear(Taken(h, p, fails), p)
           IN /\ Received(g, pages, p, s, n, k)
              /\ /\ fails = "none" /\ ~h.cancelRequired /\ AllWhole(pages, h) /\ (p.last => p.pageLast)
                 /\ IF HeadOver(h) THEN n = 1 /\ k = 1 ELSE Written(pages, h, s, n, k)
                 => Followed(g, pages, p, s, n, k)
<1> DEFINE f == [Accept(h, p) EXCEPT !.dataEnabled = FALSE]
           o == Taken(h, p, fails)
           g == Clear(o, p)
<1>1. p \in PacketType /\ p.data \in Sheet /\ Len(p.data) \in Nat /\ h.remain - Len(p.data) >= 0
      /\ (p.last => h.remain - Len(p.data) = 0)
  BY FittingRest
<1>2. o = Data(f, p.data, fails)
  <2>1. h.remain \in Nat
    BY DEF Shelf, Typed
  <2>2. ~(h.remain - Len(p.data) < 0 \/ (p.last /\ h.remain - Len(p.data) > 0))
    BY <1>1, <2>1
  <2> QED BY <1>1, <2>2, TakenIs
<1>3. /\ Shelf(f) /\ f.jobs = h.jobs /\ f.disk = h.disk
      /\ f.remain = h.remain - Len(p.data) /\ f.busy = TRUE /\ f.suppress = FALSE
      /\ f.connected = h.connected /\ f.pageLast = h.pageLast /\ f.initPending = h.initPending
      /\ f.initDone = h.initDone /\ f.dataPending = h.dataPending
      /\ f.dataEnabled = FALSE /\ f.cancelRequired = h.cancelRequired
  <2>1. Taking(f, h, p) /\ f.dataEnabled = FALSE
    BY <1>1, AcceptFacts
  <2> HIDE DEF f
  <2> QED BY <2>1 DEF Taking
<1> HIDE DEF f
<1>4. Stored(o, f, fails)
  BY <1>1, <1>2, <1>3, DataFacts
<1>5. Typed(f) /\ o.error \in BOOLEAN /\ Shelf(o.h) /\ Typed(o.h)
  BY <1>3, <1>4 DEF Stored, Shelf
<1> HIDE DEF o
<1>6. /\ Shelf(g) /\ g.jobs = o.h.jobs /\ g.disk = o.h.disk
      /\ SameState(g, [o.h EXCEPT !.busy = g.busy, !.remain = g.remain])
      /\ IF o.error \/ p.last THEN g.busy = FALSE /\ g.remain = 0
         ELSE g.busy = o.h.busy /\ g.remain = o.h.remain
  BY <1>5, ClearFacts
<1> HIDE DEF g
<1>7. /\ g.suppress = o.h.suppress /\ g.connected = o.h.connected /\ g.pageLast = o.h.pageLast
      /\ g.initPending = o.h.initPending /\ g.initDone = o.h.initDone /\ g.dataPending = o.h.dataPending
      /\ g.dataEnabled = o.h.dataEnabled /\ g.cancelRequired = o.h.cancelRequired
  BY <1>5, <1>6 DEF SameState, Typed
<1>8. CASE o.error
  <2>1. HeadOver(o.h) /\ o.h.cancelRequired = TRUE /\ o.h.dataEnabled = TRUE /\ o.h.suppress = TRUE
        /\ o.h.connected = f.connected /\ o.h.initPending = f.initPending /\ o.h.initDone = f.initDone
        /\ o.h.dataPending = f.dataPending /\ fails # "none"
    BY <1>4, <1>5, <1>8 DEF Stored, SameState, Typed
  <2>2. Steady(g) /\ g.suppress /\ g.dataEnabled /\ ~g.busy /\ g.remain = 0 /\ g.cancelRequired
    BY <1>3, <1>6, <1>7, <1>8, <2>1 DEF Steady
  <2>3. Flow(g)
    BY <2>2 DEF Flow, Live, Steady, Enabled
  <2> QED BY <1>6, <2>1, <2>2, <2>3 DEF Received, g, o
<1>9. CASE ~o.error
  <2>1. /\ o.h.jobs # <<>> /\ (Over(o.h.jobs[1]) <=> f.remain = 0 /\ f.pageLast)
        /\ Enabled(o.h)
        /\ o.h.cancelRequired = f.cancelRequired /\ o.h.suppress = FALSE
        /\ o.h.connected = f.connected /\ o.h.initPending = f.initPending /\ o.h.initDone = f.initDone
        /\ o.h.dataPending = f.dataPending /\ o.h.pageLast = f.pageLast
        /\ o.h.busy = TRUE /\ o.h.remain = f.remain
    <3>1. SameState(o.h, [f EXCEPT !.dataEnabled = o.h.dataEnabled])
      BY <1>4, <1>9 DEF Stored
    <3>2. /\ o.h.cancelRequired = f.cancelRequired /\ o.h.suppress = f.suppress
          /\ o.h.connected = f.connected /\ o.h.initPending = f.initPending /\ o.h.initDone = f.initDone
          /\ o.h.dataPending = f.dataPending /\ o.h.pageLast = f.pageLast
          /\ o.h.busy = f.busy /\ o.h.remain = f.remain
      BY <1>5, <3>1 DEF SameState, Typed
    <3>3. /\ o.h.jobs # <<>> /\ (Over(o.h.jobs[1]) <=> f.remain = 0 /\ f.pageLast) /\ Enabled(o.h)
      BY <1>4, <1>9 DEF Stored, Enabled
    <3> QED BY <1>3, <3>2, <3>3
  <2>2. Steady(g) /\ ~g.suppress /\ Enabled(g) /\ g.jobs # <<>>
    BY <1>3, <1>6, <1>7, <2>1 DEF Steady, Enabled
  <2>3. Received(g, pages, p, s, n, k)
    <3>1. CASE p.last
      <4>1. ~g.busy /\ g.remain = 0
        BY <1>6, <3>1
      <4>2. Flow(g)
        BY <2>2, <4>1 DEF Flow, Live, Steady, Enabled
      <4> QED BY <1>6, <2>2, <3>1, <4>2 DEF Received
    <3>2. CASE ~p.last
      <4>1. g.busy /\ g.remain = h.remain - 1
        BY <1>3, <1>6, <1>9, <2>1, <3>2, FittingRest
      <4>2. ~(h.remain - 1 = 0 /\ h.pageLast)
        BY <3>2, FittingRest
      <4>3. ~HeadOver(g)
        BY <1>3, <1>6, <2>1, <2>2, <4>1, <4>2 DEF HeadOver
      <4>4. Flow(g)
        BY <2>2, <4>1, <4>3 DEF Flow, Steady, Enabled
      <4>5. Synced(pages, g, s, NextPage(n, k), NextPiece(n, k))
        <5>1. g.remain = IF NextPiece(n, k) = 1 THEN 0 ELSE Pieces - NextPiece(n, k) + 1
          BY <3>2, <4>1, FittingRest
        <5>2. g.pageLast = (n = pages[s] + 1)
          BY <1>3, <1>7, <2>1 DEF Fitting, Carries
        <5>3. NextPiece(n, k) > 1 => NextPage(n, k) = n
          BY DEF NextPiece, NextPage
        <5> QED BY <4>1, <5>1, <5>2, <5>3 DEF Synced
      <4> QED BY <1>6, <2>2, <4>4, <4>5 DEF Received
    <3> QED BY <3>1, <3>2
  <2>4. ASSUME fails = "none", ~h.cancelRequired, AllWhole(pages, h), p.last => p.pageLast,
               IF HeadOver(h) THEN n = 1 /\ k = 1 ELSE Written(pages, h, s, n, k)
        PROVE  Followed(g, pages, p, s, n, k)
    <3>1. AllWhole(pages, o.h) /\ (~p.last => Written(pages, o.h, s, NextPage(n, k), NextPiece(n, k)))
      <4>1. /\ AllWhole(pages, f)
            /\ IF HeadOver(f) THEN n = 1 /\ k = 1 ELSE Written(pages, f, s, n, k)
        BY <1>3, <2>4 DEF AllWhole, HeadOver, Written
      <4>2. f.remain = Size(n) - (k + Len(p.data) - 1) /\ f.pageLast = p.pageLast
        BY <1>3, FittingRest DEF Fitting
      <4>3. o = Data(f, p.data, "none")
        BY <1>2, <2>4
      <4> HIDE <2>4
      <4>4. StoredWhole(o.h, pages, p, s, n, k)
        <5>1. At(pages, s, n, k) /\ Carries(pages, p, s, n, k)
          BY DEF Fitting
        <5> QED BY <1>3, <4>1, <4>2, <4>3, <5>1, StoredWholeFacts
      <4> QED BY <4>4 DEF StoredWhole
    <3>2. AllWhole(pages, g) /\ (~p.last => Written(pages, g, s, NextPage(n, k), NextPiece(n, k)))
      BY <1>6, <3>1 DEF AllWhole, Written
    <3>3. ~g.cancelRequired
      BY <1>3, <1>7, <2>1, <2>4
    <3>4. HeadOver(g) \/ Live(g)
      <4>1. CASE p.last
        <5>1. f.remain = 0 /\ f.pageLast
          BY <1>1, <1>3, <2>4, <4>1 DEF Fitting
        <5> QED BY <1>6, <2>1, <5>1 DEF HeadOver
      <4>2. CASE ~p.last
        BY <1>3, <1>6, <1>7, <1>9, <2>1, <4>2 DEF Live, Steady
      <4> QED BY <4>1, <4>2
    <3> QED BY <2>3, <3>2, <3>3, <3>4 DEF Followed, Received
  <2> QED BY <2>3, <2>4 DEF g, o
<1> QED BY <1>8, <1>9

\* What is left of a job that failed here may begin another, but that ends at once.
LEMMA StrayIn ==
    ASSUME NEW h, Shelf(h), Steady(h), NEW p \in PacketType, p.last, ~h.busy, Enabled(h), NEW fails,
           NEW pages, NEW s, NEW n, NEW k
    PROVE  Received(Clear(Taken(h, p, fails), p), pages, p, s, n, k)
<1> DEFINE f == [Accept(h, p) EXCEPT !.dataEnabled = FALSE]
           o == Taken(h, p, fails)
           g == Clear(o, p)
<1>1. /\ Shelf(o.h) /\ Steady(o.h) /\ Enabled(o.h)
  <2>1. CASE h.remain - Len(p.data) < 0 \/ (p.last /\ h.remain - Len(p.data) > 0)
    <3>1. o = Results(h, TRUE)
      BY <2>1, TakenIs
    <3>2. o.h = h
      BY <3>1 DEF Results
    <3> QED BY <3>2
  <2>2. CASE ~(h.remain - Len(p.data) < 0 \/ (p.last /\ h.remain - Len(p.data) > 0))
    <3>1. p.data \in Sheet /\ h.remain \in Nat /\ Len(p.data) \in Nat
      BY DEF PacketType, Sheet, Shelf, Typed
    <3>2. h.remain - Len(p.data) >= 0
      BY <2>2, <3>1
    <3>3. Taking(f, h, p)
      BY <3>2, AcceptFacts
    <3>4. o = Data(f, p.data, fails)
      BY <2>2, TakenIs
    <3> HIDE DEF f, o
    <3>5. Stored(o, f, fails) /\ Shelf(f)
      BY <3>1, <3>3, <3>4, DataFacts DEF Taking
    <3>6. Typed(f) /\ Shelf(o.h)
      BY <3>5 DEF Stored, Shelf
    <3>7. Enabled(o.h) /\ o.h.connected = f.connected /\ o.h.initPending = f.initPending
          /\ o.h.initDone = f.initDone /\ o.h.dataPending = f.dataPending
      <4>1. CASE o.error
        BY <3>5, <3>6, <4>1 DEF Stored, SameState, Typed, Enabled
      <4>2. CASE ~o.error
        BY <3>5, <3>6, <4>2 DEF Stored, SameState, Typed, Enabled
      <4> QED BY <4>1, <4>2
    <3> QED BY <3>3, <3>6, <3>7 DEF Taking, Steady
  <2> QED BY <2>1, <2>2
<1> HIDE DEF o
<1>2. /\ Shelf(g) /\ g.jobs = o.h.jobs /\ g.disk = o.h.disk
      /\ SameState(g, [o.h EXCEPT !.busy = g.busy, !.remain = g.remain])
      /\ g.busy = FALSE /\ g.remain = 0
  BY <1>1, ClearFacts
<1> HIDE DEF g
<1>3. Steady(g) /\ Enabled(g)
  BY <1>1, <1>2 DEF SameState, Steady, Enabled, Shelf, Typed
<1>4. Flow(g)
  BY <1>2, <1>3 DEF Flow, Live, Steady, Enabled
<1> QED BY <1>2, <1>3, <1>4 DEF Received, g, o

\* What is the same once the answer is there.
Arrived(h) == [h EXCEPT !.dataPending = FALSE]

\* Only that nothing is awaited.
LEMMA ArrivedFacts ==
    ASSUME NEW h, Shelf(h)
    PROVE  LET q == Arrived(h) IN
           /\ Shelf(q) /\ q.jobs = h.jobs /\ q.disk = h.disk /\ q.dataPending = FALSE
           /\ q.connected = h.connected /\ q.suppress = h.suppress /\ q.pageLast = h.pageLast
           /\ q.initPending = h.initPending /\ q.initDone = h.initDone /\ q.dataEnabled = h.dataEnabled
           /\ q.cancelRequired = h.cancelRequired /\ q.busy = h.busy /\ q.remain = h.remain
<1> DEFINE q == [h EXCEPT !.dataPending = FALSE]
<1>1. /\ q.jobs = h.jobs /\ q.disk = h.disk /\ q.page = h.page /\ q.dataPending = FALSE
      /\ q.connected = h.connected /\ q.suppress = h.suppress /\ q.pageLast = h.pageLast
      /\ q.initPending = h.initPending /\ q.initDone = h.initDone /\ q.dataEnabled = h.dataEnabled
      /\ q.cancelRequired = h.cancelRequired /\ q.busy = h.busy /\ q.remain = h.remain
      /\ Typed(q)
  BY DEF Shelf, Typed
<1> HIDE DEF q
<1>2. Shelf(q)
  BY <1>1, ShelfSame
<1> QED BY <1>1, <1>2 DEF q, Arrived

\* The start of a job ends the one before it.
ResetTo(r, h) ==
    /\ Shelf(r) /\ Descends(r, h) /\ ~r.busy /\ r.remain = 0
    /\ HeadOver(r) \/ (h.suppress /\ r.jobs = h.jobs)
    /\ SameState(r, [h EXCEPT !.busy = FALSE, !.remain = 0])

\* Jobs that did not change.
LEMMA SelfDescends ==
    ASSUME NEW h, Shelf(h), NEW g, g.jobs = h.jobs, g.disk = h.disk
    PROVE  Descends(g, h)
BY DEF Descends, Comes, Agrees, Shelf

\* The first packet of a job ends the one before.
LEMMA ResetFacts ==
    ASSUME NEW h, Shelf(h), NEW p, p.reset, h.busy
    PROVE  ResetTo(Reset(h, p), h)
<1> DEFINE e == [h EXCEPT !.busy = FALSE, !.remain = 0]
<1>1. e.jobs = h.jobs /\ e.disk = h.disk /\ e.page = h.page /\ e.busy = FALSE /\ e.remain = 0
      /\ e.suppress = h.suppress /\ Typed(e)
  BY DEF Shelf, Typed
<1>2. Reset(h, p) = IF h.suppress THEN e ELSE Cancelled(e)
  BY DEF Reset
<1> HIDE DEF e
<1>3. Shelf(e)
  BY <1>1, ShelfSame
<1>4. CASE h.suppress
  BY <1>1, <1>2, <1>3, <1>4, SelfDescends DEF ResetTo, SameState, e
<1>5. CASE ~h.suppress
  <2> DEFINE r == Cancelled(e)
  <2>1. Dropped(r, e)
    BY <1>3, CancelledFacts
  <2> HIDE DEF r
  <2>2. Descends(r, h)
    BY <1>1, <2>1 DEF Dropped, Descends, Comes, Agrees
  <2> QED BY <1>1, <1>2, <1>5, <2>1, <2>2 DEF Dropped, ResetTo, SameState, r, e
<1> QED BY <1>4, <1>5

\* The header, when the packet has one.
LEMMA HeadedFacts ==
    ASSUME NEW h, Shelf(h), NEW p \in PacketType, NEW x \in Headed(h, p)
    PROVE  /\ Shelf(x) /\ x.jobs = h.jobs /\ x.disk = h.disk /\ x.dataPending = h.dataPending
           /\ x.connected = h.connected /\ x.suppress = h.suppress
           /\ x.initPending = h.initPending /\ x.initDone = h.initDone /\ x.dataEnabled = h.dataEnabled
           /\ x.cancelRequired = h.cancelRequired /\ x.busy = h.busy
           /\ h.remain > 0 => x.remain = h.remain /\ x.pageLast = h.pageLast
           /\ h.remain = 0 /\ p.first => x.remain = p.total /\ x.pageLast = p.pageLast
<1>1. Typed(h) /\ h.remain \in Nat /\ p.total \in Nat /\ p.pageLast \in BOOLEAN /\ Len(p.data) \in Nat
  BY DEF Shelf, Typed, PacketType, Sheet
<1> DEFINE With(last, total) == [h EXCEPT !.pageLast = last, !.remain = total]
<1>2. PICK last \in BOOLEAN, total \in Nat :
          /\ x = With(last, total)
          /\ h.remain > 0 => total = h.remain /\ last = h.pageLast
          /\ h.remain = 0 /\ p.first => total = p.total /\ last = p.pageLast
  <2>1. CASE h.remain > 0
    <3>1. x = h
      <4>1. Headed(h, p) = {h}
        BY <2>1, Zenon DEF Headed
      <4> QED BY <4>1
    <3>2. h = With(h.pageLast, h.remain) /\ h.pageLast \in BOOLEAN
      BY <1>1 DEF Typed
    <3> HIDE DEF With
    <3> QED BY <1>1, <2>1, <3>1, <3>2
  <2>2. CASE ~(h.remain > 0) /\ p.first
    <3>1. x = With(p.pageLast, p.total)
      BY <2>2 DEF Headed
    <3> HIDE DEF With
    <3> QED BY <1>1, <2>2, <3>1
  <2>3. CASE ~(h.remain > 0) /\ ~p.first
    <3>1. PICK last \in BOOLEAN, total \in {0, Len(p.data)} : x = With(last, total)
      <4>1. Headed(h, p) = {With(any.last, any.total) : any \in [last : BOOLEAN, total : {0, Len(p.data)}]}
        BY <2>3, Zenon DEF Headed
      <4> HIDE DEF With
      <4>2. PICK any \in [last : BOOLEAN, total : {0, Len(p.data)}] : x = With(any.last, any.total)
        BY <4>1
      <4> QED BY <4>2
    <3>2. total \in Nat
      BY <1>1
    <3> HIDE DEF With
    <3> QED BY <2>3, <3>1, <3>2
  <2> QED BY <2>1, <2>2, <2>3
<1> DEFINE y == With(last, total)
<1>3. /\ y.jobs = h.jobs /\ y.disk = h.disk /\ y.page = h.page /\ y.dataPending = h.dataPending
      /\ y.connected = h.connected /\ y.suppress = h.suppress
      /\ y.initPending = h.initPending /\ y.initDone = h.initDone /\ y.dataEnabled = h.dataEnabled
      /\ y.cancelRequired = h.cancelRequired /\ y.busy = h.busy
      /\ y.remain = total /\ y.pageLast = last /\ Typed(y)
  BY <1>1 DEF Typed
<1> HIDE DEF y
<1>4. Shelf(y)
  BY <1>3, ShelfSame
<1>5. x = y
  BY <1>2 DEF y
<1> QED BY <1>2, <1>3, <1>4, <1>5

\* What the job has been so far, when nothing went wrong.
Sound(h, pages) == (h.cancelRequired => h.suppress) /\ (HeadOver(h) \/ Live(h)) /\ AllWhole(pages, h)

\* The answer to a request, whatever comes.
LEMMA ReceiveDataFacts ==
    ASSUME Pieces \in Nat \ {0}, NEW h, Shelf(h), Flow(h), h.connected, h.dataPending,
           NEW tracked \in BOOLEAN, NEW sv, NEW p, NEW s, NEW n, NEW k, Coming(tracked, h, sv, p, s, n, k),
           NEW fails, NEW g \in ReceiveData(h, p, fails)
    PROVE  /\ Received(g, sv.pages, p, s, n, k)
           /\ tracked /\ fails = "none" /\ ~(p.reset /\ h.cancelRequired) /\ Sound(h, sv.pages)
              => Followed(g, sv.pages, p, s, n, k)
<1> DEFINE pages == sv.pages
           q == Arrived(h)
           r == Reset(q, p)
<1>1. PICK x \in Headed(r, p) : g = Clear(Taken(x, p, fails), p)
  <2>1. \E x \in Headed(r, p) : g = LET o == Taken(x, p, fails)
                                    IN IF o.error \/ p.last THEN [o.h EXCEPT !.busy = FALSE, !.remain = 0] ELSE o.h
    BY Zenon DEF ReceiveData, Arrived
  <2> HIDE DEF r
  <2> QED BY <2>1 DEF Clear
<1>2. /\ At(pages, s, n, k) /\ Carries(pages, p, s, n, k) /\ p \in PacketType
      /\ n = 1 \/ (p.last /\ ~h.busy) \/ Synced(pages, h, s, n, k)
      /\ tracked /\ n > 1 => /\ Synced(pages, h, s, n, k)
                             /\ Live(h) => Written(pages, h, s, n, k) /\ (p.last => p.pageLast)
  BY DEF Coming, Carries
<1>3. /\ n \in Nat \ {0} /\ k \in Nat \ {0} /\ k <= Size(n) /\ Size(n) \in Nat \ {0}
      /\ (n = 1 => k = 1 /\ Size(n) = 1) /\ (n # 1 => Size(n) = Pieces)
  BY <1>2 DEF At, Size
<1>4. /\ Shelf(q) /\ q.jobs = h.jobs /\ q.disk = h.disk /\ q.dataPending = FALSE
      /\ q.connected = h.connected /\ q.suppress = h.suppress /\ q.pageLast = h.pageLast
      /\ q.initPending = h.initPending /\ q.initDone = h.initDone /\ q.dataEnabled = h.dataEnabled
      /\ q.cancelRequired = h.cancelRequired /\ q.busy = h.busy /\ q.remain = h.remain
  BY ArrivedFacts
<1>5. Steady(q) /\ Enabled(q)
  BY <1>4 DEF Flow, Steady, Enabled
<1> HIDE DEF q
<1>6. CASE n = 1
  <2>1. /\ Shelf(r) /\ Descends(r, h) /\ ~r.busy /\ r.remain = 0 /\ Steady(r)
        /\ r.cancelRequired = h.cancelRequired
        /\ HeadOver(h) \/ Live(h) => HeadOver(r)
    <3>1. CASE q.busy
      <4>1. ResetTo(r, q)
        BY <1>2, <1>4, <1>6, <3>1, ResetFacts DEF Carries
      <4> HIDE DEF r
      <4>2. Typed(q)
        BY <1>4 DEF Shelf
      <4>3. Steady(r) /\ r.cancelRequired = h.cancelRequired
        BY <1>4, <1>5, <4>1, <4>2 DEF ResetTo, SameState, Typed, Steady
      <4>4. Descends(r, h)
        BY <1>4, <4>1 DEF ResetTo, Descends, Comes, Agrees
      <4>5. HeadOver(h) \/ Live(h) => HeadOver(r)
        BY <1>4, <4>1 DEF ResetTo, HeadOver, Live
      <4> QED BY <4>1, <4>3, <4>4, <4>5 DEF ResetTo
    <3>2. CASE ~q.busy
      <4>1. r = q
        BY <3>2 DEF Reset
      <4>2. ~h.busy /\ h.remain = 0
        BY <1>4, <3>2 DEF Flow
      <4>3. Descends(q, h)
        BY <1>4, SelfDescends
      <4>4. HeadOver(h) \/ Live(h) => HeadOver(q)
        BY <1>4, <4>2 DEF Live, HeadOver
      <4> QED BY <1>4, <1>5, <4>1, <4>2, <4>3, <4>4
    <3> QED BY <3>1, <3>2
  <2> HIDE DEF r
  <2>2. /\ Shelf(x) /\ x.jobs = r.jobs /\ x.disk = r.disk /\ Steady(x) /\ ~x.busy
        /\ x.cancelRequired = h.cancelRequired /\ x.remain = p.total /\ x.pageLast = p.pageLast
    <3>1. p.first
      BY <1>2, <1>3, <1>6, Zenon DEF Carries
    <3> QED BY <1>2, <2>1, <3>1, HeadedFacts DEF Steady
  <2>3. Fitting(x, pages, p, s, n, k)
    BY <1>2, <1>3, <1>6, <2>2 DEF Fitting, Carries
  <2>4. /\ Received(g, pages, p, s, n, k)
        /\ /\ fails = "none" /\ ~x.cancelRequired /\ AllWhole(pages, x) /\ (p.last => p.pageLast)
           /\ IF HeadOver(x) THEN n = 1 /\ k = 1 ELSE Written(pages, x, s, n, k)
           => Followed(g, pages, p, s, n, k)
    BY <1>1, <2>2, <2>3, StoredIn
  <2>5. ASSUME fails = "none", ~(p.reset /\ h.cancelRequired), Sound(h, pages)
        PROVE  Followed(g, pages, p, s, n, k)
    <3>1. AllWhole(pages, r)
      BY <2>1, <2>5, DescendsWhole DEF Sound
    <3>2. AllWhole(pages, x) /\ HeadOver(x)
      BY <2>1, <2>2, <2>5, <3>1 DEF AllWhole, HeadOver, Sound
    <3>3. p.reset /\ (p.last => p.pageLast)
      BY <1>2, <1>6, Zenon DEF Carries
    <3> QED BY <1>3, <1>6, <2>2, <2>4, <2>5, <3>2, <3>3
  <2> QED BY <2>4, <2>5
<1>7. CASE n # 1 /\ Synced(pages, h, s, n, k)
  <2>1. r = q /\ ~p.reset
    BY <1>2, <1>7, Zenon DEF Carries, Reset
  <2>2. /\ Shelf(x) /\ x.jobs = h.jobs /\ x.disk = h.disk /\ Steady(x) /\ Enabled(x)
        /\ x.cancelRequired = h.cancelRequired /\ x.busy = h.busy /\ x.suppress = h.suppress
        /\ x.connected = h.connected
        /\ h.remain > 0 => x.remain = h.remain /\ x.pageLast = h.pageLast
        /\ h.remain = 0 /\ p.first => x.remain = p.total /\ x.pageLast = p.pageLast
    <3>1. x \in Headed(q, p)
      BY <2>1
    <3> HIDE DEF r
    <3>2. /\ Shelf(x) /\ x.jobs = q.jobs /\ x.disk = q.disk /\ x.dataPending = q.dataPending
          /\ x.connected = q.connected /\ x.suppress = q.suppress
          /\ x.initPending = q.initPending /\ x.initDone = q.initDone /\ x.dataEnabled = q.dataEnabled
          /\ x.cancelRequired = q.cancelRequired /\ x.busy = q.busy
          /\ q.remain > 0 => x.remain = q.remain /\ x.pageLast = q.pageLast
          /\ q.remain = 0 /\ p.first => x.remain = p.total /\ x.pageLast = p.pageLast
      BY <1>2, <1>4, <3>1, HeadedFacts
    <3>3. Steady(x) /\ Enabled(x)
      BY <1>5, <3>2 DEF Steady, Enabled
    <3> QED BY <1>4, <3>2, <3>3
  <2>3. Fitting(x, pages, p, s, n, k)
    <3>1. CASE k = 1
      <4>1. p.first /\ h.remain = 0
        BY <1>2, <1>7, <3>1, Zenon DEF Carries, Synced
      <4> QED BY <1>2, <1>3, <2>2, <3>1, <4>1 DEF Fitting, Carries
    <3>2. CASE k # 1
      <4>1. h.remain = Pieces - k + 1 /\ h.pageLast = (n = pages[s] + 1)
        BY <1>3, <1>7, <3>2 DEF Synced
      <4>2. h.remain > 0
        BY <1>3, <1>7, <4>1
      <4>3. p.pageLast = (n = pages[s] + 1)
        BY <1>2 DEF Carries
      <4> QED BY <1>2, <1>3, <1>7, <2>2, <4>1, <4>2, <4>3 DEF Fitting
    <3> QED BY <3>1, <3>2
  <2>4. CASE h.suppress
    <3>1. x.suppress /\ x.busy
      BY <1>7, <2>2, <2>4 DEF Synced
    <3>2. /\ Received(g, pages, p, s, n, k)
          /\ HeadOver(x) /\ AllWhole(pages, x) => Followed(g, pages, p, s, n, k)
      BY <1>1, <2>2, <2>3, <3>1, SuppressedIn
    <3>3. Sound(h, pages) => HeadOver(x) /\ AllWhole(pages, x)
      BY <2>2, <2>4 DEF Sound, HeadOver, AllWhole, Live
    <3> QED BY <3>2, <3>3
  <2>5. CASE ~h.suppress
    <3>1. ~(x.suppress /\ x.busy)
      BY <2>2, <2>5
    <3>2. /\ Received(g, pages, p, s, n, k)
          /\ /\ fails = "none" /\ ~x.cancelRequired /\ AllWhole(pages, x) /\ (p.last => p.pageLast)
             /\ IF HeadOver(x) THEN n = 1 /\ k = 1 ELSE Written(pages, x, s, n, k)
             => Followed(g, pages, p, s, n, k)
      BY <1>1, <2>2, <2>3, <3>1, StoredIn
    <3>3. ASSUME tracked, Sound(h, pages)
          PROVE  /\ ~x.cancelRequired /\ AllWhole(pages, x) /\ (p.last => p.pageLast)
                 /\ ~HeadOver(x) /\ Written(pages, x, s, n, k)
      <4>1. Live(h)
        BY <1>7, <2>5 DEF Live, Synced
      <4>2. ~HeadOver(h) /\ Written(pages, h, s, n, k) /\ (p.last => p.pageLast)
        BY <1>2, <1>3, <1>7, <3>3, <4>1 DEF Flow
      <4> QED BY <2>2, <2>5, <3>3, <4>2 DEF Sound, AllWhole, HeadOver, Written
    <3> QED BY <3>2, <3>3
  <2> QED BY <2>4, <2>5
<1>8. CASE n # 1 /\ ~Synced(pages, h, s, n, k)
  <2>1. p.last /\ ~h.busy /\ ~tracked
    BY <1>2, <1>3, <1>8
  <2>2. r = q
    BY <1>4, <2>1 DEF Reset
  <2>3. Shelf(x) /\ Steady(x) /\ Enabled(x) /\ ~x.busy
    BY <1>2, <1>4, <1>5, <2>1, <2>2, HeadedFacts DEF Steady, Enabled
  <2>4. Received(g, pages, p, s, n, k)
    BY <1>1, <1>2, <2>1, <2>3, StrayIn
  <2> QED BY <2>1, <2>4
<1> QED BY <1>6, <1>7, <1>8

-----------------------------------------------------------------------------
(* The steps of wprt.c that change no job *)

\* The same but for what is asked and answered.
Alike(g, h) ==
    /\ Typed(g) /\ g.jobs = h.jobs /\ g.disk = h.disk /\ g.page = h.page
    /\ g.connected = h.connected /\ g.suppress = h.suppress /\ g.busy = h.busy
    /\ g.remain = h.remain /\ g.pageLast = h.pageLast

\* What is true of the jobs and the next packet stays so.
LEMMA AlikeFacts ==
    ASSUME NEW h, Shelf(h), NEW g, Alike(g, h)
    PROVE  /\ Shelf(g) /\ (Live(g) <=> Live(h)) /\ (HeadOver(g) <=> HeadOver(h))
           /\ \A pages :
                 /\ AllWhole(pages, h) => AllWhole(pages, g)
                 /\ \A s, n, k : /\ Synced(pages, h, s, n, k) <=> Synced(pages, g, s, n, k)
                                 /\ Written(pages, h, s, n, k) <=> Written(pages, g, s, n, k)
<1>1. Shelf(g)
  BY ShelfSame DEF Alike
<1>2. (Live(g) <=> Live(h)) /\ (HeadOver(g) <=> HeadOver(h))
  BY DEF Alike, Live, HeadOver
<1>3. \A pages : AllWhole(pages, h) => AllWhole(pages, g)
  BY DEF Alike, AllWhole
<1>4. \A pages, s, n, k : Synced(pages, h, s, n, k) <=> Synced(pages, g, s, n, k)
  BY DEF Alike, Synced
<1>5. \A pages, s, n, k : Written(pages, h, s, n, k) <=> Written(pages, g, s, n, k)
  BY DEF Alike, Written
<1> QED BY <1>1, <1>2, <1>3, <1>4, <1>5

\* What appends to one message.
LEMMA AppendPair ==
    ASSUME NEW S, NEW a \in S, NEW b \in S
    PROVE  Append(<<a>>, b) = <<a, b>>
<1>1. ASSUME NEW s \in Seq(S), Len(s) = 1 PROVE Append(s, b) \in Seq(S) /\ Len(Append(s, b)) = 2
  BY SMTT(30), <1>1
<1>2. ASSUME NEW s \in Seq(S), Len(s) = 1 PROVE Append(s, b)[1] = s[1]
  BY <1>2
<1>3. ASSUME NEW s \in Seq(S), Len(s) = 1 PROVE Append(s, b)[2] = b
  BY SMTT(30), <1>3, AppendProperties
<1>4. <<a>> \in Seq(S) /\ Len(<<a>>) = 1 /\ <<a>>[1] = a
  OBVIOUS
<1>5. <<a, b>> \in Seq(S) /\ Len(<<a, b>>) = 2 /\ <<a, b>>[1] = a /\ <<a, b>>[2] = b
  OBVIOUS
<1> DEFINE s == Append(<<a>>, b)
           t == <<a, b>>
<1>6. s \in Seq(S) /\ Len(s) = 2 /\ s[1] = a /\ s[2] = b
  BY <1>1, <1>2, <1>3, <1>4, Zenon
<1>7. t \in Seq(S) /\ Len(t) = 2 /\ t[1] = a /\ t[2] = b
  BY <1>5
<1> HIDE DEF s, t
<1>8. \A i \in 1 .. Len(s) : s[i] = t[i]
  BY <1>6, <1>7
<1>9. s = t
  BY <1>6, <1>7, <1>8, SeqEqual
<1> QED BY <1>9 DEF s, t

\* wprt_idle stops the server, settles the version or asks for the next packet.
LEMMA IdleSafe ==
    ASSUME PrintingParameters, ~Rough, PrintingIInv, WprtIdle
    PROVE  PrintingIInv'
<1>1. /\ Shelf(host) /\ Flow(host) /\ ServerOK(server) /\ UpsetOK(upset)
      /\ WireOK(Tracked(upset), host, pipe, server) /\ Sync(Tracked(upset), host, pipe, server)
      /\ Tracked(upset) => Kept(host, pipe, server)
  BY DEF PrintingIInv, Safe
<1>2. host.connected /\ server' = server /\ upset' = upset /\ Typed(host)
  BY <1>1 DEF WprtIdle, Shelf
<1>3. pipe = [out |-> pipe.out, in |-> pipe.in]
  BY <1>1 DEF WireOK
<1>4. ASSUME Quiet(host, pipe), Alike(host', host), Flow(host'),
             pipe'.in = <<>>, pipe' = [out |-> pipe'.out, in |-> pipe'.in],
             Quiet(host', pipe') \/ Levelling(host', pipe') \/ Asking(host', pipe'),
             host'.initDone = host.initDone,
             (host.cancelRequired /\ ~host.dataPending) \/ Sent(pipe) =>
                 (host'.cancelRequired /\ ~host'.dataPending) \/ Sent(pipe'),
             Due(host', pipe') => Due(host, pipe)
      PROVE  PrintingIInv'
  <2>1. /\ Shelf(host') /\ (Live(host') <=> Live(host)) /\ (HeadOver(host') <=> HeadOver(host))
        /\ \A pages :
              /\ AllWhole(pages, host) => AllWhole(pages, host')
              /\ \A s, n, k : /\ Synced(pages, host, s, n, k) <=> Synced(pages, host', s, n, k)
                              /\ Written(pages, host, s, n, k) <=> Written(pages, host', s, n, k)
    BY <1>1, <1>4, AlikeFacts
  <2>2. host'.connected /\ host'.busy = host.busy /\ host'.suppress = host.suppress
    BY <1>2, <1>4 DEF Alike
  <2>3. WireOK(Tracked(upset), host', pipe', server)
    BY <1>4, <2>2 DEF WireOK
  <2>4. Sync(Tracked(upset), host', pipe', server)
    BY <1>1, <1>4, <2>1, <2>2 DEF Sync, Quiet
  <2>5. Tracked(upset) => Kept(host', pipe', server)
    BY <1>1, <1>4, <2>1, <2>2 DEF Kept
  <2> QED BY <1>1, <1>2, <1>4, <2>1, <2>3, <2>4, <2>5 DEF PrintingIInv, Safe
<1>5. Quiet(host, pipe) <=> ~host.initPending /\ ~host.dataPending
  BY <1>1, <1>2 DEF WireOK, Quiet, Levelling, Asking, Answered
<1>6. CASE host.stopRequired /\ WprtSends([host EXCEPT !.stopRequired = FALSE], "stop")
  <2>1. host' = [host EXCEPT !.stopRequired = FALSE] /\ pipe' = [pipe EXCEPT !.out = Append(@, "stop")]
    BY <1>6 DEF WprtSends
  <2>2. Alike(host', host) /\ host'.stopRequired = FALSE /\ host'.initDone = host.initDone
        /\ host'.initPending = host.initPending /\ host'.dataPending = host.dataPending
        /\ host'.dataEnabled = host.dataEnabled /\ host'.cancelRequired = host.cancelRequired
    BY <1>2, <2>1 DEF Typed, Alike
  <2>3. Quiet(host, pipe) /\ pipe.out = <<>> /\ pipe.in = <<>>
    BY <1>1, <1>2, <1>6 DEF WireOK, Quiet, Levelling, Asking, Answered
  <2>4. pipe'.out = <<"stop">> /\ pipe'.in = <<>> /\ pipe' = [out |-> pipe'.out, in |-> pipe'.in]
    BY <1>3, <2>1, <2>3
  <2>5. host.initDone
    BY <1>1, <1>2, <1>6 DEF Flow
  <2>6. Quiet(host', pipe')
    BY <2>2, <2>3, <2>4, <2>5 DEF Quiet
  <2>7. Flow(host')
    BY <1>1, <2>2 DEF Flow, Alike, Live, HeadOver, Enabled
  <2>8. ~Sent(pipe) /\ ~Sent(pipe')
    BY <2>3, <2>4 DEF Sent
  <2> QED BY <1>4, <2>2, <2>3, <2>4, <2>6, <2>7, <2>8 DEF Due
<1>7. CASE /\ ~host.initDone /\ ~host.initPending /\ ~host.stopRequired
           /\ WprtSends([host EXCEPT !.initPending = TRUE], "level")
  <2>1. host' = [host EXCEPT !.initPending = TRUE] /\ pipe' = [pipe EXCEPT !.out = Append(@, "level")]
    BY <1>7 DEF WprtSends
  <2>2. Alike(host', host) /\ host'.stopRequired = host.stopRequired /\ host'.initDone = host.initDone
        /\ host'.initPending = TRUE /\ host'.dataPending = host.dataPending
        /\ host'.dataEnabled = host.dataEnabled /\ host'.cancelRequired = host.cancelRequired
    BY <1>2, <2>1 DEF Typed, Alike
  <2>3. ~host.dataPending
    BY <1>1, <1>2, <1>7 DEF Flow
  <2>4. Quiet(host, pipe) /\ pipe.out = <<>> /\ pipe.in = <<>>
    BY <1>5, <1>7, <2>3 DEF Quiet
  <2>5. pipe'.out = <<"level">> /\ pipe'.in = <<>> /\ pipe' = [out |-> pipe'.out, in |-> pipe'.in]
    BY <1>3, <2>1, <2>4
  <2>6. Levelling(host', pipe')
    BY <1>7, <2>2, <2>5 DEF Levelling
  <2>7. Flow(host')
    BY <1>1, <1>7, <2>2, <2>3 DEF Flow, Alike, Live, HeadOver, Enabled
  <2>8. ~Sent(pipe) /\ ~Sent(pipe')
    BY <2>4, <2>5 DEF Sent
  <2> QED BY <1>4, <2>2, <2>4, <2>5, <2>6, <2>7, <2>8 DEF Due
<1>8. CASE /\ ~host.stopRequired /\ host.initDone /\ ~host.dataPending
           /\ WprtSends([host EXCEPT !.dataPending = TRUE, !.cancelRequired = FALSE],
                    IF host.cancelRequired THEN "cancel" ELSE "data")
  <2> DEFINE asks == IF host.cancelRequired THEN "cancel" ELSE "data"
  <2>1. /\ host' = [host EXCEPT !.dataPending = TRUE, !.cancelRequired = FALSE]
        /\ pipe' = [pipe EXCEPT !.out = Append(@, asks)]
    BY <1>8 DEF WprtSends
  <2>2. Alike(host', host) /\ host'.stopRequired = host.stopRequired /\ host'.initDone = host.initDone
        /\ host'.initPending = host.initPending /\ host'.dataPending = TRUE
        /\ host'.dataEnabled = host.dataEnabled /\ host'.cancelRequired = FALSE
    BY <1>2, <2>1 DEF Typed, Alike
  <2>3. Quiet(host, pipe) /\ pipe.out \in {<<>>, <<"stop">>} /\ pipe.in = <<>>
    BY <1>1, <1>2, <1>5, <1>8 DEF Quiet, Flow
  <2>4. pipe'.out = Append(pipe.out, asks) /\ pipe'.in = <<>> /\ pipe' = [out |-> pipe'.out, in |-> pipe'.in]
    BY <1>3, <2>1, <2>3
  <2>5. pipe'.out \in {<<asks>>, <<"stop", asks>>}
    <3> HIDE DEF asks
    <3>1. CASE pipe.out = <<>>
      BY <2>4, <3>1
    <3>2. CASE pipe.out = <<"stop">>
      <4>1. Append(<<"stop">>, asks) = <<"stop", asks>>
        <5>1. \E S : "stop" \in S /\ asks \in S
          <6> WITNESS {"stop", asks}
          <6> QED OBVIOUS
        <5> QED BY <5>1, AppendPair, Zenon
      <4> QED BY <2>4, <3>2, <4>1, Zenon
    <3> QED BY <2>3, <3>1, <3>2
  <2>6. Asking(host', pipe')
    BY <1>8, <2>2, <2>4, <2>5 DEF Asking
  <2>7. Flow(host')
    BY <1>1, <1>8, <2>2 DEF Flow, Alike, Live, HeadOver, Enabled
  <2>8. ~Sent(pipe)
    BY <2>3 DEF Sent
  <2>9. Sent(pipe') <=> host.cancelRequired
    <3>1. CASE host.cancelRequired
      BY <2>5, <3>1 DEF Sent
    <3>2. CASE ~host.cancelRequired
      BY <2>5, <3>2 DEF Sent
    <3> QED BY <3>1, <3>2
  <2> QED BY <1>4, <2>2, <2>3, <2>4, <2>6, <2>7, <2>8, <2>9 DEF Due
<1> QED BY <1>6, <1>7, <1>8 DEF WprtIdle

-----------------------------------------------------------------------------
(* Connections come and go *)

\* The invariant, taken apart.
LEMMA Parts ==
    ASSUME PrintingIInv
    PROVE  /\ Shelf(host) /\ Flow(host) /\ ServerOK(server) /\ UpsetOK(upset)
           /\ WireOK(Tracked(upset), host, pipe, server) /\ Sync(Tracked(upset), host, pipe, server)
           /\ Tracked(upset) => Kept(host, pipe, server)
           /\ Typed(host)
BY DEF PrintingIInv, Safe, Shelf

\* Nothing of the last connection is left over.
LEMMA ConnectedSafe ==
    ASSUME PrintingIInv, WprtConnected
    PROVE  PrintingIInv'
<1>1. /\ Shelf(host) /\ Flow(host) /\ ServerOK(server) /\ UpsetOK(upset)
      /\ WireOK(Tracked(upset), host, pipe, server) /\ Sync(Tracked(upset), host, pipe, server)
      /\ Tracked(upset) => Kept(host, pipe, server)
      /\ Typed(host)
  BY Parts
<1>2. /\ host' = [NewConnection(host) EXCEPT !.connected = TRUE] /\ ~host.connected
      /\ pipe' = pipe /\ server' = server /\ upset' = upset
  BY DEF WprtConnected
<1>3. /\ Typed(host') /\ host'.jobs = host.jobs /\ host'.disk = host.disk /\ host'.page = host.page
      /\ host'.connected = TRUE /\ host'.suppress = host.suppress /\ host'.busy = FALSE /\ host'.remain = 0
      /\ host'.initPending = FALSE /\ host'.initDone = FALSE /\ host'.dataPending = FALSE
      /\ host'.dataEnabled = TRUE /\ host'.cancelRequired = FALSE /\ host'.stopRequired = FALSE
  BY <1>1, <1>2 DEF Typed, NewConnection
<1>4. Shelf(host')
  BY <1>1, <1>3, ShelfSame
<1>5. Flow(host')
  BY <1>3 DEF Flow, Live, Enabled
<1>6. pipe.out = <<>> /\ pipe.in = <<>> /\ pipe = [out |-> pipe.out, in |-> pipe.in]
  BY <1>1, <1>2 DEF WireOK
<1>7. WireOK(Tracked(upset), host', pipe, server)
  BY <1>3, <1>6 DEF WireOK, Quiet
<1>8. Sync(Tracked(upset), host', pipe, server)
  BY <1>1, <1>2 DEF Sync, Flow
<1>9. ASSUME Tracked(upset) PROVE Kept(host', pipe, server)
  <2>1. HeadOver(host')
    BY <1>1, <1>2, <1>3, <1>9 DEF Kept, Live, HeadOver
  <2>2. AllWhole(server.pages, host')
    BY <1>1, <1>3, <1>9 DEF Kept, AllWhole
  <2>3. ~Due(host', pipe)
    BY <1>3, <1>6 DEF Due, Sent
  <2> QED BY <2>1, <2>2, <2>3 DEF Kept
<1> QED BY <1>1, <1>2, <1>4, <1>5, <1>7, <1>8, <1>9 DEF PrintingIInv, Safe

\* The job that the server was sending is cancelled, unless it was cancelled here.
LEMMA LostFacts ==
    ASSUME NEW h, Shelf(h)
    PROVE  /\ Shelf(Lost(h)) /\ Descends(Lost(h), h) /\ ~Lost(h).connected /\ ~Lost(h).initDone
           /\ Lost(h).suppress = h.suppress /\ Lost(h).cancelRequired = h.cancelRequired
           /\ HeadOver(h) \/ Live(h) => HeadOver(Lost(h))
<1> DEFINE e == [h EXCEPT !.connected = FALSE, !.initDone = FALSE]
<1>1. Typed(h)
  BY DEF Shelf
<1>2. /\ Typed(e) /\ e.jobs = h.jobs /\ e.disk = h.disk /\ e.page = h.page /\ e.busy = h.busy
      /\ e.connected = FALSE /\ e.initDone = FALSE /\ e.suppress = h.suppress
      /\ e.cancelRequired = h.cancelRequired
  BY <1>1 DEF Typed
<1>3. Lost(h) = IF h.busy /\ ~h.suppress THEN Cancelled(e) ELSE e
  BY DEF Lost
<1> HIDE DEF e
<1>4. Shelf(e) /\ Descends(e, h)
  BY <1>2, ShelfSame, SelfDescends
<1>5. CASE h.busy /\ ~h.suppress
  <2>1. Dropped(Cancelled(e), e)
    BY <1>4, CancelledFacts
  <2>2. Descends(Cancelled(e), h)
    BY <1>2, <2>1 DEF Dropped, Descends, Comes, Agrees
  <2> QED BY <1>2, <1>3, <1>5, <2>1, <2>2 DEF Dropped, SameState
<1>6. CASE ~(h.busy /\ ~h.suppress)
  BY <1>2, <1>3, <1>4, <1>6 DEF HeadOver, Live
<1> QED BY <1>5, <1>6

\* What a connection that ends leaves, whatever jobs there still are.
LEMMA CutSafe ==
    ASSUME PrintingIInv, NEW f, Shelf(f), host' = Lost(f), Cut, UpsetOK(upset'), Tracked(upset') => Tracked(upset),
           Tracked(upset) => /\ f.cancelRequired => f.suppress
                             /\ HeadOver(f) \/ Live(f)
                             /\ AllWhole(server.pages, f)
    PROVE  PrintingIInv'
<1>1. /\ ServerOK(server)
      /\ Tracked(upset) => Kept(host, pipe, server)
  BY Parts
<1>2. /\ Shelf(host') /\ Descends(host', f) /\ ~host'.connected /\ ~host'.initDone
      /\ host'.suppress = f.suppress /\ host'.cancelRequired = f.cancelRequired
      /\ HeadOver(f) \/ Live(f) => HeadOver(host')
  BY LostFacts
<1>3. /\ pipe' = [out |-> <<>>, in |-> <<>>]
      /\ ServerOK(server') /\ server'.pages = server.pages /\ server'.printing = FALSE
  BY <1>1 DEF Cut, ServerOK
<1>4. Flow(host')
  BY <1>2 DEF Flow, Live
<1>5. WireOK(Tracked(upset'), host', pipe', server')
  BY <1>2, <1>3 DEF WireOK
<1>6. Sync(Tracked(upset'), host', pipe', server')
  BY <1>3 DEF Sync
<1>7. ASSUME Tracked(upset') PROVE Kept(host', pipe', server')
  <2>1. AllWhole(server'.pages, host')
    BY <1>2, <1>3, <1>7, DescendsWhole
  <2>2. Due(host', pipe') => host'.suppress
    BY <1>2, <1>3, <1>7 DEF Due, Sent
  <2> QED BY <1>2, <1>7, <2>1, <2>2 DEF Kept
<1> QED BY <1>2, <1>3, <1>4, <1>5, <1>6, <1>7 DEF PrintingIInv, Safe

\* The failure of a connection, which is not one of a local file.
LEMMA FaultFacts ==
    ASSUME UpsetOK(upset), NEW n \in Nat, upset' = [upset EXCEPT !.faults = @ + n]
    PROVE  UpsetOK(upset') /\ (Tracked(upset') <=> Tracked(upset))
BY DEF UpsetOK, Tracked

\* The connection is lost.
LEMMA DisconnectedSafe ==
    ASSUME PrintingIInv, WprtDisconnected
    PROVE  PrintingIInv'
<1>1. Shelf(host) /\ UpsetOK(upset) /\ (Tracked(upset) => Kept(host, pipe, server))
  BY Parts
<1>2. host' = Lost(host) /\ Cut /\ upset' = [upset EXCEPT !.faults = @ + 1]
  BY DEF WprtDisconnected
<1>3. UpsetOK(upset') /\ (Tracked(upset') <=> Tracked(upset))
  BY <1>1, <1>2, FaultFacts
<1> QED BY <1>1, <1>2, <1>3, CutSafe DEF Kept, Due

\* The channel ends, and every job with it.
LEMMA EndSafe ==
    ASSUME PrintingIInv, End
    PROVE  PrintingIInv'
<1> DEFINE f == DeleteAll(host)
<1>1. Shelf(host) /\ Typed(host) /\ UpsetOK(upset) /\ (Tracked(upset) => Kept(host, pipe, server))
  BY Parts
<1>2. host' = Lost(f) /\ Cut /\ upset' = [upset EXCEPT !.faults = @ + 1]
  BY DEF End
<1>3. UpsetOK(upset') /\ (Tracked(upset') <=> Tracked(upset))
  BY <1>1, <1>2, FaultFacts
<1>4. /\ Typed(f) /\ f.jobs = <<>> /\ f.disk = <<>>
      /\ f.cancelRequired = host.cancelRequired /\ f.suppress = host.suppress
  <2>1. /\ f.jobs = <<>> /\ f.disk = <<>>
        /\ f.cancelRequired = host.cancelRequired /\ f.suppress = host.suppress
    BY <1>1 DEF Typed, DeleteAll
  <2>2. DOMAIN f.disk = {} /\ f.disk \in [DOMAIN f.disk -> Sheet] /\ f.jobs \in Seq(Job)
    <3>1. f.disk = <<>> /\ f.jobs = <<>>
      BY <2>1
    <3> HIDE DEF f
    <3> QED BY <3>1
  <2>3. f \in [connected : BOOLEAN, suppress : BOOLEAN, pageLast : BOOLEAN, jobs : {<<>>},
              disk : {<<>>}, page : Nat, handle : Nat, initPending : BOOLEAN, initDone : BOOLEAN,
              dataPending : BOOLEAN, dataEnabled : BOOLEAN, cancelRequired : BOOLEAN,
              stopRequired : BOOLEAN, busy : BOOLEAN, remain : Nat]
    BY <1>1 DEF Typed, DeleteAll
  <2> HIDE DEF f
  <2> QED BY <2>1, <2>2, <2>3 DEF Typed
<1> HIDE DEF f
<1>5. Len(f.jobs) = 0
  BY <1>4
<1>6. Shelf(f)
  <2>1. DOMAIN f.disk = UNION {PageFiles(f.jobs[i]) : i \in 1 .. Len(f.jobs)}
    BY <1>4, <1>5
  <2> QED BY <1>4, <1>5, <2>1 DEF Shelf, HeadOver
<1>7. HeadOver(f) /\ AllWhole(server.pages, f)
  BY <1>4, <1>5 DEF HeadOver, AllWhole
<1> QED BY <1>1, <1>2, <1>3, <1>4, <1>6, <1>7, CutSafe DEF Kept, Due

-----------------------------------------------------------------------------
(* The server *)

\* No page of an earlier job changes.
Extends(new, old) == Len(old) <= Len(new) /\ \A s \in 1 .. Len(old) : new[s] = old[s]

\* Nor what is known of it.
LEMMA ExtendsFacts ==
    ASSUME NEW old \in Seq(Nat), NEW new \in Seq(Nat), Extends(new, old)
    PROVE  /\ \A disk, job, s : Whole(old, disk, job, s) => Whole(new, disk, job, s)
           /\ \A h : AllWhole(old, h) => AllWhole(new, h)
           /\ \A s, n, k : At(old, s, n, k) =>
                 /\ At(new, s, n, k)
                 /\ \A p : Carries(old, p, s, n, k) => Carries(new, p, s, n, k)
                 /\ \A h : (Synced(old, h, s, n, k) => Synced(new, h, s, n, k))
                           /\ (Written(old, h, s, n, k) => Written(new, h, s, n, k))
<1>1. \A s \in 1 .. Len(old) : s \in 1 .. Len(new) /\ new[s] = old[s]
  BY DEF Extends
<1>2. \A disk, job, s : Whole(old, disk, job, s) => Whole(new, disk, job, s)
  BY <1>1 DEF Whole
<1>3. \A h : AllWhole(old, h) => AllWhole(new, h)
  BY <1>2, Zenon DEF AllWhole
<1>4. ASSUME NEW s, NEW n, NEW k, At(old, s, n, k)
      PROVE  /\ At(new, s, n, k)
             /\ \A p : Carries(old, p, s, n, k) => Carries(new, p, s, n, k)
             /\ \A h : (Synced(old, h, s, n, k) => Synced(new, h, s, n, k))
                       /\ (Written(old, h, s, n, k) => Written(new, h, s, n, k))
  <2>1. new[s] = old[s] /\ At(new, s, n, k)
    BY <1>1, <1>4, Zenon DEF At
  <2>2. \A p : Carries(old, p, s, n, k) => Carries(new, p, s, n, k)
    BY <2>1, Zenon DEF Carries
  <2>3. \A h : Synced(old, h, s, n, k) => Synced(new, h, s, n, k)
    BY <2>1, Zenon DEF Synced
  <2>4. \A h : Written(old, h, s, n, k) => Written(new, h, s, n, k)
    BY <1>2, Zenon DEF Written
  <2> QED BY <2>1, <2>2, <2>3, <2>4
<1> QED BY <1>2, <1>3, <1>4

\* The server begins a job, or ends one that it has not sent.
LEMMA PrintsSafe ==
    ASSUME PrintingIInv, UNCHANGED <<host, pipe, upset>>, ServerOK(server'),
           Extends(server'.pages, server.pages), server'.printing => server'.page = 1
    PROVE  PrintingIInv'
<1> DEFINE tracked == Tracked(upset)
<1>1. /\ Shelf(host) /\ Flow(host) /\ ServerOK(server) /\ UpsetOK(upset)
      /\ WireOK(tracked, host, pipe, server) /\ Sync(tracked, host, pipe, server)
      /\ tracked => Kept(host, pipe, server)
  BY Parts
<1>2. /\ \A h : AllWhole(server.pages, h) => AllWhole(server'.pages, h)
      /\ \A s, n, k : At(server.pages, s, n, k) =>
            /\ At(server'.pages, s, n, k)
            /\ \A p : Carries(server.pages, p, s, n, k) => Carries(server'.pages, p, s, n, k)
            /\ \A h : (Synced(server.pages, h, s, n, k) => Synced(server'.pages, h, s, n, k))
                      /\ (Written(server.pages, h, s, n, k) => Written(server'.pages, h, s, n, k))
  <2>1. server.pages \in Seq(Nat) /\ server'.pages \in Seq(Nat)
    BY <1>1 DEF ServerOK
  <2> QED BY <2>1, ExtendsFacts
<1>3. Sync(tracked, host, pipe, server')
  BY <1>1 DEF Sync, ServerOK
<1>4. ASSUME NEW p, NEW s, NEW n, NEW k, Coming(tracked, host, server, p, s, n, k)
      PROVE  Coming(tracked, host, server', p, s, n, k)
  <2>1. At(server.pages, s, n, k)
    BY <1>4 DEF Coming
  <2>2. Beyond(server', p, s, n, k)
    BY DEF Beyond
  <2> QED BY <1>2, <1>4, <2>1, <2>2 DEF Coming
<1>5. WireOK(tracked, host, pipe, server')
  <2>1. Answered(tracked, host, pipe, server) => Answered(tracked, host, pipe, server')
    BY <1>4, Zenon DEF Answered
  <2> QED BY <1>1, <2>1, Zenon DEF WireOK
<1>6. tracked => Kept(host, pipe, server')
  BY <1>1, <1>2, Zenon DEF Kept
<1> QED BY <1>1, <1>3, <1>5, <1>6 DEF PrintingIInv, Safe

\* The remote machine prints.
LEMMA RemotePrintsSafe ==
    ASSUME PrintingParameters, PrintingIInv, NEW pages \in 0 .. PageMax, RemotePrints(pages)
    PROVE  PrintingIInv'
<1>1. ServerOK(server)
  BY Parts
<1>2. server' = [pages |-> Append(server.pages, pages), printing |-> TRUE, page |-> 1, piece |-> 1]
  BY DEF RemotePrints
<1>3. server.pages \in Seq(Nat) /\ pages \in Nat
  BY <1>1 DEF ServerOK, PrintingParameters
<1> DEFINE q == Append(server.pages, pages)
<1>4. /\ q \in Seq(Nat) /\ Len(q) = Len(server.pages) + 1
      /\ \A s \in 1 .. Len(server.pages) : q[s] = server.pages[s]
  BY <1>3, AppendProperties
<1>5. q[Len(q)] = pages
  <2>1. q[Len(server.pages) + 1] = pages
    BY <1>3, AppendProperties
  <2> QED BY <1>4, <2>1
<1> HIDE DEF q
<1>6. server'.pages = q /\ server'.printing = TRUE /\ server'.page = 1 /\ server'.piece = 1
  BY <1>2 DEF q
<1>7. q # <<>> /\ Len(q) \in 1 .. Len(q)
  BY <1>3, <1>4
<1>8. server' \in [pages : Seq(Nat), printing : BOOLEAN, page : Nat, piece : Nat]
  BY <1>2, <1>4 DEF q
<1>9. At(q, Len(q), 1, 1)
  BY <1>3, <1>5, <1>7 DEF At, Size
<1>10. ServerOK(server')
  BY <1>6, <1>7, <1>8, <1>9 DEF ServerOK
<1>11. Extends(server'.pages, server.pages)
  BY SMTT(30), <1>3, <1>4, <1>6 DEF Extends
<1> QED BY <1>6, <1>10, <1>11, PrintsSafe DEF RemotePrints

\* The remote job is given up.
LEMMA AbandonSafe ==
    ASSUME PrintingIInv, Abandon
    PROVE  PrintingIInv'
<1>1. ServerOK(server) /\ server' = [server EXCEPT !.printing = FALSE]
  BY Parts DEF Abandon
<1>2. ServerOK(server') /\ server'.pages = server.pages /\ server'.printing = FALSE
  BY <1>1 DEF ServerOK
<1>3. Extends(server'.pages, server.pages)
  BY <1>1, <1>2 DEF Extends, ServerOK
<1> QED BY <1>2, <1>3, PrintsSafe DEF Abandon

\* What the server has been asked for.
LEMMA AskedFacts ==
    ASSUME PrintingIInv, pipe.out # <<>>, NEW m \in {"data", "cancel"}, Head(pipe.out) = m
    PROVE  /\ pipe.out = <<m>> /\ pipe.in = <<>> /\ pipe = [out |-> pipe.out, in |-> pipe.in]
           /\ host.connected /\ host.dataPending /\ ~host.stopRequired /\ host.initDone
           /\ Sent(pipe) <=> m = "cancel"
<1>1. WireOK(Tracked(upset), host, pipe, server) /\ Flow(host)
  BY Parts
<1>2. host.connected /\ pipe = [out |-> pipe.out, in |-> pipe.in]
  BY <1>1 DEF WireOK
<1>3. ~Quiet(host, pipe)
  BY DEF Quiet
<1>4. ~Levelling(host, pipe)
  BY DEF Levelling
<1>5. ~Answered(Tracked(upset), host, pipe, server)
  BY DEF Answered
<1>6. Asking(host, pipe)
  BY <1>1, <1>2, <1>3, <1>4, <1>5 DEF WireOK
<1>7. pipe.out = <<m>> /\ pipe.in = <<>> /\ host.dataPending /\ ~host.stopRequired
  BY <1>6 DEF Asking
<1>8. host.initDone
  BY <1>1, <1>2, <1>7 DEF Flow
<1>9. Sent(pipe) <=> m = "cancel"
  BY <1>7 DEF Sent
<1> QED BY <1>2, <1>7, <1>8, <1>9

\* An answer to what was asked, after which the server goes on as it should.
LEMMA AnswerSafe ==
    ASSUME PrintingIInv, NEW p, NEW sv, ServerOK(sv), sv.pages = server.pages, server' = sv,
           pipe.out # <<>>, NEW m \in {"data", "cancel"}, Head(pipe.out) = m, Replies(p), UNCHANGED <<host, upset>>,
           NEW s \in Nat, NEW n \in Nat, NEW k \in Nat, Coming(Tracked(upset), host, sv, p, s, n, k)
    PROVE  PrintingIInv'
<1> DEFINE tracked == Tracked(upset)
<1>1. /\ Shelf(host) /\ Flow(host) /\ UpsetOK(upset)
      /\ tracked => Kept(host, pipe, server)
  BY Parts
<1>2. /\ pipe.out = <<m>> /\ pipe.in = <<>> /\ pipe = [out |-> pipe.out, in |-> pipe.in]
      /\ host.connected /\ host.dataPending /\ ~host.stopRequired /\ host.initDone
  BY AskedFacts
<1>3. pipe'.out = <<>> /\ pipe'.in = <<p>> /\ pipe' = [out |-> pipe'.out, in |-> pipe'.in]
  <2>1. pipe' = [out |-> Tail(pipe.out), in |-> Append(pipe.in, p)]
    BY DEF Replies
  <2>2. Append(pipe.in, p) = <<p>>
    BY <1>2
  <2>3. Tail(pipe.out) = <<>>
    BY <1>2
  <2> QED BY <2>1, <2>2, <2>3
<1>4. p \in PacketType
  BY DEF Coming, Carries
<1>5. Answered(tracked, host, pipe', sv)
  BY <1>2, <1>3, <1>4 DEF Answered
<1>6. WireOK(tracked, host, pipe', sv)
  BY <1>2, <1>3, <1>5 DEF WireOK
<1>7. Sync(tracked, host, pipe', sv)
  BY <1>2, <1>3 DEF Sync
<1>8. tracked => Kept(host, pipe', sv)
  <2>1. ~Sent(pipe')
    BY <1>3 DEF Sent
  <2> QED BY <1>1, <2>1 DEF Kept, Due
<1> QED BY <1>1, <1>6, <1>7, <1>8 DEF PrintingIInv, Safe

\* A packet of the server, with the pieces from the next one on.
LEMMA PacketCarries ==
    ASSUME PrintingParameters, ServerOK(server), server.printing, NEW data \in Sheet, NEW last \in BOOLEAN,
           data = [j \in 1 .. Len(data) |-> <<Len(server.pages), server.page, server.piece + j - 1>>],
           Len(data) >= 1,
           IF last THEN /\ server.piece + Len(data) - 1 = Size(server.page)
                        /\ server.page = 1 => server.page = Total
           ELSE Len(data) = 1 /\ ~(server.page = Total /\ server.piece = Size(server.page))
    PROVE  /\ At(server.pages, Len(server.pages), server.page, server.piece)
           /\ Carries(server.pages, [Packet(data) EXCEPT !.last = last], Len(server.pages), server.page, server.piece)
<1> DEFINE p == [Packet(data) EXCEPT !.last = last]
<1>1. At(server.pages, Len(server.pages), server.page, server.piece)
  BY DEF ServerOK
<1>2. /\ server.page \in Nat /\ server.piece \in Nat /\ Size(server.page) \in Nat /\ server.pages \in Seq(Nat)
      /\ Total = server.pages[Len(server.pages)] + 1
  BY DEF ServerOK, Size, PrintingParameters, Total
<1>3. /\ p.reset = (server.page = 1) /\ p.first = (server.piece = 1) /\ p.total = Size(server.page)
      /\ p.pageLast = (server.page = Total) /\ p.data = data /\ p.last = last
  BY DEF Packet, Size
<1>4. p \in PacketType
  <2>1. p = [reset |-> server.page = 1, first |-> server.piece = 1, total |-> Size(server.page),
             pageLast |-> server.page = Total, data |-> data, last |-> last]
    BY DEF Packet, Size
  <2> HIDE DEF p
  <2> QED BY <1>2, <2>1 DEF PacketType
<1> HIDE DEF p
<1>5. Carries(server.pages, p, Len(server.pages), server.page, server.piece)
  BY <1>2, <1>3, <1>4 DEF Carries
<1> QED BY <1>1, <1>5 DEF p

\* The next piece.
LEMMA ServeDataSafe ==
    ASSUME PrintingParameters, PrintingIInv, ServeData
    PROVE  PrintingIInv'
<1> DEFINE s == Len(server.pages)
           n == server.page
           k == server.piece
           data == <<PieceAt(k)>>
           last == (n = 1 \/ k = Pieces) /\ n = Total
           p == [Packet(data) EXCEPT !.last = last]
<1>1. /\ Flow(host) /\ ServerOK(server) /\ Sync(Tracked(upset), host, pipe, server)
      /\ Tracked(upset) => Kept(host, pipe, server)
  BY Parts
<1>2. /\ server.printing /\ pipe.out # <<>> /\ Replies(p) /\ host' = host /\ upset' = upset
      /\ server' = [server EXCEPT !.printing = ~last,
                                  !.page = IF n = 1 \/ k = Pieces THEN @ + 1 ELSE @,
                                  !.piece = IF n = 1 \/ k = Pieces THEN 1 ELSE @ + 1]
  BY DEF ServeData
<1>3. PICK m \in {"data", "cancel"} : Head(pipe.out) = m /\ (m = "cancel" => n = 1)
  BY DEF ServeData
<1>4. Pieces \in Nat \ {0} /\ n \in Nat /\ k \in Nat /\ s \in Nat /\ server.pages \in Seq(Nat) /\ At(server.pages, s, n, k)
  BY <1>1, <1>2 DEF PrintingParameters, ServerOK
<1>5. /\ k \in 1 .. Size(n) /\ n \in 1 .. Total /\ Total \in Nat
      /\ Size(n) \in Nat \ {0} /\ (n = 1 \/ k = Pieces <=> k = Size(n))
  BY <1>4 DEF At, Size, Total
<1>6. data \in Sheet /\ Len(data) = 1 /\ data = [j \in 1 .. Len(data) |-> <<s, n, k + j - 1>>]
  <2>1. PieceAt(k) = <<s, n, k>> /\ <<s, n, k>> \in Nat \X Nat \X Nat
    BY <1>4 DEF PieceAt
  <2>2. \A x \in Nat \X Nat \X Nat : <<x>> \in Sheet /\ Len(<<x>>) = 1 /\ <<x>> = [j \in 1 .. 1 |-> x]
    BY DEF Sheet
  <2>3. data \in Sheet /\ Len(data) = 1 /\ data = [j \in 1 .. 1 |-> <<s, n, k>>]
    BY <2>1, <2>2
  <2>4. \A j \in 1 .. 1 : <<s, n, k>> = <<s, n, k + j - 1>>
    BY <1>4
  <2>5. [j \in 1 .. 1 |-> <<s, n, k>>] = [j \in 1 .. 1 |-> <<s, n, k + j - 1>>]
    BY <2>4, Zenon
  <2> HIDE DEF data
  <2> QED BY <2>3, <2>5
<1>7. last \in BOOLEAN /\ (last <=> k = Size(n) /\ n = Total)
  BY <1>5
<1> HIDE DEF data, last
<1>8. Carries(server.pages, p, s, n, k)
  <2>1. IF last THEN k + Len(data) - 1 = Size(n) /\ (n = 1 => n = Total)
        ELSE Len(data) = 1 /\ ~(n = Total /\ k = Size(n))
    BY <1>4, <1>5, <1>6, <1>7
  <2>2. Len(data) >= 1
    BY <1>6
  <2> QED BY <1>1, <1>2, <1>6, <1>7, <2>1, <2>2, PacketCarries
<1>9. p.last = last /\ p.pageLast = (n = Total)
  BY DEF Packet
<1> HIDE DEF p
<1>10. /\ server'.pages = server.pages /\ server'.printing = ~last
       /\ server'.page = (IF k = Size(n) THEN n + 1 ELSE n)
       /\ server'.piece = (IF k = Size(n) THEN 1 ELSE k + 1)
       /\ server' \in [pages : Seq(Nat), printing : BOOLEAN, page : Nat, piece : Nat]
  <2> DEFINE page == IF k = Size(n) THEN n + 1 ELSE n
             piece == IF k = Size(n) THEN 1 ELSE k + 1
  <2>1. server' = [server EXCEPT !.printing = ~last, !.page = page, !.piece = piece]
    BY <1>2, <1>5
  <2>2. page \in Nat /\ piece \in Nat
    BY <1>4
  <2> HIDE DEF page, piece
  <2>3. /\ server'.pages = server.pages /\ server'.printing = ~last /\ server'.page = page /\ server'.piece = piece
        /\ server' \in [pages : Seq(Nat), printing : BOOLEAN, page : Nat, piece : Nat]
    BY <1>1, <1>7, <2>1, <2>2 DEF ServerOK
  <2> QED BY <2>3 DEF page, piece
<1>11. ServerOK(server')
  <2>1. server'.printing => At(server'.pages, s, server'.page, server'.piece)
    <3>1. CASE k = Size(n)
      BY <1>4, <1>5, <1>7, <1>10, <3>1 DEF At, Size, Total
    <3>2. CASE k # Size(n)
      BY <1>4, <1>5, <1>10, <3>2 DEF At
    <3> QED BY <3>1, <3>2
  <2> QED BY <1>1, <1>2, <1>10, <2>1 DEF ServerOK
<1>12. Beyond(server', p, s, n, k)
  BY <1>7, <1>9, <1>10 DEF Beyond
<1>13. pipe.in = <<>> /\ host.dataPending /\ (Sent(pipe) <=> m = "cancel")
  BY <1>2, <1>3, AskedFacts
<1>14. ASSUME n > 1
       PROVE  /\ Synced(server.pages, host, s, n, k)
              /\ Tracked(upset) /\ Live(host) => Written(server.pages, host, s, n, k)
  BY <1>1, <1>2, <1>3, <1>13, <1>14 DEF Sync
<1>15. Coming(Tracked(upset), host, server', p, s, n, k)
  <2>1. At(server'.pages, s, n, k) /\ Carries(server'.pages, p, s, n, k)
    BY <1>4, <1>8, <1>10
  <2>2. n = 1 \/ Synced(server'.pages, host, s, n, k)
    BY <1>5, <1>10, <1>14
  <2>3. Tracked(upset) /\ n > 1 =>
           /\ Synced(server'.pages, host, s, n, k)
           /\ Live(host) => Written(server'.pages, host, s, n, k) /\ (p.last => p.pageLast)
    BY <1>7, <1>9, <1>10, <1>14
  <2> QED BY <1>12, <2>1, <2>2, <2>3 DEF Coming
<1> QED BY <1>2, <1>3, <1>4, <1>10, <1>11, <1>15, AnswerSafe

\* The rest of the page that was asked for, when its job is cancelled.
LEMMA ServeCancelSafe ==
    ASSUME PrintingParameters, ~Rough, PrintingIInv, NEW short \in BOOLEAN, ServeCancel(short)
    PROVE  PrintingIInv'
<1> DEFINE s == Len(server.pages)
           n == server.page
           k == server.piece
           data == [j \in 1 .. Pieces + 1 - k |-> PieceAt(k + j - 1)]
           p == [Packet(data) EXCEPT !.last = TRUE]
<1>1. /\ Flow(host) /\ ServerOK(server) /\ Sync(Tracked(upset), host, pipe, server)
      /\ Tracked(upset) => Kept(host, pipe, server)
  BY Parts
<1>2. /\ server.printing /\ n > 1 /\ pipe.out # <<>> /\ Head(pipe.out) = "cancel" /\ Replies(p)
      /\ host' = host /\ upset' = upset /\ server' = [server EXCEPT !.printing = FALSE]
  <2>1. ~short
    BY DEF ServeCancel
  <2> QED BY <2>1 DEF ServeCancel
<1>3. Pieces \in Nat \ {0} /\ n \in Nat /\ k \in Nat /\ s \in Nat /\ server.pages \in Seq(Nat) /\ At(server.pages, s, n, k)
  BY <1>1, <1>2 DEF PrintingParameters, ServerOK
<1>4. Size(n) = Pieces /\ k \in 1 .. Pieces
  BY <1>2, <1>3 DEF At, Size
<1>5. data \in Sheet /\ Len(data) = Pieces + 1 - k /\ data = [j \in 1 .. Len(data) |-> <<s, n, k + j - 1>>]
  <2>1. \A j \in 1 .. Pieces + 1 - k : PieceAt(k + j - 1) = <<s, n, k + j - 1>>
                                       /\ <<s, n, k + j - 1>> \in Nat \X Nat \X Nat
    BY <1>3, <1>4 DEF PieceAt
  <2>2. data = [j \in 1 .. Pieces + 1 - k |-> <<s, n, k + j - 1>>]
    BY <2>1, Zenon
  <2>3. Pieces + 1 - k \in Nat
    BY <1>3, <1>4
  <2> DEFINE m == Pieces + 1 - k
             S == Nat \X Nat \X Nat
             piece(j) == PieceAt(k + j - 1)
  <2> HIDE DEF m, S, piece
  <2>4. [j \in 1 .. m |-> piece(j)] \in Seq(S) /\ Len([j \in 1 .. m |-> piece(j)]) = m
    <3>1. m \in Nat /\ \A j \in 1 .. m : piece(j) \in S
      BY <2>1, <2>3, Zenon DEF m, S, piece
    <3> QED BY <3>1
  <2>5. data \in Sheet /\ Len(data) = Pieces + 1 - k
    BY <2>4 DEF m, S, piece, Sheet
  <2> HIDE DEF data
  <2> QED BY <2>2, <2>5
<1> HIDE DEF data
<1>6. Carries(server.pages, p, s, n, k)
  <2>1. k + Len(data) - 1 = Size(n) /\ ~(n = 1) /\ Len(data) >= 1
    BY SMTT(30), <1>2, <1>3, <1>4, <1>5
  <2> QED BY <1>1, <1>2, <1>5, <2>1, PacketCarries
<1>7. p.last = TRUE
  BY DEF Packet
<1> HIDE DEF p
<1>8. ServerOK(server') /\ server'.pages = server.pages /\ server'.printing = FALSE
  BY <1>1, <1>2 DEF ServerOK
<1>9. pipe.in = <<>> /\ host.dataPending /\ Sent(pipe)
  BY <1>2, AskedFacts
<1>10. ~host.busy \/ Synced(server.pages, host, s, n, k)
  BY <1>1, <1>2, <1>9 DEF Sync
<1>11. Tracked(upset) => Synced(server.pages, host, s, n, k) /\ ~Live(host)
  BY <1>1, <1>2, <1>9 DEF Sync, Kept, Due, Live
<1>12. Coming(Tracked(upset), host, server', p, s, n, k)
  <2>1. At(server'.pages, s, n, k) /\ Carries(server'.pages, p, s, n, k)
    BY <1>3, <1>6, <1>8
  <2>2. Beyond(server', p, s, n, k)
    BY <1>8 DEF Beyond
  <2> QED BY <1>7, <1>8, <1>10, <1>11, <2>1, <2>2 DEF Coming
<1> QED BY <1>2, <1>3, <1>8, <1>12, AnswerSafe

\* The next job, when the cancelled one has gone already.
LEMMA CancelNextSafe ==
    ASSUME PrintingIInv, CancelNext
    PROVE  PrintingIInv'
<1>1. /\ Shelf(host) /\ Flow(host) /\ ServerOK(server) /\ UpsetOK(upset)
      /\ Tracked(upset) => Kept(host, pipe, server)
  BY Parts
<1>2. /\ pipe.out # <<>> /\ Head(pipe.out) = "cancel" /\ host' = host /\ upset' = upset
      /\ pipe' = [pipe EXCEPT !.out[1] = "data"]
      /\ server' = [server EXCEPT !.printing = @ /\ server.page = 1]
  BY DEF CancelNext
<1>3. /\ pipe.out = <<"cancel">> /\ pipe.in = <<>> /\ pipe = [out |-> pipe.out, in |-> pipe.in]
      /\ host.connected /\ host.dataPending /\ ~host.stopRequired /\ host.initDone
  BY <1>2, AskedFacts
<1>4. pipe'.out = <<"data">> /\ pipe'.in = <<>> /\ pipe' = [out |-> pipe'.out, in |-> pipe'.in]
  <2>1. pipe' = [out |-> [pipe.out EXCEPT ![1] = "data"], in |-> pipe.in]
    BY <1>2, <1>3
  <2>2. [pipe.out EXCEPT ![1] = "data"] = <<"data">>
    BY <1>3
  <2> QED BY <1>3, <2>1, <2>2
<1>5. /\ ServerOK(server') /\ server'.pages = server.pages
      /\ ~(server'.printing /\ server'.page > 1)
  <2>1. server' = [server EXCEPT !.printing = server.printing /\ server.page = 1]
    BY <1>1, <1>2 DEF ServerOK
  <2>2. CASE server.page = 1
    <3>1. server' = server
      BY <1>1, <2>1, <2>2 DEF ServerOK
    <3> QED BY <1>1, <2>2, <3>1
  <2>3. CASE server.page # 1
    <3>1. server' = [server EXCEPT !.printing = FALSE]
      BY <1>1, <2>1, <2>3 DEF ServerOK
    <3> QED BY <1>1, <3>1 DEF ServerOK
  <2> QED BY <2>2, <2>3
<1>6. Asking(host, pipe')
  BY <1>3, <1>4 DEF Asking
<1>7. WireOK(Tracked(upset), host, pipe', server')
  BY <1>3, <1>4, <1>6 DEF WireOK
<1>8. Sync(Tracked(upset), host, pipe', server')
  BY <1>5 DEF Sync
<1>9. Tracked(upset) => Kept(host, pipe', server')
  <2>1. ~Sent(pipe')
    BY <1>4 DEF Sent
  <2> QED BY <1>1, <1>5, <2>1 DEF Kept, Due
<1> QED BY <1>1, <1>2, <1>5, <1>7, <1>8, <1>9 DEF PrintingIInv, Safe

\* The version of the server, which may not fit.
LEMMA ServeLevelSafe ==
    ASSUME PrintingIInv, NEW fits \in BOOLEAN, ServeLevel(fits)
    PROVE  PrintingIInv'
<1> DEFINE p == [reset |-> FALSE, data |-> <<>>, last |-> ~fits]
<1>1. /\ Shelf(host) /\ Flow(host) /\ ServerOK(server) /\ UpsetOK(upset)
      /\ WireOK(Tracked(upset), host, pipe, server) /\ Sync(Tracked(upset), host, pipe, server)
      /\ Tracked(upset) => Kept(host, pipe, server)
  BY Parts
<1>2. /\ pipe.out # <<>> /\ Head(pipe.out) = "level" /\ Replies(p) /\ host' = host /\ server' = server
      /\ upset' = [upset EXCEPT !.faults = @ + (IF fits THEN 0 ELSE 1)]
  BY DEF ServeLevel
<1>3. UpsetOK(upset') /\ (Tracked(upset') <=> Tracked(upset))
  BY <1>1, <1>2, FaultFacts
<1>4. host.connected /\ Levelling(host, pipe) /\ pipe.out = <<"level">> /\ pipe.in = <<>>
  <2>1. host.connected
    BY <1>1, <1>2 DEF WireOK
  <2>2. ~Quiet(host, pipe) /\ ~Asking(host, pipe) /\ ~Answered(Tracked(upset), host, pipe, server)
    BY <1>2 DEF Quiet, Asking, Answered
  <2>3. Levelling(host, pipe)
    BY <1>1, <2>1, <2>2 DEF WireOK
  <2> QED BY <1>2, <2>1, <2>3 DEF Levelling
<1>5. pipe'.out = <<>> /\ pipe'.in = <<p>> /\ pipe' = [out |-> pipe'.out, in |-> pipe'.in]
  <2> HIDE DEF p
  <2>1. pipe' = [out |-> Tail(pipe.out), in |-> Append(pipe.in, p)]
    BY <1>2 DEF Replies
  <2>2. Append(pipe.in, p) = <<p>>
    BY <1>4
  <2>3. Tail(pipe.out) = <<>>
    BY <1>4
  <2> QED BY <2>1, <2>2, <2>3
<1>6. p \in LevelReply
  BY DEF LevelReply
<1> HIDE DEF p
<1>7. Levelling(host, pipe')
  BY <1>4, <1>5, <1>6 DEF Levelling
<1>8. WireOK(Tracked(upset'), host', pipe', server')
  BY <1>2, <1>4, <1>5, <1>7 DEF WireOK
<1>9. Sync(Tracked(upset'), host', pipe', server')
  BY <1>1, <1>2, <1>4 DEF Sync, Flow, Levelling
<1>10. Tracked(upset') => Kept(host', pipe', server')
  <2>1. ~Sent(pipe')
    BY <1>5 DEF Sent
  <2> QED BY <1>1, <1>2, <1>3, <2>1 DEF Kept, Due
<1> QED BY <1>1, <1>2, <1>3, <1>8, <1>9, <1>10 DEF PrintingIInv, Safe

-----------------------------------------------------------------------------
(* Messages of the server *)

\* The version fits, or the server is to be stopped.
LEMMA LevelledSafe ==
    ASSUME PrintingIInv, ServerData, host.connected, Levelling(host, pipe)
    PROVE  PrintingIInv'
<1>1. /\ Shelf(host) /\ Flow(host) /\ ServerOK(server) /\ UpsetOK(upset)
      /\ WireOK(Tracked(upset), host, pipe, server) /\ Sync(Tracked(upset), host, pipe, server)
      /\ Tracked(upset) => Kept(host, pipe, server)
      /\ Typed(host)
  BY Parts
<1>2. PICK p \in LevelReply : pipe.in = <<p>> /\ pipe.out = <<>> /\ host.initPending /\ ~host.stopRequired
  BY DEF Levelling, ServerData
<1>3. Head(pipe.in) = p /\ Tail(pipe.in) = <<>> /\ pipe = [out |-> pipe.out, in |-> pipe.in]
  <2>1. pipe = [out |-> pipe.out, in |-> pipe.in]
    BY <1>1 DEF WireOK
  <2> QED BY <1>2, <2>1
<1>4. PICK fails : host' \in WprtReceive(host, p, fails) /\ Blame(fails, p)
  BY <1>3 DEF ServerData
<1>5. pipe' = [pipe EXCEPT !.in = <<>>] /\ server' = server
  BY <1>3 DEF ServerData
<1>6. pipe'.in = <<>> /\ pipe'.out = <<>> /\ pipe' = [out |-> pipe'.out, in |-> pipe'.in]
  BY <1>2, <1>3, <1>5
<1>7. host' = [host EXCEPT !.initPending = FALSE, !.initDone = TRUE, !.stopRequired = host.stopRequired \/ p.last]
  BY <1>2, <1>4 DEF WprtReceive
<1>8. /\ Alike(host', host) /\ host'.initPending = FALSE /\ host'.initDone = TRUE
      /\ host'.dataPending = host.dataPending /\ host'.dataEnabled = host.dataEnabled
      /\ host'.cancelRequired = host.cancelRequired
  <2>1. p.last \in BOOLEAN
    BY DEF LevelReply
  <2>2. host' = [host EXCEPT !.initPending = FALSE, !.initDone = TRUE, !.stopRequired = p.last]
    BY <1>2, <1>7, <2>1
  <2> QED BY <1>1, <2>1, <2>2 DEF Typed, Alike
<1>9. host'.dataPending = FALSE /\ ~host.initDone
  <2>1. ~host.initDone
    BY <1>1, <1>2 DEF Flow
  <2>2. ~host.dataPending
    BY <1>1, <2>1 DEF Flow
  <2>3. host.dataPending \in BOOLEAN
    BY <1>1 DEF Typed
  <2> QED BY <1>8, <2>1, <2>2, <2>3
<1>10. Flow(host')
  BY <1>1, <1>8, <1>9 DEF Flow, Alike, Live, HeadOver, Enabled
<1>11. /\ Shelf(host') /\ (Live(host') <=> Live(host)) /\ (HeadOver(host') <=> HeadOver(host))
       /\ \A pages : AllWhole(pages, host) => AllWhole(pages, host')
  BY <1>1, <1>8, AlikeFacts
<1>12. WireOK(Tracked(upset'), host', pipe', server')
  <2>1. Quiet(host', pipe')
    BY <1>6, <1>8, <1>9 DEF Quiet
  <2> QED BY <1>6, <1>8, <2>1 DEF WireOK, Alike
<1>13. Sync(Tracked(upset'), host', pipe', server')
  BY <1>1, <1>5, <1>9 DEF Sync
<1>14. UpsetOK(upset') /\ (Tracked(upset') => Tracked(upset))
  <2>1. p.reset = FALSE
    BY DEF LevelReply
  <2>2. upset' = [faults |-> upset.faults + (IF fails = "none" THEN 0 ELSE 1),
                  local |-> upset.local \/ fails # "none", crossed |-> upset.crossed]
    BY <1>1, <1>4, <2>1 DEF Blame, UpsetOK
  <2>3. upset.faults \in Nat
    BY <1>1 DEF UpsetOK
  <2> QED BY <1>1, <2>2, <2>3 DEF UpsetOK, Tracked
<1>15. ASSUME Tracked(upset') PROVE Kept(host', pipe', server')
  <2>1. Kept(host, pipe, server)
    BY <1>1, <1>14, <1>15
  <2>2. ~Sent(pipe')
    BY <1>6 DEF Sent
  <2> QED BY <1>5, <1>8, <1>11, <2>1, <2>2 DEF Kept, Due, Alike
<1> QED BY <1>1, <1>5, <1>10, <1>11, <1>12, <1>13, <1>14, <1>15 DEF PrintingIInv, Safe

\* A packet of a job.
LEMMA AnsweredSafe ==
    ASSUME PrintingParameters, PrintingIInv, ServerData, host.connected,
           Answered(Tracked(upset), host, pipe, server)
    PROVE  PrintingIInv'
<1> DEFINE tracked == Tracked(upset)
<1>1. /\ Shelf(host) /\ Flow(host) /\ ServerOK(server) /\ UpsetOK(upset)
      /\ WireOK(tracked, host, pipe, server)
      /\ tracked => Kept(host, pipe, server)
      /\ Typed(host)
  BY Parts
<1>2. PICK p \in PacketType : \E s, n, k \in Nat : pipe.in = <<p>> /\ Coming(tracked, host, server, p, s, n, k)
  BY DEF Answered
<1>3. PICK s, n, k \in Nat : pipe.in = <<p>> /\ Coming(tracked, host, server, p, s, n, k)
  BY <1>2
<1>4. host.dataPending /\ ~host.stopRequired /\ pipe.out = <<>> /\ pipe = [out |-> pipe.out, in |-> pipe.in]
  BY <1>1 DEF Answered, WireOK
<1>5. Head(pipe.in) = p /\ Tail(pipe.in) = <<>>
  BY <1>3
<1>6. PICK fails \in {"none", "open", "write"} : host' \in WprtReceive(host, p, fails) /\ Blame(fails, p)
  BY <1>5 DEF ServerData, Unlucky
<1>7. pipe' = [pipe EXCEPT !.in = <<>>] /\ server' = server
  BY <1>5 DEF ServerData
<1>8. pipe'.in = <<>> /\ pipe'.out = <<>> /\ pipe' = [out |-> pipe'.out, in |-> pipe'.in]
  BY <1>4, <1>7
<1>9. host' \in ReceiveData(host, p, fails)
  <2>1. ~host.initPending
    BY <1>1, <1>4 DEF Flow
  <2> QED BY <1>4, <1>6, <2>1 DEF WprtReceive
<1>10. tracked \in BOOLEAN /\ Pieces \in Nat \ {0}
  BY DEF Tracked, PrintingParameters
<1>11. /\ Received(host', server.pages, p, s, n, k)
       /\ tracked /\ fails = "none" /\ ~(p.reset /\ host.cancelRequired) /\ Sound(host, server.pages)
          => Followed(host', server.pages, p, s, n, k)
  BY <1>1, <1>3, <1>4, <1>9, <1>10, ReceiveDataFacts
<1>12. UpsetOK(upset') /\ (Tracked(upset') => tracked /\ fails = "none" /\ ~(p.reset /\ host.cancelRequired))
  <2>1. upset' = [faults |-> upset.faults + (IF fails = "none" THEN 0 ELSE 1),
                  local |-> upset.local \/ fails # "none",
                  crossed |-> upset.crossed \/ (p.reset /\ host.cancelRequired)]
    BY <1>6 DEF Blame
  <2>2. upset.faults + (IF fails = "none" THEN 0 ELSE 1) \in Nat
    BY <1>1 DEF UpsetOK
  <2>3. UpsetOK(upset')
    BY <2>1, <2>2 DEF UpsetOK
  <2> QED BY <2>1, <2>3 DEF Tracked
<1>13. tracked => Sound(host, server.pages)
  BY <1>1 DEF Sound, Kept, Due
<1>14. Shelf(host') /\ Flow(host') /\ Steady(host')
  BY <1>11 DEF Received
<1>15. Quiet(host', pipe')
  BY <1>8, <1>14 DEF Quiet, Steady
<1>16. WireOK(Tracked(upset'), host', pipe', server')
  BY <1>8, <1>14, <1>15 DEF WireOK, Steady
<1>17. Tracked(upset') => Followed(host', server.pages, p, s, n, k)
  BY <1>11, <1>12, <1>13
<1>18. Sync(Tracked(upset'), host', pipe', server')
  <2> SUFFICES ASSUME server.printing, server.page > 1
               PROVE  Sync(Tracked(upset'), host', pipe', server')
    BY <1>7 DEF Sync
  <2>1. /\ ~p.last /\ s = Len(server.pages)
        /\ server.page = NextPage(n, k) /\ server.piece = NextPiece(n, k)
    <3>1. Beyond(server, p, s, n, k)
      BY <1>3 DEF Coming
    <3> QED BY <3>1 DEF Beyond, NextPage, NextPiece
  <2>2. \/ ~host'.busy /\ host'.cancelRequired /\ ~host'.dataPending
        \/ Synced(server.pages, host', s, server.page, server.piece)
    BY <1>11, <1>14, <2>1 DEF Received, Steady
  <2>3. Tracked(upset') => /\ Synced(server.pages, host', s, server.page, server.piece)
                           /\ Live(host') => Written(server.pages, host', s, server.page, server.piece)
    BY <1>17, <2>1 DEF Followed
  <2>4. host'.initDone
    BY <1>14 DEF Steady
  <2> QED BY <1>7, <2>1, <2>2, <2>3, <2>4 DEF Sync
<1>19. Tracked(upset') => Kept(host', pipe', server')
  <2>1. ~Sent(pipe')
    BY <1>8 DEF Sent
  <2> QED BY <1>7, <1>17, <2>1 DEF Kept, Due, Followed
<1> QED BY <1>1, <1>7, <1>12, <1>14, <1>16, <1>18, <1>19 DEF PrintingIInv, Safe

\* There is no other message.
LEMMA ServerDataSafe ==
    ASSUME PrintingParameters, PrintingIInv, ServerData
    PROVE  PrintingIInv'
<1>1. WireOK(Tracked(upset), host, pipe, server) /\ pipe.in # <<>>
  BY Parts DEF ServerData
<1>2. host.connected
  BY <1>1 DEF WireOK
<1>3. ~Quiet(host, pipe) /\ ~Asking(host, pipe)
  BY <1>1 DEF Quiet, Asking
<1>4. Levelling(host, pipe) \/ Answered(Tracked(upset), host, pipe, server)
  BY <1>1, <1>2, <1>3 DEF WireOK
<1> QED BY <1>2, <1>4, LevelledSafe, AnsweredSafe

-----------------------------------------------------------------------------
(* Clients *)

\* What a client may change: a job of its own, and a job that it lets go on.
StillWhole(g, h) == \A pages : AllWhole(pages, h) => AllWhole(pages, g)
StillWritten(g, h) ==
    \A pages, s, n : \A k \in Nat :
        Live(g) /\ ~HeadOver(h) /\ Written(pages, h, s, n, k) => Written(pages, g, s, n, k)
ClientStep(g, h) ==
    /\ Shelf(g)
    /\ g.connected = h.connected /\ g.busy = h.busy /\ g.remain = h.remain /\ g.pageLast = h.pageLast
    /\ g.initPending = h.initPending /\ g.initDone = h.initDone /\ g.dataPending = h.dataPending
    /\ g.stopRequired = h.stopRequired
    /\ h.cancelRequired => g.cancelRequired
    /\ h.suppress => g.suppress
    /\ g.cancelRequired => h.cancelRequired \/ g.suppress
    /\ Enabled(h) => Enabled(g)
    /\ HeadOver(h) \/ Live(h) => HeadOver(g) \/ Live(g)
    /\ Live(g) /\ ~HeadOver(h) => ~HeadOver(g)
    /\ StillWhole(g, h) /\ StillWritten(g, h)

\* One such step after another.
LEMMA ClientTrans ==
    ASSUME NEW f, NEW g, NEW h, ClientStep(g, h), ClientStep(f, g)
    PROVE  ClientStep(f, h)
<1>1. Live(f) => Live(g)
  BY DEF ClientStep, Live
<1>2. StillWhole(f, h)
  BY Zenon DEF ClientStep, StillWhole
<1>3. StillWritten(f, h)
  BY <1>1, Zenon DEF ClientStep, StillWritten
<1>4. Live(f) /\ ~HeadOver(h) => ~HeadOver(f)
  BY <1>1 DEF ClientStep
<1> QED BY <1>2, <1>3, <1>4 DEF ClientStep

\* The server and the messages do not notice.
LEMMA ClientSafe ==
    ASSUME PrintingIInv, ClientStep(host', host), pipe' = pipe, server' = server,
           UpsetOK(upset'), Tracked(upset') <=> Tracked(upset)
    PROVE  PrintingIInv'
<1> DEFINE tracked == Tracked(upset)
<1>1. /\ Shelf(host) /\ Flow(host) /\ ServerOK(server)
      /\ WireOK(tracked, host, pipe, server) /\ Sync(tracked, host, pipe, server)
      /\ tracked => Kept(host, pipe, server)
  BY Parts
<1>2. /\ Shelf(host')
      /\ host'.connected = host.connected /\ host'.busy = host.busy /\ host'.remain = host.remain
      /\ host'.pageLast = host.pageLast /\ host'.initPending = host.initPending
      /\ host'.initDone = host.initDone /\ host'.dataPending = host.dataPending
      /\ host'.stopRequired = host.stopRequired
      /\ Live(host') => Live(host)
  BY DEF ClientStep, Live
<1>3. Live(host) => ~HeadOver(host)
  BY <1>1 DEF Flow
<1>4. Flow(host')
  BY <1>1, <1>2, <1>3 DEF Flow, ClientStep
<1>5. \A pages, s, n, k : Synced(pages, host, s, n, k) <=> Synced(pages, host', s, n, k)
  BY <1>2, Zenon DEF Synced
<1>6. ASSUME NEW pages, NEW s, NEW n, NEW k \in Nat, Live(host) => Written(pages, host, s, n, k), Live(host')
      PROVE  Written(pages, host', s, n, k)
  BY <1>2, <1>3, <1>6 DEF ClientStep, StillWritten
<1>7. ASSUME NEW p, NEW s, NEW n, NEW k \in Nat, Coming(tracked, host, server, p, s, n, k)
      PROVE  Coming(tracked, host', server, p, s, n, k)
  <2>1. /\ At(server.pages, s, n, k) /\ Carries(server.pages, p, s, n, k) /\ Beyond(server, p, s, n, k)
        /\ n = 1 \/ (p.last /\ ~host'.busy) \/ Synced(server.pages, host', s, n, k)
    BY <1>2, <1>5, <1>7 DEF Coming
  <2>2. tracked /\ n > 1 =>
           /\ Synced(server.pages, host', s, n, k)
           /\ Live(host') => Written(server.pages, host', s, n, k) /\ (p.last => p.pageLast)
    BY <1>2, <1>5, <1>6, <1>7 DEF Coming
  <2> QED BY <2>1, <2>2 DEF Coming
<1>8. WireOK(tracked, host', pipe, server)
  <2>1. Answered(tracked, host, pipe, server) => Answered(tracked, host', pipe, server)
    BY <1>2, <1>7, Zenon DEF Answered
  <2>2. /\ Quiet(host, pipe) => Quiet(host', pipe)
        /\ Levelling(host, pipe) => Levelling(host', pipe)
        /\ Asking(host, pipe) => Asking(host', pipe)
    BY <1>2 DEF Quiet, Levelling, Asking
  <2> QED BY <1>1, <1>2, <2>1, <2>2, Zenon DEF WireOK
<1>9. Sync(tracked, host', pipe, server)
  <2> SUFFICES ASSUME server.printing, server.page > 1 PROVE Sync(tracked, host', pipe, server)
    BY DEF Sync
  <2>1. server.piece \in Nat
    BY <1>1 DEF ServerOK
  <2>2. host.cancelRequired => host'.cancelRequired
    BY DEF ClientStep
  <2> QED BY <1>1, <1>2, <1>5, <1>6, <2>1, <2>2 DEF Sync
<1>10. tracked => Kept(host', pipe, server)
  BY <1>1 DEF Kept, ClientStep, StillWhole, Due
<1>11. Tracked(upset') = tracked
  BY DEF Tracked
<1> HIDE DEF tracked
<1>12. Safe(host', pipe, server, upset')
  BY <1>1, <1>2, <1>4, <1>8, <1>9, <1>10, <1>11 DEF Safe
<1> QED BY <1>12 DEF PrintingIInv

\* What a head that is the same has.
LEMMA SameHead ==
    ASSUME NEW h, Shelf(h), h.jobs # <<>>, NEW g, g.jobs # <<>>, g.jobs[1] = h.jobs[1], Agrees(g, h, h.jobs[1]),
           NEW pages, NEW s, NEW n, NEW k \in Nat, Written(pages, h, s, n, k)
    PROVE  Written(pages, g, s, n, k)
<1>1. h.jobs[1] \in Job /\ JobOK(h.jobs[1])
  BY HeadFacts
<1>2. Whole(pages, g.disk, g.jobs[1], s)
  BY <1>1, AgreesWhole DEF Written
<1>3. ASSUME h.jobs[1].file # NoFile PROVE g.disk[h.jobs[1].file] = h.disk[h.jobs[1].file]
  <2>1. h.jobs[1].file \in PageFiles(h.jobs[1])
    BY SMTT(30), <1>1, <1>3, FilesFacts DEF JobOK, Job, EndOf
  <2> QED BY <2>1 DEF Agrees
<1> QED BY <1>2, <1>3 DEF Written

\* A job goes that is over, or that wprt.c no longer receives.
LEMMA DeleteStep ==
    ASSUME NEW h, Shelf(h), NEW i \in 1 .. Len(h.jobs), h.jobs[i].status # "start", Over(h.jobs[i]) \/ ~Live(h)
    PROVE  ClientStep(Delete(h, i), h)
<1> DEFINE g == Delete(h, i)
<1>1. Removed(g, h, i)
  BY DeleteFacts
<1> HIDE DEF g
<1>2. h.jobs # <<>>
  <2>1. Len(h.jobs) \in Nat
    BY DEF Shelf, Typed
  <2> QED BY <2>1
<1>3. /\ Shelf(g) /\ g.connected = h.connected /\ g.busy = h.busy /\ g.remain = h.remain /\ g.pageLast = h.pageLast
      /\ g.initPending = h.initPending /\ g.initDone = h.initDone /\ g.dataPending = h.dataPending
      /\ g.stopRequired = h.stopRequired /\ g.cancelRequired = h.cancelRequired /\ g.suppress = h.suppress
      /\ g.dataEnabled = h.dataEnabled /\ (Live(g) <=> Live(h))
  BY <1>1 DEF Removed, SameState, Live
<1>4. StillWhole(g, h)
  BY <1>1, DescendsWhole DEF Removed, StillWhole
<1>7. /\ h.cancelRequired => g.cancelRequired
      /\ h.suppress => g.suppress
      /\ g.cancelRequired => h.cancelRequired \/ g.suppress
  BY <1>3 DEF Shelf, Typed
<1>5. CASE i = 1
  <2>1. HeadOver(g) /\ (Live(g) => HeadOver(h))
    BY <1>1, <1>3, <1>5 DEF Removed, HeadOver
  <2>2. Enabled(h) => Enabled(g)
    BY <1>2, <1>3, <1>5 DEF Enabled
  <2>3. /\ HeadOver(h) \/ Live(h) => HeadOver(g) \/ Live(g)
        /\ Live(g) /\ ~HeadOver(h) => ~HeadOver(g)
    BY <2>1
  <2>4. StillWritten(g, h)
    BY <2>1, Zenon DEF StillWritten
  <2> QED BY <1>3, <1>4, <1>7, <2>2, <2>3, <2>4 DEF ClientStep, g
<1>6. CASE i # 1
  <2>1. g.jobs # <<>> /\ g.jobs[1] = h.jobs[1] /\ Agrees(g, h, h.jobs[1])
    BY <1>1, <1>6 DEF Removed
  <2>2. (Enabled(h) => Enabled(g)) /\ (HeadOver(h) <=> HeadOver(g))
    BY <1>2, <1>3, <2>1 DEF Enabled, HeadOver
  <2>3. \A pages, s, n : \A k \in Nat : Written(pages, h, s, n, k) => Written(pages, g, s, n, k)
    BY <1>2, <2>1, SameHead
  <2>4. /\ HeadOver(h) \/ Live(h) => HeadOver(g) \/ Live(g)
        /\ Live(g) /\ ~HeadOver(h) => ~HeadOver(g)
    BY <1>3, <2>2
  <2>5. StillWritten(g, h)
    BY <2>3, Zenon DEF StillWritten
  <2> QED BY <1>3, <1>4, <1>7, <2>2, <2>4, <2>5 DEF ClientStep, g
<1> QED BY <1>5, <1>6 DEF g

\* Every job but the newest is over.
LEMMA OthersOver ==
    ASSUME NEW h, Shelf(h), NEW i \in 1 .. Len(h.jobs), ~Over(h.jobs[i])
    PROVE  i = 1 /\ h.jobs # <<>>
<1>1. Len(h.jobs) \in Nat
  BY DEF Shelf, Typed
<1> QED BY <1>1 DEF Shelf

\* printing_cancel lets the job go that wprt_cancel has been told of.
LEMMA CancelJobSafe ==
    ASSUME ~Rough, PrintingIInv, NEW i \in 1 .. Len(host.jobs), CancelJob(i)
    PROVE  PrintingIInv'
<1> DEFINE job == host.jobs[i]
           told == IF Over(job) THEN host ELSE Cancel(host)
<1>1. Shelf(host) /\ Typed(host) /\ Flow(host) /\ UpsetOK(upset)
  BY Parts
<1>2. /\ job.status \notin {"start", "idle"} /\ pipe' = pipe /\ server' = server /\ upset' = upset
      /\ host' = IF Len(told.jobs) < Len(host.jobs) THEN told ELSE Delete(told, i)
  BY DEF CancelJob
<1>3. ClientStep(host', host)
  <2>1. CASE Over(job)
    <3>1. told = host
      BY <2>1
    <3>2. ~(Len(told.jobs) < Len(host.jobs))
      BY <1>1, <3>1 DEF Typed
    <3>3. host' = Delete(host, i)
      BY <1>2, <3>1, <3>2
    <3> QED BY <1>1, <1>2, <2>1, <3>3, DeleteStep
  <2>2. CASE ~Over(job) /\ ~(host.busy /\ ~host.suppress)
    <3>1. told = host
      BY <1>1, <2>2, CancelFacts
    <3>2. ~(Len(told.jobs) < Len(host.jobs))
      BY <1>1, <3>1 DEF Typed
    <3>3. host' = Delete(host, i)
      BY <1>2, <3>1, <3>2
    <3>4. ~Live(host)
      BY <2>2 DEF Live
    <3> QED BY <1>1, <1>2, <3>3, <3>4, DeleteStep
  <2>3. CASE ~Over(job) /\ host.busy /\ ~host.suppress
    <3> DEFINE told1 == Cancel(host)
    <3>1. told = told1 /\ Told(told1, host) /\ i = 1 /\ host.jobs # <<>>
      BY <1>1, <2>3, CancelFacts, OthersOver
    <3> HIDE DEF told, told1
    <3>2. /\ Shelf(told1) /\ HeadOver(told1) /\ Descends(told1, host)
          /\ told1.connected = host.connected /\ told1.busy = host.busy /\ told1.remain = host.remain
          /\ told1.pageLast = host.pageLast /\ told1.initPending = host.initPending
          /\ told1.initDone = host.initDone /\ told1.dataPending = host.dataPending
          /\ told1.stopRequired = host.stopRequired /\ told1.cancelRequired = TRUE
          /\ told1.suppress = TRUE /\ told1.dataEnabled = TRUE
      BY <1>1, <3>1 DEF Told, SameState, Typed
    <3>3. ~Live(told1) /\ Enabled(told1)
      BY <3>2 DEF Live, Enabled
    <3>4. StillWhole(told1, host) /\ StillWritten(told1, host)
      BY <1>1, <3>2, <3>3, DescendsWhole DEF StillWhole, StillWritten
    <3>5. ClientStep(told1, host)
      BY <3>2, <3>3, <3>4 DEF ClientStep
    <3>6. CASE Len(told1.jobs) < Len(host.jobs)
      BY <1>2, <3>1, <3>5, <3>6
    <3>7. CASE ~(Len(told1.jobs) < Len(host.jobs))
      <4>1. 1 \in 1 .. Len(told1.jobs) /\ told1.jobs # <<>>
        <5>1. Len(told1.jobs) \in Nat /\ Len(host.jobs) \in Nat /\ 1 <= Len(host.jobs)
          BY <1>1, <3>1, <3>2 DEF Shelf, Typed
        <5> QED BY <3>7, <5>1
      <4>2. Over(told1.jobs[1])
        BY <3>2, <4>1 DEF HeadOver
      <4>3. ClientStep(Delete(told1, 1), told1)
        BY <3>2, <4>1, <4>2, DeleteStep DEF Over
      <4>4. host' = Delete(told1, 1)
        BY <1>2, <3>1, <3>7
      <4> QED BY <3>5, <4>3, <4>4, ClientTrans
    <3> QED BY <3>6, <3>7
  <2> QED BY <2>1, <2>2, <2>3
<1> QED BY <1>1, <1>2, <1>3, ClientSafe

\* printing_read, in its two parts.
Accepted(h, i) ==
    IF h.jobs[i].status # "start" THEN h
    ELSE [h EXCEPT !.jobs[i].status = "receiving", !.dataEnabled = TRUE]
After(h, i) ==
    [h.jobs[i] EXCEPT !.read = @ + 1, !.kept = Append(@, h.disk[h.jobs[i].base + h.jobs[i].read])]
Moved(h, i) == Wiped([h EXCEPT !.jobs[i] = After(h, i)], {h.jobs[i].base + h.jobs[i].read})

\* The client accepts the job that waits.
LEMMA AcceptStep ==
    ASSUME NEW h, Shelf(h), NEW i \in 1 .. Len(h.jobs)
    PROVE  /\ ClientStep(Accepted(h, i), h) /\ Accepted(h, i).disk = h.disk
           /\ Len(Accepted(h, i).jobs) = Len(h.jobs)
           /\ LET new == Accepted(h, i).jobs[i] IN
              /\ new.base = h.jobs[i].base /\ new.read = h.jobs[i].read /\ new.received = h.jobs[i].received
              /\ Over(new) <=> Over(h.jobs[i])
              /\ new.status # "start"
<1> DEFINE g == Accepted(h, i)
           job == h.jobs[i]
           new == [job EXCEPT !.status = "receiving"]
<1>1. Typed(h) /\ Len(h.jobs) \in Nat
  BY DEF Shelf, Typed
<1>2. CASE job.status # "start"
  <2>1. g = h
    BY <1>2 DEF Accepted
  <2>2. StillWhole(h, h) /\ StillWritten(h, h)
    BY DEF StillWhole, StillWritten
  <2>3. ClientStep(h, h)
    BY <2>2 DEF ClientStep
  <2> QED BY <1>2, <2>1, <2>3
<1>3. CASE job.status = "start"
  <2>1. i = 1 /\ h.jobs # <<>> /\ ~Over(h.jobs[1])
    BY <1>3, OthersOver DEF Over
  <2>2. job \in Job /\ JobOK(job) /\ EndOf(job) <= h.page
    BY <2>1, HeadFacts
  <2>3. /\ new \in Job /\ JobOK(new) /\ EndOf(new) = EndOf(job) /\ PageFiles(new) = PageFiles(job) /\ new.base = job.base
        /\ new.read = job.read /\ new.received = job.received /\ new.file = job.file /\ new.kept = job.kept
        /\ ~Over(new) /\ new.status = "receiving"
    BY <2>2 DEF Job, JobOK, EndOf, PageFiles, Over, Status
  <2> HIDE DEF new
  <2>4. g = [h EXCEPT !.jobs = [h.jobs EXCEPT ![1] = new], !.dataEnabled = TRUE]
    BY <1>1, <1>3, <2>1 DEF Accepted, Typed, new
  <2>5. h.jobs \in Seq(Job) /\ 1 \in 1 .. Len(h.jobs)
    BY <1>1, <2>1 DEF Typed
  <2>6. [h.jobs EXCEPT ![1] = new] \in Seq(Job)
    BY <2>3, <2>5
  <2>7. /\ Typed(g) /\ g.jobs = [h.jobs EXCEPT ![1] = new] /\ g.disk = h.disk /\ g.page = h.page
        /\ g.connected = h.connected /\ g.busy = h.busy /\ g.remain = h.remain /\ g.pageLast = h.pageLast
        /\ g.initPending = h.initPending /\ g.initDone = h.initDone /\ g.dataPending = h.dataPending
        /\ g.stopRequired = h.stopRequired /\ g.cancelRequired = h.cancelRequired /\ g.suppress = h.suppress
        /\ g.dataEnabled = TRUE
    BY <1>1, <2>4, <2>6 DEF Typed
  <2> HIDE DEF g
  <2>8. Replaces(g, h, 1, new)
    <3>1. PageFiles(job) \subseteq DOMAIN h.disk
      BY <2>1, HeadFacts
    <3>2. DOMAIN g.disk = (DOMAIN h.disk \ PageFiles(job)) \cup PageFiles(new)
      BY <2>3, <2>7, <3>1
    <3> QED BY <1>1, <2>1, <2>7, <3>2 DEF Replaces, Typed
  <2>9. EndOf(new) = g.page
    BY <2>1, <2>3, <2>7 DEF Shelf, HeadOver
  <2>10. Shelf(g)
    <3>1. EndOf(new) <= g.page
      BY <1>1, <2>2, <2>3, <2>7
    <3>2. 1 > 1 => Over(new) /\ EndOf(new) <= EndOf(h.jobs[1]) /\ g.page = h.page
      OBVIOUS
    <3>3. new.base = h.jobs[1].base
      BY <2>1, <2>3
    <3> QED BY <2>3, <2>5, <2>7, <2>8, <2>9, <3>1, <3>2, <3>3, ReplacesShelf
  <2>11. g.jobs # <<>> /\ g.jobs[1] = new /\ Len(g.jobs) = Len(h.jobs)
    BY <2>1, <2>3, <2>5, <2>8, ReplacedJobs
  <2>12. \A pages, s : Whole(pages, h.disk, job, s) => Whole(pages, g.disk, new, s)
    BY <2>3, <2>7 DEF Whole
  <2>13. StillWritten(g, h)
    BY <2>1, <2>3, <2>7, <2>11, <2>12 DEF StillWritten, Written
  <2>14. StillWhole(g, h)
    <3> SUFFICES ASSUME NEW pages, AllWhole(pages, h) PROVE AllWhole(pages, g)
      BY DEF StillWhole
    <3>1. OthersWhole(pages, h)
      BY <1>1 DEF AllWhole, OthersWhole
    <3>2. OthersWhole(pages, g)
      BY <2>1, <2>3, <2>8, <3>1, ReplacesWhole
    <3>3. PICK s \in Nat : Whole(pages, h.disk, job, s)
      BY DEF AllWhole
    <3>4. Whole(pages, g.disk, g.jobs[1], s)
      BY <2>11, <2>12, <3>3
    <3> QED BY <1>1, <2>11, <3>2, <3>4, HeadAndOthers
  <2>15. Enabled(g) /\ ~HeadOver(g) /\ (Live(g) <=> Live(h)) /\ ~HeadOver(h)
    BY <2>1, <2>3, <2>7, <2>11 DEF Enabled, HeadOver, Live
  <2>16. /\ h.cancelRequired => g.cancelRequired
         /\ h.suppress => g.suppress
         /\ g.cancelRequired => h.cancelRequired \/ g.suppress
    BY <1>1, <2>7 DEF Typed
  <2>17. ClientStep(g, h)
    BY <2>7, <2>10, <2>13, <2>14, <2>15, <2>16 DEF ClientStep
  <2> QED BY <2>1, <2>3, <2>7, <2>11, <2>17 DEF g
<1> QED BY <1>2, <1>3

\* The page that is read goes from the disk to the client.
LEMMA MoveStep ==
    ASSUME NEW h, Shelf(h), NEW i \in 1 .. Len(h.jobs), h.jobs[i].read # h.jobs[i].received,
           h.jobs[i].status # "start"
    PROVE  /\ ClientStep(Moved(h, i), h) /\ Len(Moved(h, i).jobs) = Len(h.jobs)
           /\ Moved(h, i).jobs[i].status = h.jobs[i].status
<1> DEFINE g == Moved(h, i)
           job == h.jobs[i]
           from == job.base + job.read
           new == After(h, i)
<1>1. Typed(h) /\ Len(h.jobs) \in Nat /\ h.jobs \in Seq(Job)
  BY DEF Shelf, Typed
<1>2. job \in Job /\ JobOK(job) /\ EndOf(job) <= h.page /\ PageFiles(job) \subseteq DOMAIN h.disk
  BY <1>1 DEF Shelf
<1>3. /\ job.base \in Nat /\ job.read \in Nat /\ job.received \in Nat /\ job.read + 1 <= job.received
      /\ job.kept \in Seq(Sheet) /\ from \in Nat /\ from = job.base + (job.read + 1) - 1
  BY <1>2 DEF Job, JobOK
<1>4. from \in PageFiles(job) /\ from \in DOMAIN h.disk /\ h.disk[from] \in Sheet
  <2>1. job.read + 1 \in job.read + 1 .. job.received
    BY <1>3
  <2>2. from \in PageFiles(job)
    BY <1>2, <1>3, <2>1, FilesHas
  <2> QED BY <1>1, <1>2, <2>2 DEF Typed
<1>5. /\ new \in Job /\ new.base = job.base /\ new.read = job.read + 1 /\ new.received = job.received
      /\ new.file = job.file /\ new.status = job.status /\ new.kept = Append(job.kept, h.disk[from])
  <2> DEFINE kept == Append(job.kept, h.disk[from])
             next == job.read + 1
  <2>1. kept \in Seq(Sheet) /\ next \in Nat
    <3>1. kept \in Seq(Sheet)
      BY <1>3, <1>4, AppendProperties, Zenon
    <3> QED BY <1>3, <3>1
  <2>2. new = [job EXCEPT !.read = next, !.kept = kept]
    BY <1>2 DEF After, Job
  <2> HIDE DEF kept, next, new
  <2>3. /\ new \in Job /\ new.base = job.base /\ new.read = next /\ new.received = job.received
        /\ new.file = job.file /\ new.status = job.status /\ new.kept = kept
    BY <1>2, <2>1, <2>2 DEF Job
  <2> QED BY <2>3 DEF kept, next
<1>6. g = [h EXCEPT !.jobs = [h.jobs EXCEPT ![i] = new], !.disk = [p \in DOMAIN h.disk \ {from} |-> h.disk[p]]]
  BY <1>1 DEF Moved, Wiped, Typed
<1> HIDE DEF new, g
<1>7. JobOK(new) /\ EndOf(new) = EndOf(job) /\ (Over(new) <=> Over(job))
  BY <1>3, <1>5, <1>2 DEF JobOK, EndOf, Over
<1>8. PageFiles(new) = PageFiles(job) \ {from}
  <2>1. PageFiles(job) = from .. EndOf(job) - 1 /\ EndOf(job) \in Nat
    BY <1>2, FilesFacts
  <2>2. PageFiles(new) = from + 1 .. EndOf(job) - 1
    BY SMTT(30), <1>3, <1>5, <1>7, FilesFacts
  <2> QED BY SMTT(30), <1>3, <2>1, <2>2
<1>9. [h.jobs EXCEPT ![i] = new] \in Seq(Job)
  BY <1>1, <1>5
<1>10. /\ Typed(g) /\ g.jobs = [h.jobs EXCEPT ![i] = new] /\ g.page = h.page
       /\ g.disk = [p \in DOMAIN h.disk \ {from} |-> h.disk[p]]
       /\ SameState(g, h)
  <2> DEFINE jobs == [h.jobs EXCEPT ![i] = new]
             disk == [p \in DOMAIN h.disk \ {from} |-> h.disk[p]]
  <2>1. DOMAIN disk \in SUBSET Nat /\ disk \in [DOMAIN disk -> Sheet] /\ jobs \in Seq(Job)
    BY <1>1, <1>9 DEF Typed
  <2> HIDE DEF jobs, disk
  <2>2. g = [h EXCEPT !.jobs = jobs, !.disk = disk]
    BY <1>6 DEF jobs, disk
  <2>3. Typed(g) /\ g.jobs = jobs /\ g.page = h.page /\ g.disk = disk /\ SameState(g, h)
    BY <1>1, <2>1, <2>2 DEF Typed, SameState
  <2> QED BY <2>3 DEF jobs, disk
<1>11. Replaces(g, h, i, new)
  <2>1. DOMAIN g.disk = (DOMAIN h.disk \ PageFiles(job)) \cup PageFiles(new)
    BY <1>2, <1>4, <1>8, <1>10
  <2>2. \A p \in DOMAIN h.disk \ PageFiles(job) : g.disk[p] = h.disk[p]
    BY <1>4, <1>10
  <2>3. h.page <= g.page
    BY <1>1, <1>10 DEF Typed
  <2> QED BY <1>10, <2>1, <2>2, <2>3 DEF Replaces
<1>12. Shelf(g)
  <2>1. i > 1 => Over(new) /\ EndOf(new) <= EndOf(job) /\ g.page = h.page
    <3>1. EndOf(job) \in Nat
      BY <1>2, FilesFacts
    <3> QED BY <1>7, <1>10, <3>1, OthersOver
  <2>2. EndOf(new) <= g.page /\ (i = 1 => Over(new) \/ EndOf(new) = g.page)
    <3>1. i = 1 => Over(job) \/ EndOf(job) = h.page
      BY DEF Shelf, HeadOver
    <3> QED BY <1>2, <1>7, <1>10, <3>1
  <2> QED BY <1>5, <1>7, <1>10, <1>11, <2>1, <2>2, ReplacesShelf
<1>13. /\ g.jobs # <<>> /\ Len(g.jobs) = Len(h.jobs) /\ h.jobs # <<>>
       /\ \A j \in 1 .. Len(h.jobs) : g.jobs[j] = IF j = i THEN new ELSE h.jobs[j]
  BY <1>5, <1>11, ReplacedJobs
<1>14. ASSUME NEW pages, NEW s, Whole(pages, h.disk, job, s)
       PROVE  Whole(pages, g.disk, new, s)
  <2>1. s \in 1 .. Len(pages) /\ (new.status = "complete" => new.received = pages[s] + 1)
    BY <1>5, <1>14 DEF Whole
  <2>2. \A n \in job.read + 1 .. job.received : h.disk[job.base + n - 1] = Page(s, n)
    BY <1>14 DEF Whole
  <2>3. h.disk[from] = Page(s, job.read + 1)
    <3>1. job.read + 1 \in job.read + 1 .. job.received
      BY <1>3
    <3>2. h.disk[job.base + (job.read + 1) - 1] = Page(s, job.read + 1)
      BY <2>2, <3>1, Zenon
    <3> QED BY <1>3, <3>2
  <2>4. job.kept = [n \in 1 .. job.read |-> Page(s, n)]
    BY <1>14 DEF Whole
  <2>5. new.kept = [n \in 1 .. job.read + 1 |-> Page(s, n)]
    <3> DEFINE a == Append(job.kept, h.disk[from])
    <3>1. Len(job.kept) = job.read /\ \A n \in 1 .. job.read : job.kept[n] = Page(s, n)
      BY <1>3, <2>4
    <3>2. /\ a \in Seq(Sheet) /\ Len(a) = job.read + 1
          /\ \A n \in 1 .. job.read : a[n] = job.kept[n]
          /\ a[job.read + 1] = h.disk[from]
      BY <1>3, <1>4, <3>1, AppendProperties
    <3> HIDE DEF a
    <3>3. ASSUME NEW n \in 1 .. job.read + 1 PROVE a[n] = Page(s, n)
      <4>1. n \in 1 .. job.read \/ n = job.read + 1
        BY <1>3
      <4> QED BY <2>3, <3>1, <3>2, <4>1, Zenon
    <3>4. a = [n \in 1 .. job.read + 1 |-> a[n]]
      BY <1>3, <3>2
    <3>5. [n \in 1 .. job.read + 1 |-> a[n]] = [n \in 1 .. job.read + 1 |-> Page(s, n)]
      BY <3>3, Zenon
    <3> QED BY <1>5, <3>4, <3>5 DEF a
  <2>6. ASSUME NEW n \in new.read + 1 .. new.received PROVE g.disk[new.base + n - 1] = Page(s, n)
    <3>1. n \in job.read + 1 .. job.received /\ job.base + n - 1 # from
      <4>1. n \in (job.read + 1) + 1 .. job.received
        BY <1>5, <2>6
      <4>2. \A b, r, c \in Nat : \A x \in (r + 1) + 1 .. c : x \in r + 1 .. c /\ b + x - 1 # b + r
        OBVIOUS
      <4> QED BY SMTT(30), <1>3, <4>1, <4>2
    <3>2. job.base + n - 1 \in DOMAIN h.disk
      BY <1>2, <3>1, FilesHas
    <3> QED BY <1>5, <1>10, <2>2, <3>1, <3>2
  <2> QED BY <1>5, <2>1, <2>5, <2>6 DEF Whole
<1>15. \A j \in 1 .. Len(h.jobs) : j # i => g.jobs[j] = h.jobs[j] /\ Agrees(g, h, h.jobs[j])
  BY <1>5, <1>11, ReplacesOthers
<1>16. StillWhole(g, h)
  <2> SUFFICES ASSUME NEW pages, AllWhole(pages, h), NEW j \in 1 .. Len(h.jobs)
               PROVE  \E s \in Nat : Whole(pages, g.disk, g.jobs[j], s)
    BY <1>13 DEF StillWhole, AllWhole
  <2>1. PICK s \in Nat : Whole(pages, h.disk, h.jobs[j], s)
    BY DEF AllWhole
  <2>2. CASE j = i
    BY <1>13, <1>14, <2>1, <2>2
  <2>3. CASE j # i
    <3>1. h.jobs[j] \in Job
      BY <1>1
    <3> QED BY <1>15, <2>1, <2>3, <3>1, AgreesWhole
  <2> QED BY <2>2, <2>3
<1>17. StillWritten(g, h)
  <2> SUFFICES ASSUME NEW pages, NEW s, NEW n, NEW k \in Nat, Written(pages, h, s, n, k)
               PROVE  Written(pages, g, s, n, k)
    BY DEF StillWritten
  <2>1. 1 \in 1 .. Len(h.jobs)
    BY <1>1, <1>13
  <2>2. CASE i = 1
    <3>1. Whole(pages, g.disk, new, s)
      BY <1>14, <2>2 DEF Written
    <3>2. g.jobs[1] = new
      BY <1>13, <2>1, <2>2
    <3>3. ASSUME new.file # NoFile PROVE g.disk[new.file] = h.disk[job.file]
      <4>1. job.file = job.base + job.received /\ job.file # from
        <5>1. job.file = job.base + job.received
          BY <1>2, <1>5, <3>3 DEF JobOK
        <5>2. \A b, r, c \in Nat : r + 1 <= c => b + c # b + r
          OBVIOUS
        <5> QED BY <1>3, <5>1, <5>2
      <4>2. job.file \in PageFiles(job)
        <5>1. PageFiles(job) = job.base + job.read .. EndOf(job) - 1
          BY <1>2, FilesFacts
        <5>2. EndOf(job) = job.base + job.received + 1
          BY <1>5, <3>3 DEF EndOf
        <5>3. job.base + job.received \in job.base + job.read .. (job.base + job.received + 1) - 1
          <6>1. \A b, r, c \in Nat : r + 1 <= c => b + c \in b + r .. (b + c + 1) - 1
            OBVIOUS
          <6> QED BY <1>3, <6>1
        <5> QED BY <4>1, <5>1, <5>2, <5>3
      <4> QED BY <1>2, <1>5, <1>10, <4>1, <4>2
    <3> QED BY <1>5, <2>2, <3>1, <3>2, <3>3 DEF Written
  <2>3. CASE i # 1
    BY <1>13, <1>15, <2>1, <2>3, SameHead
  <2> QED BY <2>2, <2>3
<1>18. /\ HeadOver(g) <=> HeadOver(h)
       /\ Live(g) <=> Live(h)
       /\ Enabled(h) <=> Enabled(g)
  <2>1. 1 \in 1 .. Len(h.jobs)
    BY <1>1, <1>13
  <2>2. (Over(g.jobs[1]) <=> Over(h.jobs[1])) /\ g.jobs[1].status = h.jobs[1].status
    BY <1>5, <1>7, <1>13, <2>1
  <2> QED BY <1>10, <1>13, <2>2 DEF HeadOver, Live, Enabled, SameState
<1>19. /\ h.cancelRequired => g.cancelRequired
       /\ h.suppress => g.suppress
       /\ g.cancelRequired => h.cancelRequired \/ g.suppress
  BY <1>1, <1>10 DEF Typed, SameState
<1>20. ClientStep(g, h)
  BY <1>10, <1>12, <1>16, <1>17, <1>18, <1>19 DEF ClientStep, SameState
<1> QED BY <1>5, <1>13, <1>20 DEF g

\* printing_read.
LEMMA ReadSafe ==
    ASSUME PrintingIInv, NEW i \in 1 .. Len(host.jobs), NEW moves \in BOOLEAN, Read(i, moves)
    PROVE  PrintingIInv'
<1> DEFINE job == host.jobs[i]
           a == Accepted(host, i)
           m == Moved(a, i)
<1>1. Shelf(host) /\ UpsetOK(upset)
  BY Parts
<1>2. /\ ClientStep(a, host) /\ a.disk = host.disk /\ Len(a.jobs) = Len(host.jobs)
      /\ a.jobs[i].base = job.base /\ a.jobs[i].read = job.read /\ a.jobs[i].received = job.received
      /\ Over(a.jobs[i]) <=> Over(job)
      /\ a.jobs[i].status # "start"
  BY <1>1, AcceptStep
<1>3. /\ job.read # job.received /\ pipe' = pipe /\ server' = server
      /\ upset' = [upset EXCEPT !.faults = @ + (IF moves THEN 0 ELSE 1)]
  BY DEF Read
<1>4. host' = IF ~moves THEN a
              ELSE IF Over(job) /\ job.read + 1 = job.received THEN Delete(m, i) ELSE m
  <2> DEFINE accepted == IF job.status # "start" THEN host
                         ELSE [host EXCEPT !.jobs[i].status = "receiving", !.dataEnabled = TRUE]
             page == [accepted.jobs[i] EXCEPT !.read = @ + 1, !.kept = Append(@, host.disk[job.base + job.read])]
             moved == Wiped([accepted EXCEPT !.jobs[i] = page], {job.base + job.read})
  <2>1. host' = IF ~moves THEN accepted
                ELSE IF Over(job) /\ job.read + 1 = job.received THEN Delete(moved, i) ELSE moved
    BY DEF Read
  <2>2. accepted = a
    BY DEF Accepted
  <2> HIDE DEF accepted, a
  <2>3. page = After(a, i)
    BY <1>2, <2>2 DEF After
  <2> HIDE DEF page
  <2>4. moved = m
    BY <1>2, <2>2, <2>3 DEF Moved
  <2> QED BY <2>1, <2>2, <2>4
<1> HIDE DEF a, m
<1>5. Shelf(a) /\ i \in 1 .. Len(a.jobs)
  BY <1>2 DEF ClientStep
<1>6. /\ ClientStep(m, a) /\ Len(m.jobs) = Len(a.jobs) /\ m.jobs[i].status = a.jobs[i].status
  BY <1>2, <1>3, <1>5, MoveStep DEF m
<1>7. ClientStep(m, host)
  BY <1>2, <1>6, ClientTrans
<1>8. Over(job) => ClientStep(Delete(m, i), host)
  <2>1. Shelf(m) /\ i \in 1 .. Len(m.jobs)
    BY <1>5, <1>6 DEF ClientStep
  <2>2. Over(job) => Over(m.jobs[i])
    BY <1>2, <1>6 DEF Over
  <2>3. Over(job) => ClientStep(Delete(m, i), m)
    BY <1>2, <1>6, <2>1, <2>2, DeleteStep
  <2> QED BY <1>7, <2>3, ClientTrans
<1>9. ClientStep(host', host)
  BY <1>2, <1>4, <1>7, <1>8
<1>10. UpsetOK(upset') /\ (Tracked(upset') <=> Tracked(upset))
  BY <1>1, <1>3, FaultFacts
<1> QED BY <1>3, <1>9, <1>10, ClientSafe

-----------------------------------------------------------------------------
(* The theorems *)

\* At first there is no job and no connection.
LEMMA InitSafe ==
    ASSUME PrintingInit
    PROVE  PrintingIInv
<1>1. /\ host.jobs = <<>> /\ host.disk = <<>> /\ host.connected = FALSE /\ host.suppress = FALSE
      /\ host.cancelRequired = FALSE /\ host.initDone = FALSE
      /\ pipe = [out |-> <<>>, in |-> <<>>] /\ pipe.out = <<>> /\ pipe.in = <<>>
      /\ server.printing = FALSE /\ server.pages = <<>>
  BY DEF PrintingInit
<1>2. Typed(host)
  <2>1. DOMAIN host.disk = {} /\ host.disk \in [DOMAIN host.disk -> Sheet]
    BY <1>1
  <2>2. host \in [connected : BOOLEAN, suppress : BOOLEAN, pageLast : BOOLEAN, jobs : Seq(Job),
              disk : {<<>>}, page : Nat, handle : Nat, initPending : BOOLEAN, initDone : BOOLEAN,
              dataPending : BOOLEAN, dataEnabled : BOOLEAN, cancelRequired : BOOLEAN,
              stopRequired : BOOLEAN, busy : BOOLEAN, remain : Nat]
    BY DEF PrintingInit
  <2> QED BY <1>1, <2>1, <2>2 DEF Typed
<1>3. Len(host.jobs) = 0
  BY <1>1
<1>4. Shelf(host)
  <2>1. DOMAIN host.disk = UNION {PageFiles(host.jobs[i]) : i \in 1 .. Len(host.jobs)}
    BY <1>1, <1>3
  <2> QED BY <1>1, <1>2, <1>3, <2>1 DEF Shelf, HeadOver
<1>5. Flow(host) /\ WireOK(Tracked(upset), host, pipe, server)
  BY <1>1 DEF Flow, Live, WireOK
<1>6. ServerOK(server) /\ UpsetOK(upset)
  BY DEF PrintingInit, ServerOK, UpsetOK
<1>7. Sync(Tracked(upset), host, pipe, server)
  BY <1>1 DEF Sync
<1>8. Kept(host, pipe, server)
  BY <1>1, <1>3 DEF Kept, Due, Sent, HeadOver, AllWhole
<1> QED BY <1>4, <1>5, <1>6, <1>7, <1>8 DEF PrintingIInv, Safe

\* Every action keeps the invariant.
LEMMA NextSafe ==
    ASSUME PrintingParameters, ~Rough, PrintingIInv, [PrintingNext]_pvars
    PROVE  PrintingIInv'
<1>1. CASE ServerData
  BY <1>1, ServerDataSafe
<1>2. CASE WprtIdle
  BY <1>2, IdleSafe
<1>3. CASE WprtConnected
  BY <1>3, ConnectedSafe
<1>4. CASE WprtDisconnected
  BY <1>4, DisconnectedSafe
<1>5. CASE End
  BY <1>5, EndSafe
<1>6. CASE \E i \in 1 .. Len(host.jobs) :
             Read(i, TRUE) \/ (upset.faults < LapseMax /\ Read(i, FALSE)) \/ CancelJob(i)
  BY <1>6, ReadSafe, CancelJobSafe
<1>7. CASE \E pages \in 0 .. PageMax : RemotePrints(pages)
  BY <1>7, RemotePrintsSafe
<1>8. CASE Abandon
  BY <1>8, AbandonSafe
<1>9. CASE ServeData
  BY <1>9, ServeDataSafe
<1>10. CASE CancelNext
  BY <1>10, CancelNextSafe
<1>11. CASE \E yes \in BOOLEAN : ServeCancel(yes) \/ ServeLevel(yes)
  BY <1>11, ServeCancelSafe, ServeLevelSafe
<1>12. CASE UNCHANGED pvars
  BY <1>12 DEF pvars, PrintingIInv
<1> QED BY <1>1, <1>2, <1>3, <1>4, <1>5, <1>6, <1>7, <1>8, <1>9, <1>10, <1>11, <1>12 DEF PrintingNext

\* The packets, the messages and the pages fit together whatever the sizes, when a
\* client reads of a job before it cancels it and the remote server sends the rest
\* of the page of a cancelled job (wprt_poll, wprt_receive, printing_data).
THEOREM PrintingInvariant ==
    ASSUME PrintingParameters, ~Rough
    PROVE  PrintingSpec => []PrintingIInv
<1>1. PrintingInit => PrintingIInv
  BY InitSafe
<1>2. PrintingIInv /\ [PrintingNext]_pvars => PrintingIInv'
  BY NextSafe
<1> QED BY <1>1, <1>2, PTL DEF PrintingSpec

\* What clients have read of a job and what is on disk are its pages.
LEMMA HeldFacts ==
    ASSUME Shelf(host), NEW i \in 1 .. Len(host.jobs), NEW pages, NEW s, Whole(pages, host.disk, host.jobs[i], s)
    PROVE  Held(host.jobs[i]) = [n \in 1 .. host.jobs[i].received |-> Page(s, n)]
<1> DEFINE job == host.jobs[i]
           left == job.received - job.read
           rest == [k \in 1 .. left |-> host.disk[job.base + job.read + k - 1]]
           held == job.kept \o rest
<1>1. Typed(host) /\ Len(host.jobs) \in Nat /\ host.jobs \in Seq(Job)
  BY DEF Shelf, Typed
<1>2. job \in Job /\ JobOK(job) /\ PageFiles(job) \subseteq DOMAIN host.disk
  BY <1>1 DEF Shelf
<1>3. /\ job.base \in Nat /\ job.read \in Nat /\ job.received \in Nat /\ left \in Nat /\ job.kept \in Seq(Sheet)
  BY <1>2 DEF Job, JobOK
<1>4. Len(job.kept) = job.read /\ \A n \in 1 .. job.read : job.kept[n] = Page(s, n)
  <2>1. job.kept = [n \in 1 .. job.read |-> Page(s, n)]
    BY DEF Whole
  <2> QED BY <1>3, <2>1
<1>5. ASSUME NEW k \in 1 .. left
      PROVE  /\ host.disk[job.base + job.read + k - 1] \in Sheet
             /\ host.disk[job.base + job.read + k - 1] = Page(s, job.read + k)
  <2>1. job.read + k \in job.read + 1 .. job.received /\ job.base + (job.read + k) - 1 = job.base + job.read + k - 1
    <3>1. \A b, r, c \in Nat : \A x \in 1 .. c - r :
             r + x \in r + 1 .. c /\ b + (r + x) - 1 = b + r + x - 1
      OBVIOUS
    <3> QED BY ZenonT(30), <1>3, <3>1
  <2>2. job.base + (job.read + k) - 1 \in PageFiles(job)
    BY <1>2, <2>1, FilesHas
  <2>3. host.disk[job.base + (job.read + k) - 1] = Page(s, job.read + k)
    BY <2>1, Zenon DEF Whole
  <2> QED BY <1>1, <1>2, <2>1, <2>2, <2>3 DEF Typed
<1>6. rest \in Seq(Sheet) /\ Len(rest) = left /\ \A k \in 1 .. left : rest[k] = Page(s, job.read + k)
  <2> DEFINE at(k) == host.disk[job.base + job.read + k - 1]
  <2>1. \A k \in 1 .. left : at(k) \in Sheet /\ at(k) = Page(s, job.read + k)
    BY <1>5
  <2> HIDE DEF at, left
  <2>2. /\ [k \in 1 .. left |-> at(k)] \in Seq(Sheet) /\ Len([k \in 1 .. left |-> at(k)]) = left
        /\ \A k \in 1 .. left : [j \in 1 .. left |-> at(j)][k] = Page(s, job.read + k)
    BY <1>3, <2>1
  <2> QED BY <2>2 DEF at
<1> HIDE DEF rest
<1>7. /\ held \in Seq(Sheet) /\ Len(held) = Len(job.kept) + Len(rest)
      /\ \A n \in 1 .. Len(job.kept) + Len(rest) :
            held[n] = IF n <= Len(job.kept) THEN job.kept[n] ELSE rest[n - Len(job.kept)]
  BY <1>3, <1>6, ConcatProperties
<1> HIDE DEF held
<1>8. Len(held) = job.received
  BY <1>3, <1>4, <1>6, <1>7
<1>9. ASSUME NEW n \in 1 .. job.received PROVE held[n] = Page(s, n)
  <2>1. CASE n <= job.read
    <3>1. n \in 1 .. job.read /\ held[n] = job.kept[n]
      BY SMTT(30), <1>3, <1>4, <1>6, <1>7, <2>1
    <3> QED BY <1>4, <3>1
  <2>2. CASE n > job.read
    <3>1. n - job.read \in 1 .. left /\ job.read + (n - job.read) = n
      BY SMTT(30), <1>3, <2>2
    <3>2. held[n] = rest[n - job.read]
      <4>1. n \in 1 .. Len(job.kept) + Len(rest) /\ ~(n <= Len(job.kept))
        BY <1>3, <1>4, <1>6, <2>2
      <4>2. held[n] = IF n <= Len(job.kept) THEN job.kept[n] ELSE rest[n - Len(job.kept)]
        BY <1>7, <4>1, Zenon
      <4> QED BY <1>4, <4>1, <4>2
    <3>3. rest[n - job.read] = Page(s, n)
      BY <1>6, <3>1
    <3> QED BY <3>2, <3>3
  <2> QED BY <1>3, <2>1, <2>2
<1>10. held = [n \in 1 .. job.received |-> held[n]]
  BY <1>3, <1>7, <1>8
<1>11. [n \in 1 .. job.received |-> held[n]] = [n \in 1 .. job.received |-> Page(s, n)]
  BY <1>9, Zenon
<1> QED BY <1>10, <1>11 DEF Held, held, rest

\* The invariant says what the run checks.
LEMMA PrintingSafely ==
    ASSUME PrintingIInv
    PROVE  PrintingOK
<1>1. /\ Shelf(host) /\ Flow(host)
      /\ Tracked(upset) => Kept(host, pipe, server)
  BY Parts
<1>2. ASSUME Tracked(upset) PROVE PagesOK
  <2> SUFFICES ASSUME NEW i \in 1 .. Len(host.jobs)
               PROVE  \E s \in 1 .. Len(server.pages) :
                         /\ Held(host.jobs[i]) = [n \in 1 .. host.jobs[i].received |-> Page(s, n)]
                         /\ host.jobs[i].status = "complete" => host.jobs[i].received = server.pages[s] + 1
    BY Zenon DEF PagesOK
  <2>1. PICK s \in Nat : Whole(server.pages, host.disk, host.jobs[i], s)
    BY <1>1, <1>2 DEF Kept, AllWhole
  <2>2. Held(host.jobs[i]) = [n \in 1 .. host.jobs[i].received |-> Page(s, n)]
    BY <1>1, <2>1, HeldFacts
  <2>3. /\ s \in 1 .. Len(server.pages)
        /\ host.jobs[i].status = "complete" => host.jobs[i].received = server.pages[s] + 1
    BY <2>1 DEF Whole
  <2> QED BY <2>2, <2>3
<1>3. FilesOK
  BY <1>1, Apart DEF FilesOK, Shelf
<1>4. FlowOK
  <2>1. \A i \in 2 .. Len(host.jobs) : Over(host.jobs[i])
    BY <1>1 DEF Shelf
  <2>2. host.busy /\ ~host.suppress /\ host.connected => host.jobs # <<>> /\ ~Over(host.jobs[1])
    BY <1>1 DEF Flow, Live, HeadOver
  <2>3. host.connected => host.dataEnabled \/ (host.jobs # <<>> /\ host.jobs[1].status = "start")
    BY <1>1 DEF Flow, Enabled
  <2> QED BY <2>1, <2>2, <2>3 DEF FlowOK
<1> QED BY <1>2, <1>3, <1>4 DEF PrintingOK, Tracked

\* What clients read of a job is what the remote machine printed, each file is of one
\* job, and the next packet is asked for, for jobs and pages of any number
\* (printing_data, printing_read, printing_cancel, wprt_idle, wprt_receive).
THEOREM PrintingSafe ==
    ASSUME PrintingParameters, ~Rough
    PROVE  PrintingSpec => []PrintingOK
<1>1. PrintingSpec => []PrintingIInv
  BY PrintingInvariant
<1>2. PrintingIInv => PrintingOK
  BY PrintingSafely
<1> QED BY <1>1, <1>2, PTL
=============================================================================
