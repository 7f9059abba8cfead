------------------------------ MODULE FileProofs ------------------------------
(***************************************************************************)
(* Proofs about the files of the cache and the entry points of the filing  *)
(* system.                                                                 *)
(*                                                                         *)
(* CacheFile: for any sizes of buffers, requests and files, and whichever  *)
(* requests fail, a handle believes what is so between operations, and     *)
(* what clients wrote is in the remote file, except for what is in doubt.  *)
(* The invariant says, for the request that is sent, which command of the  *)
(* client it serves and how far it has come: what has moved on the remote  *)
(* end and what has not.                                                   *)
(*                                                                         *)
(* Entry: for any number of drives to search, of Escapes and of operations *)
(* of others, an entry point has its plan done once and in order.  The     *)
(* invariant says where cache_fore's operation is while the entry point    *)
(* waits for it, and which steps of the plan were done before.             *)
(***************************************************************************)
EXTENDS CacheFile, Entry, FiniteSetTheorems, SequenceTheorems, TLAPS

Byte == Values \cup {Zero, Junk}
File == [open : BOOLEAN, lost : BOOLEAN, write : BOOLEAN, extent : Nat, allocated : Nat,
         sequential : Nat, simulated : Nat]
Cmds == {"none", "read", "write", "zero", "allocated", "extent", "sequential", "close"}
States == {"initial", "read", "write", "resize", "close", "done", "finished"}
Job == [cmd : Cmds, offset : Nat, length : Nat, value : Byte, state : States, got : Seq(Byte),
        err : BOOLEAN]
Outstanding == [op : {"none", "seek", "size", "read", "write", "close"}, length : Nat, done : Nat]
Store == [data : Seq(Byte), pos : Nat]
\* The sizes of a handle, and what it believes of the remote file f
Fits(h) ==
    h.simulated <= h.extent /\ h.extent <= h.allocated /\ h.sequential <= h.allocated
Doubts == SUBSET {"position", "size"}
Holds(s, i, v) == i < Len(s.data) /\ s.data[i + 1] = v
Held(s, k) == \A i \in Positions : k[i] # Unknown => Holds(s, i, k[i])
Within(n, k) == \A i \in Positions : k[i] # Unknown => i < n
Kept(h, s, k, d) ==
    /\ "size" \notin d => Len(s.data) <= h.allocated
    /\ Held(s, k) /\ Within(h.allocated, k)
Fresh(h, s, k, d) == ("position" \notin d => s.pos = h.sequential) /\ Kept(h, s, k, d)

\* What a read has got is what the remote file holds there.
Got(j, s) ==
    /\ j.got = <<>> \/ j.offset + Len(j.got) <= Len(s.data)
    /\ \A i \in 1 .. Len(j.got) : j.got[i] = s.data[j.offset + i]

\* What a read returned
ReadDone(h, j, k, d) ==
    \A i \in j.offset .. j.offset + j.length - 1 :
        /\ i >= h.extent => j.got[i - j.offset + 1] = Zero
        /\ i < h.extent /\ k[i] # Unknown /\ "position" \notin d => j.got[i - j.offset + 1] = k[i]

\* What a close leaves in the file
CloseDone(h, s, k) ==
    /\ h.write => Len(s.data) = h.extent
    /\ \A i \in Positions : i < h.extent /\ k[i] # Unknown => Holds(s, i, k[i])

\* Between operations: an error, or what a read, a write or a close returned
AtRest(h, j, s, k, d) ==
    /\ h.open => ~h.lost /\ (j.cmd # "close" => Fits(h) /\ Fresh(h, s, k, d))
    /\ \/ j = [NoJob EXCEPT !.err = j.err]
       \/ j.state = "finished" /\ j.cmd = "read" /\ ReadDone(h, j, k, d)
       \/ j.state = "finished" /\ j.cmd \in {"write", "zero"}
       \/ j.state = "finished" /\ j.cmd = "close" /\ (~j.err => ~h.open /\ CloseDone(h, s, k))

\* A request that moves nothing of what the handle believes until it is answered
Reading(h, j, q, s, k, d) ==
    /\ j.cmd = "read" /\ j.offset < h.extent /\ j.length # 0 /\ j.offset + j.length <= MaxSize
    /\ \/ /\ j.state = "read" /\ q.op = "seek" /\ q.length = j.offset /\ q.done = 0
          /\ j.got = <<>> /\ Fresh(h, s, k, d)
       \/ /\ j.state = "done" /\ q.op = "read"
          /\ q.length = Minimum(j.length, h.extent - j.offset)
          /\ q.done = Len(j.got) /\ q.done < q.length
          /\ h.sequential = j.offset /\ Kept(h, s, k, d)
          /\ "position" \notin d => s.pos = j.offset + q.done /\ Got(j, s)

\* Of a write, the first bytes are done.
Begun(j, n, s, k) ==
    \A i \in Positions :
        IF i < j.offset \/ i >= j.offset + n THEN k[i] # Unknown => Holds(s, i, k[i])
        ELSE Holds(s, i, j.value)

Writing(h, j, q, s, k, d) ==
    /\ j.cmd \in {"write", "zero"} /\ h.write /\ j.length # 0
    /\ j.offset + j.length <= MaxSize
    /\ \/ /\ j.state = "resize" /\ q.op = "size" /\ q.done = 0
          /\ q.length = Round(j.offset + j.length) /\ h.allocated < j.offset + j.length
          /\ Fresh(h, s, k, d)
       \/ /\ j.state = "write" /\ q.op = "seek" /\ q.length = j.offset /\ q.done = 0
          /\ j.offset + j.length <= h.allocated /\ Fresh(h, s, k, d)
       \/ /\ j.state = "done" /\ q.op = "write" /\ q.length = j.length /\ q.done < q.length
          /\ j.offset + j.length <= h.allocated /\ h.sequential = j.offset
          /\ "size" \notin d => Len(s.data) <= h.allocated
          /\ Within(h.allocated, k)
          /\ "position" \notin d => s.pos = j.offset + q.done /\ Begun(j, q.done, s, k)
          /\ "position" \in d => Held(s, k)

Arranging(h, j, q, s, k, d) ==
    /\ j.state = "initial" /\ q.op = "size" /\ q.done = 0 /\ h.write /\ h.allocated < q.length
    /\ \/ j.cmd \in {"allocated", "extent"} /\ q.length = Round(j.length)
       \/ j.cmd = "sequential" /\ q.length = Round(j.offset) /\ h.extent < j.offset
    /\ Fresh(h, s, k, d)

Closing(h, j, q, s, k, d) ==
    /\ j.cmd = "close" /\ q.done = 0
    /\ \/ j.state = "close" /\ q.op = "size" /\ h.write /\ q.length = h.extent
          /\ Fresh(h, s, k, d)
       \/ j.state = "done" /\ q.op = "close" /\ CloseDone(h, s, k)

Underway(h, j, q, s, k, d) ==
    /\ h.open /\ ~h.lost /\ Fits(h) /\ ~j.err
    /\ \/ Reading(h, j, q, s, k, d) \/ Writing(h, j, q, s, k, d)
       \/ Arranging(h, j, q, s, k, d) \/ Closing(h, j, q, s, k, d)

\* The state in which what the handle h, the operation j and the request q say
\* of the remote file s is so, except for what is in doubt
Correct(h, j, q, s, k, d) ==
    /\ h \in File /\ j \in Job /\ q \in Outstanding /\ s \in Store
    /\ k \in [Positions -> Byte \cup {Unknown}] /\ d \in Doubts
    /\ q = Nothing => AtRest(h, j, s, k, d)
    /\ q # Nothing => Underway(h, j, q, s, k, d)

FileInv == Correct(file, job, sent, store, known, doubt)

-----------------------------------------------------------------------------
(* Lemmas about the operators.                                             *)

LEMMA RoundFacts ==
    ASSUME CacheFileParameters
    PROVE  \A n \in Nat : Round(n) \in Nat /\ n <= Round(n)
<1> SUFFICES ASSUME NEW n \in Nat PROVE Round(n) \in Nat /\ n <= Round(n)
  OBVIOUS
<1> DEFINE q == (n + Buffer - 1) \div Buffer
<1>1. Buffer \in Nat \ {0} /\ Buffer \in Nat /\ Buffer > 0
  BY DEF CacheFileParameters
<1>2. q \in Nat
  BY <1>1
<1>3. n + Buffer - 1 = Buffer * q + ((n + Buffer - 1) % Buffer)
  BY <1>1
<1>4. (n + Buffer - 1) % Buffer \in 0 .. Buffer - 1
  BY <1>1
<1>5. Buffer * q = q * Buffer /\ q * Buffer \in Nat
  BY <1>1, <1>2
<1>6. n <= q * Buffer
  <2> HIDE DEF q
  <2>1. (n + Buffer - 1) % Buffer <= Buffer - 1
    BY <1>4, <1>1
  <2> DEFINE m == (n + Buffer - 1) % Buffer  p == q * Buffer
  <2>2. m \in Int /\ p \in Nat
    BY <1>4, <1>1, <1>5
  <2>3. n + Buffer - 1 = p + m
    BY <1>3, <1>5
  <2> HIDE DEF m, p
  <2>4. n <= p
    BY <2>1, <2>2, <2>3, <1>1 DEF m
  <2> QED BY <2>4 DEF p
<1> QED BY <1>5, <1>6 DEF Round

LEMMA MinimumFacts ==
    \A m, n \in Nat : /\ Minimum(m, n) \in Nat /\ Minimum(m, n) <= m /\ Minimum(m, n) <= n
                      /\ Minimum(m, n) \in {m, n}
BY DEF Minimum

\* Data of another size begins as it did.
LEMMA SizedFacts ==
    ASSUME NEW data \in Seq(Byte), NEW n \in Nat
    PROVE  /\ Sized(data, n) \in Seq(Byte) /\ Len(Sized(data, n)) = n
           /\ \A i \in 1 .. n : i <= Len(data) => Sized(data, n)[i] = data[i]
<1>1. \A i \in 1 .. n : (IF i <= Len(data) THEN data[i] ELSE Junk) \in Byte
  BY DEF Byte
<1>2. Sized(data, n) \in [1 .. n -> Byte]
  BY <1>1 DEF Sized
<1>3. Sized(data, n) \in Seq(Byte)
  BY <1>2
<1>4. Len(Sized(data, n)) = n
  BY <1>2
<1> QED BY <1>3, <1>4 DEF Sized

\* Bytes that are written are there, and the others are where they were.
LEMMA WrittenFacts ==
    ASSUME NEW s \in Store, NEW n \in Nat, NEW v \in Byte
    PROVE  LET w == Written(s, Bytes(n, v)) IN
           /\ w \in Store /\ w.pos = s.pos + n
           /\ Len(w.data) = IF s.pos + n > Len(s.data) THEN s.pos + n ELSE Len(s.data)
           /\ \A i \in Nat : i < s.pos \/ i >= s.pos + n => \A x : Holds(s, i, x) => Holds(w, i, x)
           /\ \A i \in Nat : i >= s.pos /\ i < s.pos + n => Holds(w, i, v)
<1> DEFINE end == s.pos + n
           size == IF end > Len(s.data) THEN end ELSE Len(s.data)
           long == Sized(s.data, size)
           b == Bytes(n, v)
           new == [i \in 1 .. Len(long) |-> IF i > s.pos /\ i <= end THEN b[i - s.pos] ELSE long[i]]
           w == Written(s, b)
<1>1. s.data \in Seq(Byte) /\ s.pos \in Nat /\ Len(s.data) \in Nat
  BY DEF Store
<1>2. b \in [1 .. n -> Byte] /\ Len(b) = n /\ \A i \in 1 .. n : b[i] = v
  BY DEF Bytes
<1>3. size \in Nat /\ end \in Nat /\ end <= size /\ Len(s.data) <= size
  BY <1>1
<1>4. /\ long \in Seq(Byte) /\ Len(long) = size
      /\ \A i \in 1 .. size : i <= Len(s.data) => long[i] = s.data[i]
  <2> HIDE DEF size
  <2> QED BY <1>1, <1>3, SizedFacts
<1> HIDE DEF size, long, b
<1>5. w = [data |-> new, pos |-> end]
  BY <1>2 DEF Written, long, size
<1>6. \A i \in 1 .. size : (IF i > s.pos /\ i <= end THEN b[i - s.pos] ELSE long[i]) \in Byte
  BY <1>1, <1>2, <1>3, <1>4
<1>7. new \in [1 .. size -> Byte]
  BY <1>6, <1>4
<1>8. new \in Seq(Byte) /\ Len(new) = size
  BY <1>7, <1>3
<1>9. \A i \in 1 .. size : new[i] = IF i > s.pos /\ i <= end THEN v ELSE long[i]
  BY <1>1, <1>2, <1>3, <1>4
<1> HIDE DEF new
<1>10. w.data = new /\ w.pos = end /\ w \in Store
  BY <1>5, <1>8, <1>3 DEF Store
<1> HIDE DEF w
<1>11. ASSUME NEW i \in Nat, i < s.pos \/ i >= s.pos + n, NEW x, Holds(s, i, x)
       PROVE  Holds(w, i, x)
  <2>1. i < Len(s.data) /\ s.data[i + 1] = x
    BY <1>11 DEF Holds
  <2>2. i + 1 \in 1 .. size /\ ~(i + 1 > s.pos /\ i + 1 <= end) /\ i + 1 <= Len(s.data)
    BY <2>1, <1>1, <1>3, <1>11
  <2>3. new[i + 1] = s.data[i + 1]
    BY <2>2, <1>9, <1>4
  <2> QED BY <2>1, <2>2, <2>3, <1>8, <1>10, <1>3 DEF Holds
<1>12. ASSUME NEW i \in Nat, i >= s.pos, i < s.pos + n
       PROVE  Holds(w, i, v)
  BY <1>12, <1>10, <1>9, <1>8, <1>3, <1>1 DEF Holds
<1> QED BY <1>10, <1>8, <1>11, <1>12 DEF w, b, size

\* What is read is what the file holds from its position, as far as it goes.
LEMMA FetchedFacts ==
    ASSUME NEW s \in Store, NEW n \in Nat \ {0}
    PROVE  LET piece == Fetched(s, n) IN
           /\ piece \in Seq(Byte) /\ Len(piece) <= n
           /\ piece = <<>> => Len(s.data) <= s.pos
           /\ piece # <<>> => s.pos + Len(piece) <= Len(s.data)
           /\ \A i \in 1 .. Len(piece) : piece[i] = s.data[s.pos + i]
<1> DEFINE top == Minimum(s.pos + n, Len(s.data))
           piece == Fetched(s, n)
<1>1. s.data \in Seq(Byte) /\ s.pos \in Nat /\ Len(s.data) \in Nat
  BY DEF Store
<1>2. top \in Nat /\ top <= s.pos + n /\ top <= Len(s.data) /\ top \in {s.pos + n, Len(s.data)}
  BY <1>1 DEF Minimum
<1> HIDE DEF top
<1>3. piece = SubSeq(s.data, s.pos + 1, top)
  BY DEF Fetched, top
<1>4. /\ piece \in Seq(Byte)
      /\ Len(piece) = IF s.pos + 1 <= top THEN top - s.pos ELSE 0
      /\ \A i \in 1 .. Len(piece) : piece[i] = s.data[s.pos + i]
  <2>1. CASE s.pos + 1 <= top
    <3>1. s.pos + 1 \in Int /\ top \in Int /\ \A i \in s.pos + 1 .. top : s.data[i] \in Byte
      BY <1>1, <1>2
    <3>2. /\ piece \in Seq(Byte) /\ Len(piece) = top - (s.pos + 1) + 1
          /\ \A i \in 1 .. top - (s.pos + 1) + 1 : piece[i] = s.data[s.pos + 1 + i - 1]
      BY SMTT(30), <1>3, <2>1, <3>1, SubSeqProperties
    <3>3. /\ top - (s.pos + 1) + 1 = top - s.pos
          /\ \A i \in 1 .. top - s.pos : s.pos + 1 + i - 1 = s.pos + i
      BY <1>1, <1>2
    <3> QED BY <2>1, <3>2, <3>3
  <2>2. CASE ~(s.pos + 1 <= top)
    <3>1. piece = <<>>
      BY <1>1, <1>2, <1>3, <2>2
    <3> QED BY <2>2, <3>1
  <2> QED BY <2>1, <2>2
<1>5. piece = <<>> <=> Len(piece) = 0
  BY <1>4
<1> HIDE DEF piece
<1> QED BY <1>1, <1>2, <1>4, <1>5 DEF piece

-----------------------------------------------------------------------------
(* What a handler leaves behind.                                           *)

Known == [Positions -> Byte \cup {Unknown}]
Outcome(next, s, k, d) == Correct(next.file, Returned(next.job), next.sent, s, k, d)

\* A request that is sent for an operation under way
LEMMA Requested ==
    ASSUME NEW h \in File, NEW j \in Job, NEW s \in Store, NEW k \in Known, NEW d \in Doubts,
           NEW state \in States \ {"finished"}, NEW op \in {"seek", "size", "read", "write", "close"},
           NEW n \in Nat,
           Underway(h, [j EXCEPT !.state = state], [op |-> op, length |-> n, done |-> 0], s, k, d)
    PROVE  Outcome(Request(h, j, state, op, n), s, k, d)
<1> DEFINE next == Request(h, j, state, op, n)
           m == [j EXCEPT !.state = state]
           q == [op |-> op, length |-> n, done |-> 0]
<1>1. next.file = h /\ next.job = m /\ next.sent = q
  BY DEF Request, Left
<1>2. m \in Job /\ m.state = state /\ q \in Outstanding
  BY DEF Job, Outstanding
<1>3. Returned(m) = m
  BY <1>2 DEF Returned
<1>4. q # Nothing
  BY DEF Nothing
<1>5. Underway(h, m, q, s, k, d)
  OBVIOUS
<1> HIDE DEF m, q
<1>6. Correct(h, m, q, s, k, d)
  BY <1>2, <1>4, <1>5 DEF Correct, Known
<1>7. Correct(next.file, Returned(next.job), next.sent, s, k, d)
  <2> HIDE DEF next
  <2> QED BY <1>1, <1>3, <1>6
<1> QED BY <1>7 DEF Outcome

LEMMA NoJobType == NoJob \in Job /\ \A err \in BOOLEAN : [NoJob EXCEPT !.err = err] \in Job
<1>1. Zero \in Byte /\ <<>> \in Seq(Byte)
  BY DEF Byte
<1>2. NoJob \in Job
  BY <1>1 DEF NoJob, Job, Cmds, States
<1> QED BY <1>2 DEF Job

LEMMA NothingType == Nothing \in Outstanding
BY DEF Nothing, Outstanding

\* What is so of an open handle between operations
Rests(h, s, k, d) == h.open => ~h.lost /\ Fits(h) /\ Fresh(h, s, k, d)

\* An operation that ends with an error, or returns nothing else
LEMMA Ended ==
    ASSUME NEW h \in File, NEW j \in Job, NEW s \in Store, NEW k \in Known, NEW d \in Doubts,
           NEW err \in BOOLEAN, Rests(h, s, k, d), j.cmd # "close",
           j.cmd \notin {"read", "write", "zero"} \/ err
    PROVE  Outcome(Finished(h, j, err), s, k, d)
<1> DEFINE next == Finished(h, j, err)
           m == [j EXCEPT !.state = "finished", !.err = err]
           r == [NoJob EXCEPT !.err = err]
<1>1. next.file = h /\ next.sent = Nothing /\ next.job = m
  BY DEF Finished, Left
<1>2. m.state = "finished" /\ m.cmd = j.cmd /\ m.err = err
  BY DEF Job
<1>3. Returned(m) = r
  BY <1>2 DEF Returned
<1>4. r \in Job /\ r.err = err
  BY NoJobType DEF NoJob
<1>5. r = [NoJob EXCEPT !.err = r.err]
  BY <1>4
<1> HIDE DEF m, r
<1>6. AtRest(h, r, s, k, d)
  BY <1>5 DEF AtRest, Rests
<1>7. Correct(h, r, Nothing, s, k, d)
  BY <1>4, <1>6, NothingType DEF Correct, Known
<1>8. Correct(next.file, Returned(next.job), next.sent, s, k, d)
  <2> HIDE DEF next
  <2> QED BY <1>1, <1>3, <1>7
<1> QED BY <1>8 DEF Outcome

\* A read or a write that ends with success, and a close that ends
LEMMA EndedWell ==
    ASSUME NEW h \in File, NEW j \in Job, NEW s \in Store, NEW k \in Known, NEW d \in Doubts,
           NEW err \in BOOLEAN,
           \/ j.cmd = "read" /\ ~err /\ Rests(h, s, k, d) /\ ReadDone(h, j, k, d)
           \/ j.cmd \in {"write", "zero"} /\ ~err /\ Rests(h, s, k, d)
           \/ /\ j.cmd = "close" /\ (h.open => ~h.lost)
              /\ ~err => ~h.open /\ CloseDone(h, s, k)
    PROVE  Outcome(Finished(h, j, err), s, k, d)
<1> DEFINE next == Finished(h, j, err)
           m == [j EXCEPT !.state = "finished", !.err = err]
<1>1. next.file = h /\ next.sent = Nothing /\ next.job = m /\ m \in Job
  BY DEF Finished, Left, Job, States
<1>2. /\ m.state = "finished" /\ m.cmd = j.cmd /\ m.err = err
      /\ m.offset = j.offset /\ m.length = j.length /\ m.got = j.got
  BY DEF Job
<1>3. Returned(m) = m
  BY <1>2 DEF Returned
<1> HIDE DEF m
<1>4. AtRest(h, m, s, k, d)
  <2>1. CASE j.cmd = "read" /\ ~err /\ Rests(h, s, k, d) /\ ReadDone(h, j, k, d)
    <3>1. ReadDone(h, m, k, d)
      BY <1>2, <2>1 DEF ReadDone
    <3> QED BY <1>2, <2>1, <3>1 DEF AtRest, Rests
  <2>2. CASE j.cmd \in {"write", "zero"} /\ ~err /\ Rests(h, s, k, d)
    BY <1>2, <2>2 DEF AtRest, Rests
  <2>3. CASE /\ j.cmd = "close" /\ (h.open => ~h.lost)
             /\ ~err => ~h.open /\ CloseDone(h, s, k)
    BY <1>2, <2>3 DEF AtRest
  <2> QED BY <2>1, <2>2, <2>3
<1>5. Correct(h, m, Nothing, s, k, d)
  BY <1>1, <1>4, NothingType DEF Correct, Known
<1>6. Correct(next.file, Returned(next.job), next.sent, s, k, d)
  <2> HIDE DEF next
  <2> QED BY <1>1, <1>3, <1>5
<1> QED BY <1>6 DEF Outcome

-----------------------------------------------------------------------------
(* Reading                                                                 *)

\* A handle that a request can be sent for
Usable(h) == h.open /\ ~h.lost /\ Fits(h)

\* An operation that reads part of a file, and has got nothing yet
Reads(h, j) ==
    /\ j.cmd = "read" /\ ~j.err /\ j.got = <<>> /\ j.length # 0
    /\ j.offset < h.extent /\ j.offset + j.length <= MaxSize

\* The remote file is at the place to be read.
LEMMA ReadAsked ==
    ASSUME NEW h \in File, NEW j \in Job, NEW s \in Store, NEW k \in Known, NEW d \in Doubts,
           Usable(h), Reads(h, j), "position" \notin d => s.pos = j.offset, Kept(h, s, k, d)
    PROVE  Outcome(Request([h EXCEPT !.sequential = j.offset], j, "done", "read",
                           Minimum(j.length, h.extent - j.offset)), s, k, d)
<1> DEFINE g == [h EXCEPT !.sequential = j.offset]
           m == [j EXCEPT !.state = "done"]
           n == Minimum(j.length, h.extent - j.offset)
           q == [op |-> "read", length |-> n, done |-> 0]
<1>1. /\ j.offset \in Nat /\ j.length \in Nat /\ h.extent \in Nat /\ h.allocated \in Nat
      /\ j.offset < h.extent /\ j.length # 0
  BY DEF Job, File, Reads
<1>2. n \in Nat /\ n > 0
  BY <1>1 DEF Minimum
<1>3. /\ g \in File /\ g.open = h.open /\ g.lost = h.lost /\ g.extent = h.extent
      /\ g.allocated = h.allocated /\ g.simulated = h.simulated /\ g.sequential = j.offset
  BY <1>1 DEF File
<1>4. /\ m.cmd = j.cmd /\ m.err = j.err /\ m.got = j.got /\ m.offset = j.offset
      /\ m.length = j.length /\ m.state = "done"
  BY DEF Job
<1>5. q.op = "read" /\ q.length = n /\ q.done = 0
  OBVIOUS
<1> HIDE DEF g, m, q
<1>6. Fits(g)
  BY <1>1, <1>3 DEF Usable, Fits, File
<1>7. Got(m, s) /\ Len(m.got) = 0
  BY <1>4 DEF Got, Reads
<1>12. Kept(g, s, k, d) /\ ("position" \notin d => s.pos = m.offset + q.done)
  BY <1>1, <1>3, <1>4, <1>5 DEF Kept
<1>8. q.length = Minimum(m.length, g.extent - m.offset)
  BY <1>3, <1>4, <1>5
<1> HIDE DEF n
<1>9. Reading(g, m, q, s, k, d)
  BY <1>1, <1>2, <1>3, <1>4, <1>5, <1>7, <1>8, <1>12 DEF Reading, Reads
<1>10. Underway(g, m, q, s, k, d)
  BY <1>3, <1>4, <1>6, <1>9 DEF Underway, Usable, Reads
<1>11. Outcome(Request(g, j, "done", "read", n), s, k, d)
  BY <1>2, <1>3, <1>10, Requested DEF States, m, q
<1> QED BY <1>11 DEF g, n

\* An operation that a client has just asked for
New(j) ==
    j.state = "initial" /\ j.got = <<>> /\ ~j.err /\ j.offset + j.length <= MaxSize

LEMMA FileFields ==
    ASSUME NEW h \in File
    PROVE  /\ h.extent \in Nat /\ h.allocated \in Nat /\ h.sequential \in Nat /\ h.simulated \in Nat
           /\ h.open \in BOOLEAN /\ h.lost \in BOOLEAN /\ h.write \in BOOLEAN
BY DEF File

\* A read returns as many bytes as it was asked for.
LEMMA PaddedFacts ==
    ASSUME NEW j \in Job
    PROVE  /\ Padded(j) \in Job /\ Padded(j).cmd = j.cmd /\ Padded(j).offset = j.offset
           /\ Padded(j).length = j.length
           /\ \A i \in 1 .. j.length :
                 Padded(j).got[i] = IF i <= Len(j.got) THEN j.got[i] ELSE Zero
<1> DEFINE new == [i \in 1 .. j.length |-> IF i <= Len(j.got) THEN j.got[i] ELSE Zero]
           p == [j EXCEPT !.got = new]
<1>1. j.got \in Seq(Byte) /\ j.length \in Nat /\ Zero \in Byte
  BY DEF Job, Byte
<1>2. \A i \in 1 .. j.length : (IF i <= Len(j.got) THEN j.got[i] ELSE Zero) \in Byte
  BY <1>1
<1>3. new \in [1 .. j.length -> Byte]
  BY <1>2
<1>4. new \in Seq(Byte)
  BY <1>1, <1>3
<1>5. \A i \in 1 .. j.length : new[i] = IF i <= Len(j.got) THEN j.got[i] ELSE Zero
  OBVIOUS
<1>6. Padded(j) = p
  BY DEF Padded
<1> HIDE DEF new
<1>7. p \in Job /\ p.cmd = j.cmd /\ p.offset = j.offset /\ p.length = j.length /\ p.got = new
  BY <1>4 DEF Job
<1> QED BY <1>5, <1>6, <1>7

LEMMA ReadStarts ==
    ASSUME NEW h \in File, NEW j \in Job, NEW s \in Store, NEW k \in Known, NEW d \in Doubts,
           Usable(h), Fresh(h, s, k, d), New(j), j.cmd = "read"
    PROVE  Outcome(OpRead(h, j, FALSE), s, k, d)
<1>1. j.offset \in Nat /\ j.length \in Nat /\ h.extent \in Nat
  BY DEF Job, File
<1>2. Rests(h, s, k, d)
  BY DEF Usable, Rests
<1>3. CASE h.extent <= j.offset \/ j.length = 0
  <2> DEFINE p == Padded(j)
  <2>1. /\ p \in Job /\ p.cmd = "read" /\ p.offset = j.offset /\ p.length = j.length
        /\ \A i \in 1 .. j.length : p.got[i] = Zero
    <3>1. Len(j.got) = 0
      BY DEF New
    <3> QED BY <1>1, <3>1, PaddedFacts
  <2>2. OpRead(h, j, FALSE) = Finished(h, p, FALSE)
    BY <1>3 DEF OpRead
  <2> HIDE DEF p
  <2>3. ASSUME NEW i \in p.offset .. p.offset + p.length - 1
        PROVE  p.got[i - p.offset + 1] = Zero /\ ~(i < h.extent)
    <3>1. i \in Int /\ i >= j.offset /\ i < j.offset + j.length
      BY <1>1, <2>1
    <3>2. i - j.offset + 1 \in 1 .. j.length
      BY <1>1, <3>1
    <3>3. ~(i < h.extent)
      BY <1>1, <1>3, <3>1
    <3> QED BY <2>1, <3>2, <3>3
  <2>4. ReadDone(h, p, k, d)
    BY <2>3 DEF ReadDone
  <2> QED BY <1>2, <2>1, <2>2, <2>4, EndedWell
<1>4. CASE ~(h.extent <= j.offset \/ j.length = 0)
  <2>1. Reads(h, j)
    BY <1>1, <1>4 DEF Reads, New
  <2>2. CASE j.offset = h.sequential
    <3>1. OpRead(h, j, FALSE) = Request([h EXCEPT !.sequential = j.offset], j, "done", "read",
                                        Minimum(j.length, h.extent - j.offset))
      BY <1>4, <2>2 DEF OpRead, New
    <3> QED BY <2>1, <2>2, <3>1, ReadAsked DEF Fresh
  <2>3. CASE j.offset # h.sequential
    <3> DEFINE m == [j EXCEPT !.state = "read"]
               q == [op |-> "seek", length |-> j.offset, done |-> 0]
    <3>1. OpRead(h, j, FALSE) = Request(h, j, "read", "seek", j.offset)
      BY <1>4, <2>3 DEF OpRead, New
    <3>2. /\ m.cmd = j.cmd /\ m.err = j.err /\ m.got = j.got /\ m.offset = j.offset
          /\ m.length = j.length /\ m.state = "read"
      BY DEF Job
    <3>3. q.op = "seek" /\ q.length = j.offset /\ q.done = 0
      OBVIOUS
    <3> HIDE DEF m, q
    <3>4. Reading(h, m, q, s, k, d)
      BY <1>1, <2>1, <3>2, <3>3 DEF Reading, Reads
    <3>5. Underway(h, m, q, s, k, d)
      BY <3>2, <3>4 DEF Underway, Usable, New
    <3>6. Outcome(Request(h, j, "read", "seek", j.offset), s, k, d)
      BY <1>1, <3>5, Requested DEF States, m, q
    <3> QED BY <3>1, <3>6
  <2> QED BY <2>2, <2>3
<1> QED BY <1>3, <1>4

\* The remote file server has moved to the place that is to be read.
LEMMA ReadSought ==
    ASSUME NEW h \in File, NEW j \in Job, NEW s \in Store, NEW k \in Known, NEW d \in Doubts,
           Usable(h), Reads(h, j), j.state = "read", "position" \notin d => s.pos = j.offset,
           Kept(h, s, k, d)
    PROVE  Outcome(OpRead(h, j, TRUE), s, k, d)
<1>1. j.offset \in Nat /\ j.length \in Nat /\ h.extent \in Nat
  BY DEF Job, File
<1>2. ~(h.extent <= j.offset \/ j.length = 0)
  BY <1>1 DEF Reads
<1>3. OpRead(h, j, TRUE) = Request([h EXCEPT !.sequential = j.offset], j, "done", "read",
                                   Minimum(j.length, h.extent - j.offset))
  BY <1>2 DEF OpRead
<1> QED BY <1>3, ReadAsked

\* It has read all that was asked for, or all that there is.
LEMMA ReadFinishes ==
    ASSUME NEW h \in File, NEW j \in Job, NEW s \in Store, NEW k \in Known, NEW d \in Doubts,
           Usable(h), j.cmd = "read", j.state = "done", j.offset < h.extent, j.length # 0,
           j.offset + j.length <= MaxSize, MaxSize \in Nat,
           h.sequential = j.offset, Kept(h, s, k, d),
           Len(j.got) <= Minimum(j.length, h.extent - j.offset),
           "position" \notin d =>
              /\ s.pos = j.offset + Len(j.got) /\ Got(j, s)
              /\ Len(j.got) >= Minimum(j.length, h.extent - j.offset) \/ Len(s.data) <= s.pos
    PROVE  Outcome(OpRead(h, j, TRUE), s, k, d)
<1> DEFINE g == [h EXCEPT !.sequential = @ + Len(j.got)]
           p == Padded(j)
<1>1. /\ j.offset \in Nat /\ j.length \in Nat /\ j.got \in Seq(Byte) /\ Len(j.got) \in Nat
      /\ s.data \in Seq(Byte) /\ Len(s.data) \in Nat /\ h.extent \in Nat
  BY FileFields DEF Job, Store
<1>2. OpRead(h, j, TRUE) = Finished(g, p, FALSE)
  <2>1. ~(h.extent <= j.offset \/ j.length = 0)
    BY <1>1, FileFields
  <2> QED BY <2>1 DEF OpRead
<1>3. /\ g \in File /\ g.open = h.open /\ g.lost = h.lost /\ g.extent = h.extent
      /\ g.allocated = h.allocated /\ g.simulated = h.simulated
      /\ g.sequential = j.offset + Len(j.got)
  <2>1. h.sequential + Len(j.got) \in Nat /\ h.sequential + Len(j.got) = j.offset + Len(j.got)
    BY <1>1
  <2> DEFINE n == h.sequential + Len(j.got)
  <2>2. g = [h EXCEPT !.sequential = n]
    OBVIOUS
  <2> HIDE DEF n, g
  <2> QED BY <2>1, <2>2 DEF File, n
<1>8. /\ p \in Job /\ p.cmd = j.cmd /\ p.offset = j.offset /\ p.length = j.length
      /\ \A i \in 1 .. j.length : p.got[i] = IF i <= Len(j.got) THEN j.got[i] ELSE Zero
  BY PaddedFacts
<1> HIDE DEF g, p
<1>9. j.offset + Len(j.got) <= h.extent /\ Len(j.got) <= j.length
  BY <1>1 DEF Minimum
<1>4. j.offset + Len(j.got) <= h.allocated
  BY <1>1, <1>9, FileFields DEF Usable, Fits
<1>5. Rests(g, s, k, d)
  BY <1>3, <1>4 DEF Rests, Usable, Fits, Fresh, Kept
<1>6. ASSUME NEW i \in p.offset .. p.offset + p.length - 1, i < g.extent, k[i] # Unknown,
             "position" \notin d
      PROVE  p.got[i - p.offset + 1] = k[i]
  <2>1. i \in Positions /\ i \in Nat /\ i >= j.offset /\ i < j.offset + j.length /\ i < h.extent
    BY <1>1, <1>3, <1>6, <1>8 DEF Positions
  <2>2. i < Len(s.data) /\ s.data[i + 1] = k[i]
    BY <1>6, <2>1 DEF Kept, Held, Holds
  <2>3. i < j.offset + Len(j.got)
    <3>1. CASE Len(s.data) <= s.pos
      BY <1>1, <1>6, <2>1, <2>2, <3>1
    <3>2. CASE Len(j.got) >= Minimum(j.length, h.extent - j.offset)
      <4>1. \A o, l, e, c \in Nat : \A x \in Nat :
               x < e /\ x < o + l /\ o < e /\ c >= Minimum(l, e - o) => x < o + c
        BY DEF Minimum
      <4> QED BY <1>1, <2>1, <3>2, <4>1
    <3> QED BY <1>6, <3>1, <3>2
  <2>4. i - j.offset + 1 \in 1 .. Len(j.got) /\ j.offset + (i - j.offset + 1) = i + 1
    BY SMTT(30), <1>1, <2>1, <2>3
  <2>5. j.got[i - j.offset + 1] = s.data[i + 1]
    BY <1>6, <2>4 DEF Got
  <2>6. i - j.offset + 1 \in 1 .. j.length /\ i - j.offset + 1 <= Len(j.got)
    BY <1>1, <1>9, <2>4
  <2>7. p.got[i - j.offset + 1] = j.got[i - j.offset + 1]
    BY <1>8, <2>6
  <2> QED BY <1>8, <2>2, <2>5, <2>7
<1>10. ASSUME NEW i \in p.offset .. p.offset + p.length - 1, i >= g.extent
       PROVE  p.got[i - p.offset + 1] = Zero
  <2>1. i \in Int /\ i >= j.offset /\ i < j.offset + j.length /\ i >= h.extent
    BY <1>1, <1>3, <1>8, <1>10
  <2>2. i - j.offset + 1 \in 1 .. j.length /\ ~(i - j.offset + 1 <= Len(j.got))
    BY SMTT(30), <1>1, <1>9, <2>1
  <2> QED BY <1>8, <2>2
<1>7. ReadDone(g, p, k, d)
  BY <1>6, <1>10 DEF ReadDone
<1> QED BY <1>2, <1>3, <1>5, <1>7, <1>8, EndedWell

-----------------------------------------------------------------------------
(* Writing                                                                 *)

\* The handle after the size of the remote file was set
LEMMA ResizedFacts ==
    ASSUME NEW h \in File, NEW extent \in Nat, NEW size \in Nat,
           h.sequential <= h.allocated, h.allocated <= size, extent <= size
    PROVE  LET r == Resized(h, extent, size) IN
           /\ r \in File /\ Fits(r) /\ r.extent = extent /\ r.allocated = size
           /\ r.sequential = h.sequential
           /\ r.open = h.open /\ r.lost = h.lost /\ r.write = h.write
<1> DEFINE g == [h EXCEPT !.extent = extent, !.allocated = size]
           p == Minimum(g.sequential, g.allocated)
           m == Minimum(g.simulated, g.extent)
           r == [g EXCEPT !.sequential = p, !.simulated = m]
<1>1. /\ g \in File /\ g.extent = extent /\ g.allocated = size /\ g.sequential = h.sequential
      /\ g.open = h.open /\ g.lost = h.lost /\ g.write = h.write
  BY DEF File
<1>2. Resized(h, extent, size) = r
  BY DEF Resized, Check
<1> HIDE DEF g
<1>3. p = h.sequential /\ p \in Nat
  BY <1>1, FileFields DEF Minimum
<1>4. m \in Nat /\ m <= extent
  BY <1>1, FileFields DEF Minimum
<1> HIDE DEF p, m
<1>5. /\ r \in File /\ r.extent = g.extent /\ r.allocated = g.allocated /\ r.sequential = p
      /\ r.simulated = m /\ r.open = g.open /\ r.lost = g.lost /\ r.write = g.write
  BY <1>1, <1>3, <1>4 DEF File
<1> HIDE DEF r
<1>6. Fits(r)
  BY <1>1, <1>3, <1>4, <1>5, FileFields DEF Fits
<1> QED BY <1>1, <1>2, <1>3, <1>5, <1>6

\* The remote file after its size was set
SetSize(s, n) == [s EXCEPT !.data = Sized(@, n)]

LEMMA SetSizeFacts ==
    ASSUME NEW s \in Store, NEW n \in Nat
    PROVE  /\ SetSize(s, n) \in Store /\ Len(SetSize(s, n).data) = n /\ SetSize(s, n).pos = s.pos
           /\ \A i \in Positions : i < n => \A x : Holds(s, i, x) => Holds(SetSize(s, n), i, x)
<1> DEFINE d == Sized(s.data, n)
           t == [s EXCEPT !.data = d]
<1>1. s.data \in Seq(Byte) /\ Len(s.data) \in Nat
  BY DEF Store
<1>2. /\ d \in Seq(Byte) /\ Len(d) = n
      /\ \A i \in 1 .. n : i <= Len(s.data) => d[i] = s.data[i]
  BY <1>1, SizedFacts
<1> HIDE DEF d
<1>3. t \in Store /\ t.data = d /\ t.pos = s.pos
  BY <1>2 DEF Store
<1>4. SetSize(s, n) = t
  BY DEF SetSize, d
<1> HIDE DEF t
<1>5. ASSUME NEW i \in Positions, i < n, NEW x, Holds(s, i, x)
      PROVE  Holds(t, i, x)
  <2>1. i < Len(s.data) /\ s.data[i + 1] = x
    BY <1>5 DEF Holds
  <2>2. i \in Int /\ i >= 0
    BY DEF Positions
  <2>3. i + 1 \in 1 .. n /\ i + 1 <= Len(s.data)
    BY <1>1, <1>5, <2>1, <2>2
  <2> QED BY <1>1, <1>2, <1>3, <1>5, <2>1, <2>2, <2>3 DEF Holds
<1> QED BY <1>2, <1>3, <1>4, <1>5

\* An operation that writes to a part of the file
Writes(h, j) ==
    /\ j.cmd \in {"write", "zero"} /\ ~j.err /\ j.length # 0 /\ h.write
    /\ j.offset + j.length <= MaxSize

\* The remote file is large enough, and at the place to be written.
LEMMA WriteAsked ==
    ASSUME NEW h \in File, NEW j \in Job, NEW s \in Store, NEW k \in Known, NEW d \in Doubts,
           Usable(h), Writes(h, j), j.offset + j.length <= h.allocated,
           "position" \notin d => s.pos = j.offset, Kept(h, s, k, d)
    PROVE  Outcome(WriteBytes(h, j), s, k, d)
<1> DEFINE g == [h EXCEPT !.sequential = j.offset]
           m == [j EXCEPT !.state = "done"]
           q == [op |-> "write", length |-> j.length, done |-> 0]
<1>1. j.offset \in Nat /\ j.length \in Nat /\ j.length # 0
  BY DEF Job, Writes
<1>2. /\ g \in File /\ g.open = h.open /\ g.lost = h.lost /\ g.extent = h.extent
      /\ g.allocated = h.allocated /\ g.simulated = h.simulated /\ g.sequential = j.offset
      /\ g.write = h.write
  BY <1>1 DEF File
<1>3. /\ m.cmd = j.cmd /\ m.err = j.err /\ m.offset = j.offset /\ m.value = j.value
      /\ m.length = j.length /\ m.state = "done"
  BY DEF Job
<1>4. q.op = "write" /\ q.length = j.length /\ q.done = 0
  OBVIOUS
<1> HIDE DEF g, m, q
<1>5. Fits(g)
  BY <1>1, <1>2, FileFields DEF Usable, Fits
<1>6. Begun(m, q.done, s, k)
  <2> SUFFICES ASSUME NEW i \in Positions
               PROVE  /\ i < m.offset \/ i >= m.offset + q.done
                      /\ k[i] # Unknown => Holds(s, i, k[i])
    BY DEF Begun
  <2> QED BY <1>1, <1>3, <1>4 DEF Positions, Kept, Held
<1>10. /\ "size" \notin d => Len(s.data) <= g.allocated
       /\ Within(g.allocated, k) /\ Held(s, k)
       /\ "position" \notin d => s.pos = m.offset + q.done
  BY <1>1, <1>2, <1>3, <1>4 DEF Kept
<1>7. Writing(g, m, q, s, k, d)
  BY <1>1, <1>2, <1>3, <1>4, <1>6, <1>10 DEF Writing, Writes
<1>8. Underway(g, m, q, s, k, d)
  BY <1>2, <1>3, <1>5, <1>7 DEF Underway, Usable, Writes
<1>9. Outcome(Request(g, j, "done", "write", j.length), s, k, d)
  BY <1>1, <1>2, <1>8, Requested DEF States, m, q
<1> QED BY <1>9 DEF g, WriteBytes

\* The remote file is large enough.
LEMMA WritePlaced ==
    ASSUME NEW h \in File, NEW j \in Job, NEW s \in Store, NEW k \in Known, NEW d \in Doubts,
           Usable(h), Writes(h, j), j.offset + j.length <= h.allocated, Fresh(h, s, k, d)
    PROVE  Outcome(Resize(h, j), s, k, d)
<1>1. CASE j.offset = h.sequential
  <2>1. Resize(h, j) = WriteBytes(h, j)
    BY <1>1 DEF Resize
  <2> QED BY <1>1, <2>1, WriteAsked DEF Fresh
<1>2. CASE j.offset # h.sequential
  <2> DEFINE m == [j EXCEPT !.state = "write"]
             q == [op |-> "seek", length |-> j.offset, done |-> 0]
  <2>1. Resize(h, j) = Request(h, j, "write", "seek", j.offset)
    BY <1>2 DEF Resize
  <2>2. /\ m.cmd = j.cmd /\ m.err = j.err /\ m.offset = j.offset /\ m.value = j.value
        /\ m.length = j.length /\ m.state = "write"
    BY DEF Job
  <2>3. q.op = "seek" /\ q.length = j.offset /\ q.done = 0
    OBVIOUS
  <2> HIDE DEF m, q
  <2>4. Writing(h, m, q, s, k, d)
    BY <2>2, <2>3 DEF Writing, Writes
  <2>5. Underway(h, m, q, s, k, d)
    BY <2>2, <2>4 DEF Underway, Usable, Writes
  <2>6. j.offset \in Nat
    BY DEF Job
  <2>7. Outcome(Request(h, j, "write", "seek", j.offset), s, k, d)
    BY <2>5, <2>6, Requested DEF States, m, q
  <2> QED BY <2>1, <2>7
<1> QED BY <1>1, <1>2

LEMMA WriteStarts ==
    ASSUME CacheFileParameters, NEW h \in File, NEW j \in Job, NEW s \in Store, NEW k \in Known, NEW d \in Doubts,
           Usable(h), Fresh(h, s, k, d), New(j), j.cmd \in {"write", "zero"}, j.length # 0
    PROVE  Outcome(OpWrite(h, j, FALSE), s, k, d)
<1> DEFINE end == j.offset + j.length
<1>1. end \in Nat
  BY DEF Job
<1>2. CASE ~h.write
  <2>1. OpWrite(h, j, FALSE) = Finished(h, j, TRUE)
    BY <1>2 DEF OpWrite
  <2> QED BY <2>1, Ended DEF Rests, Usable
<1>3. CASE h.write /\ h.allocated < end
  <2> DEFINE n == Round(end)
             m == [j EXCEPT !.state = "resize"]
             q == [op |-> "size", length |-> n, done |-> 0]
  <2>1. OpWrite(h, j, FALSE) = Request(h, j, "resize", "size", n)
    BY <1>3 DEF OpWrite, New
  <2>2. /\ m.cmd = j.cmd /\ m.err = j.err /\ m.offset = j.offset /\ m.value = j.value
        /\ m.length = j.length /\ m.state = "resize"
    BY DEF Job
  <2>3. q.op = "size" /\ q.length = n /\ q.done = 0
    OBVIOUS
  <2>4. n \in Nat
    BY <1>1, RoundFacts
  <2>5. n = Round(m.offset + m.length)
    BY <2>2
  <2> HIDE DEF m, q, n
  <2>6. Writing(h, m, q, s, k, d)
    BY <1>3, <2>2, <2>3, <2>5 DEF Writing, New
  <2>7. Underway(h, m, q, s, k, d)
    BY <2>2, <2>6 DEF Underway, Usable, New
  <2>8. Outcome(Request(h, j, "resize", "size", n), s, k, d)
    BY <2>4, <2>7, Requested DEF States, m, q
  <2> QED BY <2>1, <2>8
<1>4. CASE h.write /\ ~(h.allocated < end)
  <2>1. OpWrite(h, j, FALSE) = Resize(h, j)
    BY <1>4 DEF OpWrite, New
  <2>2. Writes(h, j) /\ end <= h.allocated
    BY <1>1, <1>4, FileFields DEF Writes, New
  <2> QED BY <2>1, <2>2, WritePlaced
<1> QED BY <1>2, <1>3, <1>4

LEMMA WithinMore ==
    ASSUME NEW m \in Nat, NEW n \in Nat, NEW k, m <= n, Within(m, k)
    PROVE  Within(n, k)
<1>1. \A i \in Positions : i \in Int
  BY DEF Positions
<1> QED BY <1>1 DEF Within

\* The remote file has been given its new size.
LEMMA WriteSized ==
    ASSUME CacheFileParameters, NEW h \in File, NEW j \in Job, NEW s \in Store, NEW k \in Known, NEW d \in Doubts,
           Usable(h), Writes(h, j), j.state = "resize", h.allocated < j.offset + j.length,
           "position" \notin d => s.pos = h.sequential,
           Len(s.data) = Round(j.offset + j.length), Held(s, k), Within(h.allocated, k)
    PROVE  Outcome(OpWrite(h, j, TRUE), s, k, d)
<1> DEFINE end == j.offset + j.length
           r == Resized(h, end, Round(end))
<1>1. end \in Nat /\ Round(end) \in Nat /\ end <= Round(end)
  <2>1. end \in Nat
    BY DEF Job
  <2> HIDE DEF end
  <2> QED BY <2>1, RoundFacts
<1>2. h.sequential <= h.allocated /\ h.allocated <= Round(end)
  <2>1. h.allocated \in Nat /\ h.allocated < end
    BY FileFields
  <2> HIDE DEF end
  <2> QED BY <1>1, <2>1 DEF Usable, Fits
<1>3. OpWrite(h, j, TRUE) = Resize(r, j)
  BY DEF OpWrite, Writes
<1>4. /\ r \in File /\ Fits(r) /\ r.allocated = Round(end) /\ r.sequential = h.sequential
      /\ r.open = h.open /\ r.lost = h.lost /\ r.write = h.write
  <2> HIDE DEF end
  <2> QED BY <1>1, <1>2, ResizedFacts
<1> HIDE DEF r
<1>5. Usable(r) /\ Writes(r, j)
  BY <1>4 DEF Usable, Writes
<1>6. Fresh(r, s, k, d)
  <2>1. Len(s.data) <= r.allocated
    BY <1>1, <1>4
  <2>2. Within(r.allocated, k)
    BY <1>1, <1>2, <1>4, FileFields, WithinMore
  <2> QED BY <1>4, <2>1, <2>2 DEF Fresh, Kept
<1>7. end <= r.allocated
  BY <1>1, <1>4
<1> QED BY <1>3, <1>4, <1>5, <1>6, <1>7, WritePlaced

LEMMA WriteSought ==
    ASSUME NEW h \in File, NEW j \in Job, NEW s \in Store, NEW k \in Known, NEW d \in Doubts,
           Usable(h), Writes(h, j), j.state = "write", j.offset + j.length <= h.allocated,
           "position" \notin d => s.pos = j.offset, Kept(h, s, k, d)
    PROVE  Outcome(OpWrite(h, j, TRUE), s, k, d)
<1>1. OpWrite(h, j, TRUE) = WriteBytes(h, j)
  BY DEF OpWrite, Writes
<1> QED BY <1>1, WriteAsked

\* What is known after an operation, when no bytes go astray
Learnt(j, k) ==
    IF j.cmd \in {"write", "zero"} /\ j.state = "finished"
    THEN [i \in Positions |-> IF i < j.offset \/ i >= j.offset + j.length THEN k[i]
                              ELSE IF j.err THEN Unknown ELSE j.value]
    ELSE k

LEMMA LearntType ==
    ASSUME NEW j \in Job, NEW k \in Known
    PROVE  Learnt(j, k) \in Known
<1>1. j.value \in Byte
  BY DEF Job
<1>2. \A i \in Positions :
         (IF i < j.offset \/ i >= j.offset + j.length THEN k[i]
          ELSE IF j.err THEN Unknown ELSE j.value) \in Byte \cup {Unknown}
  BY <1>1 DEF Known
<1> QED BY <1>2 DEF Known, Learnt

LEMMA BlankFacts ==
    NothingKnown \in Known /\ (\A s : Held(s, NothingKnown)) /\ (\A n : Within(n, NothingKnown))
BY DEF NothingKnown, Known, Held, Within

\* A write under way, and what is left of it when it is over
LEMMA WriteOver ==
    ASSUME NEW h \in File, NEW j \in Job,
           Writes(h, j), j.state = "done", h.sequential = j.offset
    PROVE  LET g == [h EXCEPT !.sequential = @ + j.length] IN
           /\ OpWrite(h, j, TRUE) = Finished(g, j, FALSE)
           /\ g \in File /\ g.open = h.open /\ g.lost = h.lost /\ g.extent = h.extent
           /\ g.allocated = h.allocated /\ g.simulated = h.simulated
           /\ g.sequential = j.offset + j.length
           /\ LET m == Finished(g, j, FALSE).job IN
              /\ m \in Job /\ m.cmd = j.cmd /\ m.state = "finished" /\ ~m.err
              /\ m.offset = j.offset /\ m.length = j.length /\ m.value = j.value
<1> DEFINE g == [h EXCEPT !.sequential = @ + j.length]
           next == Finished(g, j, FALSE)
           n == h.sequential + j.length
<1>1. j.offset \in Nat /\ j.length \in Nat /\ n \in Nat /\ n = j.offset + j.length
  BY DEF Job
<1>2. g = [h EXCEPT !.sequential = n]
  OBVIOUS
<1>3. OpWrite(h, j, TRUE) = next
  BY DEF OpWrite, Writes
<1>4. /\ g \in File /\ g.open = h.open /\ g.lost = h.lost /\ g.extent = h.extent
      /\ g.allocated = h.allocated /\ g.simulated = h.simulated
      /\ g.sequential = j.offset + j.length
  <2> HIDE DEF n, g
  <2> QED BY <1>1, <1>2 DEF File
<1> HIDE DEF g
<1>5. /\ next.job \in Job /\ next.job.cmd = j.cmd /\ next.job.state = "finished"
      /\ ~next.job.err /\ next.job.offset = j.offset /\ next.job.length = j.length
      /\ next.job.value = j.value
  BY DEF Finished, Left, Job, States
<1> HIDE DEF next
<1> QED BY <1>3, <1>4, <1>5 DEF next, g

\* All the bytes have been written, and are known.
LEMMA WriteFinishes ==
    ASSUME NEW h \in File, NEW j \in Job, NEW s \in Store, NEW l \in Known, NEW d \in Doubts,
           Usable(h), Writes(h, j), j.state = "done", j.offset + j.length <= h.allocated,
           h.sequential = j.offset, "position" \notin d => s.pos = j.offset + j.length,
           Kept(h, s, l, d)
    PROVE  Outcome(OpWrite(h, j, TRUE), s, l, d)
<1> DEFINE g == [h EXCEPT !.sequential = @ + j.length]
<1>1. /\ OpWrite(h, j, TRUE) = Finished(g, j, FALSE)
      /\ g \in File /\ g.open = h.open /\ g.lost = h.lost /\ g.extent = h.extent
      /\ g.allocated = h.allocated /\ g.simulated = h.simulated
      /\ g.sequential = j.offset + j.length
  BY WriteOver
<1> HIDE DEF g
<1>2. Rests(g, s, l, d)
  BY <1>1 DEF Rests, Usable, Fits, Fresh, Kept
<1> QED BY <1>1, <1>2, EndedWell DEF Writes

-----------------------------------------------------------------------------
(* Sizes and the pointer                                                   *)

\* A larger size is asked for.
LEMMA SizeAsked ==
    ASSUME NEW h \in File, NEW j \in Job, NEW s \in Store, NEW k \in Known, NEW d \in Doubts, NEW n \in Nat,
           Usable(h), Fresh(h, s, k, d), New(j), h.write, h.allocated < n,
           \/ j.cmd \in {"allocated", "extent"} /\ n = Round(j.length)
           \/ j.cmd = "sequential" /\ n = Round(j.offset) /\ h.extent < j.offset
    PROVE  Outcome(Request(h, j, "initial", "size", n), s, k, d)
<1> DEFINE m == [j EXCEPT !.state = "initial"]
           q == [op |-> "size", length |-> n, done |-> 0]
<1>1. /\ m.cmd = j.cmd /\ m.err = j.err /\ m.offset = j.offset
      /\ m.length = j.length /\ m.state = "initial"
  BY DEF Job
<1>2. q.op = "size" /\ q.length = n /\ q.done = 0
  OBVIOUS
<1> HIDE DEF m, q
<1>3. Arranging(h, m, q, s, k, d)
  BY <1>1, <1>2 DEF Arranging
<1>4. Underway(h, m, q, s, k, d)
  BY <1>1, <1>3 DEF Underway, Usable, New
<1> QED BY <1>4, Requested DEF States, m, q

\* The handle takes the sizes a and e when the remote file has them.
LEMMA Arranged ==
    ASSUME NEW h \in File, NEW j \in Job, NEW s \in Store, NEW k \in Known, NEW d \in Doubts,
           NEW e \in Nat, NEW a \in Nat,
           ~h.lost, h.sequential <= h.allocated, h.allocated <= a, e <= a,
           "position" \notin d => s.pos = h.sequential, "size" \notin d => Len(s.data) <= a,
           Held(s, k), Within(h.allocated, k),
           j.cmd \notin {"read", "write", "zero", "close"}
    PROVE  Outcome(Finished(Resized(h, e, a), j, FALSE), s, k, d)
<1> DEFINE r == Resized(h, e, a)
<1>1. /\ r \in File /\ Fits(r) /\ r.allocated = a /\ r.sequential = h.sequential
      /\ r.open = h.open /\ r.lost = h.lost
  BY ResizedFacts
<1> HIDE DEF r
<1>4. Within(r.allocated, k)
  BY <1>1, FileFields, WithinMore
<1>2. Rests(r, s, k, d)
  BY <1>1, <1>4 DEF Rests, Fresh, Kept
<1>3. Outcome(Finished(r, j, FALSE), s, k, d)
  BY <1>1, <1>2, Ended
<1> QED BY <1>3 DEF r

LEMMA AllocatedStarts ==
    ASSUME CacheFileParameters, NEW h \in File, NEW j \in Job, NEW s \in Store, NEW k \in Known, NEW d \in Doubts,
           Usable(h), Fresh(h, s, k, d), New(j), j.cmd = "allocated"
    PROVE  Outcome(OpAllocated(h, j, FALSE), s, k, d)
<1> DEFINE n == Round(j.length)
<1>1. n \in Nat
  BY RoundFacts DEF Job
<1>2. Rests(h, s, k, d)
  BY DEF Rests, Usable
<1>3. CASE ~h.write
  <2>1. OpAllocated(h, j, FALSE) = Finished(h, j, TRUE)
    BY <1>3 DEF OpAllocated
  <2> QED BY <1>2, <2>1, Ended
<1>4. CASE h.write /\ h.allocated < n
  <2>1. OpAllocated(h, j, FALSE) = Request(h, j, "initial", "size", n)
    BY <1>4 DEF OpAllocated, Grow
  <2> HIDE DEF n
  <2>2. n = Round(j.length)
    BY DEF n
  <2> QED BY <1>1, <1>4, <2>1, <2>2, SizeAsked
<1>5. CASE h.write /\ ~(h.allocated < n)
  <2>1. OpAllocated(h, j, FALSE) = Finished(h, j, FALSE)
    BY <1>5 DEF OpAllocated, Grow
  <2> QED BY <1>2, <2>1, Ended
<1> QED BY <1>3, <1>4, <1>5

LEMMA ExtentStarts ==
    ASSUME CacheFileParameters, NEW h \in File, NEW j \in Job, NEW s \in Store, NEW k \in Known, NEW d \in Doubts,
           Usable(h), Fresh(h, s, k, d), New(j), j.cmd = "extent"
    PROVE  Outcome(OpExtent(h, j, FALSE), s, k, d)
<1> DEFINE n == Round(j.length)
<1>1. n \in Nat /\ j.length <= n /\ j.length \in Nat
  BY RoundFacts DEF Job
<1>2. Rests(h, s, k, d)
  BY DEF Rests, Usable
<1>3. CASE ~h.write
  <2>1. OpExtent(h, j, FALSE) = Finished(h, j, TRUE)
    BY <1>3 DEF OpExtent
  <2> QED BY <1>2, <2>1, Ended
<1>4. CASE h.write /\ h.allocated < n
  <2>1. OpExtent(h, j, FALSE) = Request(h, j, "initial", "size", n)
    BY <1>4 DEF OpExtent, Grow
  <2> HIDE DEF n
  <2>2. n = Round(j.length)
    BY DEF n
  <2> QED BY <1>1, <1>4, <2>1, <2>2, SizeAsked
<1>5. CASE h.write /\ ~(h.allocated < n)
  <2>1. OpExtent(h, j, FALSE) = Finished(Resized(h, j.length, h.allocated), j, FALSE)
    BY <1>5 DEF OpExtent, Grow
  <2> HIDE DEF n
  <2>2. j.length <= h.allocated
    BY <1>1, <1>5, FileFields
  <2>3. /\ ~h.lost /\ h.sequential <= h.allocated /\ h.allocated <= h.allocated
        /\ h.allocated \in Nat /\ ("position" \notin d => s.pos = h.sequential)
        /\ ("size" \notin d => Len(s.data) <= h.allocated)
        /\ Held(s, k) /\ Within(h.allocated, k)
    BY FileFields DEF Usable, Fits, Fresh, Kept
  <2>4. j.cmd \notin {"read", "write", "zero", "close"}
    OBVIOUS
  <2>5. Outcome(Finished(Resized(h, j.length, h.allocated), j, FALSE), s, k, d)
    BY <1>1, <2>2, <2>3, <2>4, Arranged
  <2> QED BY <2>1, <2>5
<1> QED BY <1>3, <1>4, <1>5

LEMMA SequentialStarts ==
    ASSUME CacheFileParameters, NEW h \in File, NEW j \in Job, NEW s \in Store, NEW k \in Known, NEW d \in Doubts,
           Usable(h), Fresh(h, s, k, d), New(j), j.cmd = "sequential"
    PROVE  Outcome(OpSequential(h, j, FALSE), s, k, d)
<1> DEFINE n == Round(j.offset)
           moved == [h EXCEPT !.simulated = j.offset]
           grown == [moved EXCEPT !.extent = j.offset]
<1>1. n \in Nat /\ j.offset <= n /\ j.offset \in Nat
  BY RoundFacts DEF Job
<1>2. Rests(h, s, k, d)
  BY DEF Rests, Usable
<1>3. /\ moved \in File /\ moved.simulated = j.offset /\ moved.extent = h.extent
      /\ moved.allocated = h.allocated /\ moved.sequential = h.sequential
      /\ moved.open = h.open /\ moved.lost = h.lost
  BY <1>1 DEF File
<1>4. CASE j.offset <= h.extent
  <2>1. OpSequential(h, j, FALSE) = Finished(moved, j, FALSE)
    BY <1>1, <1>4, FileFields DEF OpSequential, Grow
  <2> HIDE DEF moved
  <2>2. Rests(moved, s, k, d)
    BY <1>3, <1>4 DEF Rests, Usable, Fits, Fresh, Kept
  <2> QED BY <1>3, <2>1, <2>2, Ended
<1>8. j.offset > h.extent => ~(j.offset <= h.extent)
  BY <1>1, FileFields
<1>5. CASE j.offset > h.extent /\ ~h.write
  <2>1. OpSequential(h, j, FALSE) = Finished(h, j, TRUE)
    BY <1>5, <1>8 DEF OpSequential
  <2> QED BY <1>2, <2>1, Ended
<1>6. CASE j.offset > h.extent /\ h.write /\ h.allocated < n
  <2>1. OpSequential(h, j, FALSE) = Request(h, j, "initial", "size", n)
    BY <1>6, <1>8 DEF OpSequential, Grow
  <2> HIDE DEF n
  <2>2. n = Round(j.offset)
    BY DEF n
  <2> QED BY <1>1, <1>6, <2>1, <2>2, SizeAsked
<1>7. CASE j.offset > h.extent /\ h.write /\ ~(h.allocated < n)
  <2>1. OpSequential(h, j, FALSE) = Finished(grown, j, FALSE)
    BY <1>7, <1>8 DEF OpSequential, Grow
  <2> HIDE DEF moved
  <2>2. /\ grown \in File /\ grown.simulated = j.offset /\ grown.extent = j.offset
        /\ grown.allocated = h.allocated /\ grown.sequential = h.sequential
        /\ grown.open = h.open /\ grown.lost = h.lost
    BY <1>1, <1>3 DEF File
  <2> HIDE DEF grown
  <2>3. j.offset <= h.allocated
    <3> HIDE DEF n
    <3> QED BY <1>1, <1>7, FileFields
  <2>4. Rests(grown, s, k, d)
    BY <1>1, <2>2, <2>3 DEF Rests, Usable, Fits, Fresh, Kept
  <2> QED BY <2>1, <2>2, <2>4, Ended
<1>9. j.offset <= h.extent \/ j.offset > h.extent
  BY <1>1, FileFields
<1> QED BY <1>4, <1>5, <1>6, <1>7, <1>9

\* The size of the remote file has been set.
Sizing(h, j, s, k, n, d) ==
    /\ Usable(h) /\ h.write /\ h.allocated < n
    /\ ("position" \notin d => s.pos = h.sequential) /\ Len(s.data) = n
    /\ Held(s, k) /\ Within(h.allocated, k)

LEMMA AllocatedSized ==
    ASSUME CacheFileParameters, NEW h \in File, NEW j \in Job, NEW s \in Store, NEW k \in Known, NEW d \in Doubts,
           j.cmd = "allocated", Sizing(h, j, s, k, Round(j.length), d)
    PROVE  Outcome(OpAllocated(h, j, TRUE), s, k, d)
<1> DEFINE n == Round(j.length)
<1>1. n \in Nat
  BY RoundFacts DEF Job
<1>2. OpAllocated(h, j, TRUE) = Finished(Resized(h, h.extent, n), j, FALSE)
  BY DEF OpAllocated, Grow, Sizing
<1>3. Sizing(h, j, s, k, n, d)
  OBVIOUS
<1> HIDE DEF n
<1>4. h.extent <= n /\ h.allocated <= n
  BY <1>1, <1>3, FileFields DEF Sizing, Usable, Fits
<1>5. /\ ~h.lost /\ h.sequential <= h.allocated
      /\ "position" \notin d => s.pos = h.sequential
      /\ Len(s.data) <= n /\ Held(s, k) /\ Within(h.allocated, k)
  BY <1>1, <1>3 DEF Sizing, Usable, Fits
<1>6. j.cmd \notin {"read", "write", "zero", "close"}
  OBVIOUS
<1>7. Outcome(Finished(Resized(h, h.extent, n), j, FALSE), s, k, d)
  BY <1>1, <1>4, <1>5, <1>6, FileFields, Arranged
<1> QED BY <1>2, <1>7

LEMMA ExtentSized ==
    ASSUME CacheFileParameters, NEW h \in File, NEW j \in Job, NEW s \in Store, NEW k \in Known, NEW d \in Doubts,
           j.cmd = "extent", Sizing(h, j, s, k, Round(j.length), d)
    PROVE  Outcome(OpExtent(h, j, TRUE), s, k, d)
<1> DEFINE n == Round(j.length)
<1>1. n \in Nat /\ j.length <= n /\ j.length \in Nat
  BY RoundFacts DEF Job
<1>2. OpExtent(h, j, TRUE) = Finished(Resized(h, j.length, n), j, FALSE)
  BY DEF OpExtent, Grow, Sizing
<1>3. Sizing(h, j, s, k, n, d)
  OBVIOUS
<1> HIDE DEF n
<1>4. h.allocated <= n
  BY <1>1, <1>3, FileFields DEF Sizing
<1>5. /\ ~h.lost /\ h.sequential <= h.allocated
      /\ "position" \notin d => s.pos = h.sequential
      /\ Len(s.data) <= n /\ Held(s, k) /\ Within(h.allocated, k)
  BY <1>1, <1>3 DEF Sizing, Usable, Fits
<1>6. j.cmd \notin {"read", "write", "zero", "close"}
  OBVIOUS
<1>7. Outcome(Finished(Resized(h, j.length, n), j, FALSE), s, k, d)
  BY <1>1, <1>4, <1>5, <1>6, Arranged
<1> QED BY <1>2, <1>7

LEMMA SequentialSized ==
    ASSUME CacheFileParameters, NEW h \in File, NEW j \in Job, NEW s \in Store, NEW k \in Known, NEW d \in Doubts,
           j.cmd = "sequential", Sizing(h, j, s, k, Round(j.offset), d), h.extent < j.offset
    PROVE  Outcome(OpSequential(h, j, TRUE), s, k, d)
<1> DEFINE n == Round(j.offset)
           moved == [h EXCEPT !.simulated = j.offset]
<1>1. n \in Nat /\ j.offset <= n /\ j.offset \in Nat
  BY RoundFacts DEF Job
<1>2. OpSequential(h, j, TRUE) = Finished(Resized(moved, j.offset, n), j, FALSE)
  <2>1. ~(j.offset <= h.extent) /\ h.write
    BY <1>1, FileFields DEF Sizing
  <2> QED BY <2>1 DEF OpSequential, Grow
<1>3. Sizing(h, j, s, k, n, d)
  OBVIOUS
<1>4. /\ moved \in File /\ moved.allocated = h.allocated /\ moved.sequential = h.sequential
      /\ moved.lost = h.lost
  BY <1>1 DEF File
<1> HIDE DEF n, moved
<1>5. h.allocated <= n
  BY <1>1, <1>3, FileFields DEF Sizing
<1>6. /\ ~moved.lost /\ moved.sequential <= moved.allocated /\ moved.allocated <= n
      /\ "position" \notin d => s.pos = moved.sequential
      /\ Len(s.data) <= n /\ Held(s, k) /\ Within(moved.allocated, k)
  BY <1>1, <1>3, <1>4, <1>5 DEF Sizing, Usable, Fits
<1>7. j.cmd \notin {"read", "write", "zero", "close"}
  OBVIOUS
<1>8. Outcome(Finished(Resized(moved, j.offset, n), j, FALSE), s, k, d)
  BY <1>1, <1>4, <1>6, <1>7, Arranged
<1> QED BY <1>2, <1>8

-----------------------------------------------------------------------------
(* Closing, and the operations together                                    *)

LEMMA CloseStarts ==
    ASSUME NEW h \in File, NEW j \in Job, NEW s \in Store, NEW k \in Known, NEW d \in Doubts,
           Usable(h), Fresh(h, s, k, d), New(j), j.cmd = "close"
    PROVE  Outcome(OpClose(h, j, FALSE), s, k, d)
<1>1. CASE h.write
  <2> DEFINE m == [j EXCEPT !.state = "close"]
             q == [op |-> "size", length |-> h.extent, done |-> 0]
  <2>1. OpClose(h, j, FALSE) = Request(h, j, "close", "size", h.extent)
    BY <1>1 DEF OpClose, New
  <2>2. m.cmd = j.cmd /\ m.err = j.err /\ m.state = "close"
    BY DEF Job
  <2>3. q.op = "size" /\ q.length = h.extent /\ q.done = 0
    OBVIOUS
  <2> HIDE DEF m, q
  <2>4. Closing(h, m, q, s, k, d)
    BY <1>1, <2>2, <2>3 DEF Closing
  <2>5. Underway(h, m, q, s, k, d)
    BY <2>2, <2>4 DEF Underway, Usable, New
  <2>6. Outcome(Request(h, j, "close", "size", h.extent), s, k, d)
    BY <2>5, FileFields, Requested DEF States, m, q
  <2> QED BY <2>1, <2>6
<1>2. CASE ~h.write
  <2> DEFINE m == [j EXCEPT !.state = "done"]
             q == [op |-> "close", length |-> 0, done |-> 0]
  <2>1. OpClose(h, j, FALSE) = Request(h, j, "done", "close", 0)
    BY <1>2 DEF OpClose, New
  <2>2. m.cmd = j.cmd /\ m.err = j.err /\ m.state = "done"
    BY DEF Job
  <2>3. q.op = "close" /\ q.length = 0 /\ q.done = 0
    OBVIOUS
  <2> HIDE DEF m, q
  <2>7. CloseDone(h, s, k)
    BY <1>2 DEF CloseDone, Fresh, Kept, Held
  <2>4. Closing(h, m, q, s, k, d)
    BY <2>2, <2>3, <2>7 DEF Closing
  <2>5. Underway(h, m, q, s, k, d)
    BY <2>2, <2>4 DEF Underway, Usable, New
  <2>6. Outcome(Request(h, j, "done", "close", 0), s, k, d)
    BY <2>5, Requested DEF States, m, q
  <2> QED BY <2>1, <2>6
<1> QED BY <1>1, <1>2

\* The remote file has the size of the handle, and is closed.
LEMMA CloseSized ==
    ASSUME NEW h \in File, NEW j \in Job, NEW s \in Store, NEW k \in Known, NEW d \in Doubts,
           Usable(h), ~j.err, j.cmd = "close", j.state = "close", CloseDone(h, s, k)
    PROVE  Outcome(OpClose(h, j, TRUE), s, k, d)
<1> DEFINE m == [j EXCEPT !.state = "done"]
           q == [op |-> "close", length |-> 0, done |-> 0]
<1>1. OpClose(h, j, TRUE) = Request(h, j, "done", "close", 0)
  BY DEF OpClose
<1>2. m.cmd = j.cmd /\ m.err = j.err /\ m.state = "done"
  BY DEF Job
<1>3. q.op = "close" /\ q.length = 0 /\ q.done = 0
  OBVIOUS
<1> HIDE DEF m, q
<1>4. Closing(h, m, q, s, k, d)
  BY <1>2, <1>3 DEF Closing
<1>5. Underway(h, m, q, s, k, d)
  BY <1>2, <1>4 DEF Underway, Usable
<1>6. Outcome(Request(h, j, "done", "close", 0), s, k, d)
  BY <1>5, Requested DEF States, m, q
<1> QED BY <1>1, <1>6

LEMMA CloseFinishes ==
    ASSUME NEW h \in File, NEW j \in Job, NEW s \in Store, NEW k \in Known, NEW d \in Doubts,
           j.cmd = "close", j.state = "done", CloseDone(h, s, k)
    PROVE  Outcome(OpClose(h, j, TRUE), s, k, d)
<1> DEFINE g == [h EXCEPT !.open = FALSE]
<1>1. OpClose(h, j, TRUE) = Finished(g, j, FALSE)
  BY DEF OpClose
<1>2. g \in File /\ ~g.open /\ g.write = h.write /\ g.extent = h.extent
  BY DEF File
<1> HIDE DEF g
<1>3. CloseDone(g, s, k)
  BY <1>2 DEF CloseDone
<1> QED BY <1>1, <1>2, <1>3, EndedWell

\* A client's call of any operation
LEMMA Starts ==
    ASSUME CacheFileParameters, NEW h \in File, NEW j \in Job, NEW s \in Store, NEW k \in Known, NEW d \in Doubts,
           Usable(h), Fresh(h, s, k, d), New(j), j.cmd # "none",
           j.cmd \in {"write", "zero"} => j.length # 0
    PROVE  Outcome(Handle(h, j, FALSE), s, k, d)
<1>1. j.cmd \in Cmds /\ ~h.lost
  BY DEF Job, Usable
<1>2. CASE j.cmd = "read"
  BY <1>1, <1>2, ReadStarts DEF Handle
<1>3. CASE j.cmd \in {"write", "zero"}
  BY <1>1, <1>3, WriteStarts DEF Handle
<1>4. CASE j.cmd = "allocated"
  BY <1>1, <1>4, AllocatedStarts DEF Handle
<1>5. CASE j.cmd = "extent"
  BY <1>1, <1>5, ExtentStarts DEF Handle
<1>6. CASE j.cmd = "sequential"
  BY <1>1, <1>6, SequentialStarts DEF Handle
<1>7. CASE j.cmd = "close"
  BY <1>1, <1>7, CloseStarts DEF Handle
<1> QED BY <1>1, <1>2, <1>3, <1>4, <1>5, <1>6, <1>7 DEF Cmds

-----------------------------------------------------------------------------
(* The invariant: one lemma for each event.                                *)

LEMMA InvFacts ==
    ASSUME FileInv
    PROVE  /\ file \in File /\ job \in Job /\ sent \in Outstanding /\ store \in Store
           /\ known \in Known /\ doubt \in Doubts
           /\ sent = Nothing => AtRest(file, job, store, known, doubt)
           /\ sent # Nothing => Underway(file, job, sent, store, known, doubt)
BY DEF FileInv, Correct, Known

LEMMA Applied ==
    ASSUME NEW next, Apply(next), Outcome(next, store', known', doubt')
    PROVE  FileInv'
BY DEF Apply, Outcome, FileInv

\* What is known when the operation has become j
KnownThen(j) == IF Astray THEN NothingKnown ELSE Learnt(j, known)

LEMMA LearntKnown ==
    ASSUME NEW j, Learn(j)
    PROVE  known' = KnownThen(j)
<1>1. CASE Astray
  BY <1>1 DEF Learn, KnownThen
<1>2. CASE ~Astray /\ j.cmd \in {"write", "zero"} /\ j.state = "finished"
  BY <1>2 DEF Learn, Learnt, KnownThen
<1>3. CASE ~Astray /\ ~(j.cmd \in {"write", "zero"} /\ j.state = "finished")
  BY <1>3 DEF Learn, Learnt, KnownThen
<1> QED BY <1>1, <1>2, <1>3

LEMMA KnownThenType ==
    ASSUME NEW j \in Job, known \in Known
    PROVE  KnownThen(j) \in Known
BY LearntType, BlankFacts DEF KnownThen

\* A handle that rests has nothing under way.
LEMMA IdleRests ==
    ASSUME FileInv
    PROVE  Idle <=> sent = Nothing
<1>1. ASSUME sent = Nothing PROVE job.state \in {"initial", "finished"}
  <2>1. AtRest(file, job, store, known, doubt)
    BY <1>1, InvFacts
  <2> QED BY <2>1 DEF AtRest, NoJob
<1> QED BY <1>1 DEF Idle

LEMMA InitStep == FileInit => FileInv
<1> SUFFICES ASSUME FileInit PROVE FileInv
  OBVIOUS
<1>1. /\ file = Shut /\ job = NoJob /\ sent = Nothing /\ store = [data |-> <<>>, pos |-> 0]
      /\ doubt \in Doubts
  BY DEF FileInit, Doubts
<1>2. known \in Known
  BY BlankFacts DEF FileInit
<1>3. file \in File /\ ~file.open
  BY <1>1 DEF Shut, File
<1>4. store \in Store
  <2>1. <<>> \in Seq(Byte)
    OBVIOUS
  <2> QED BY <1>1, <2>1 DEF Store
<1>5. job \in Job /\ job = [NoJob EXCEPT !.err = job.err]
  BY <1>1, NoJobType DEF NoJob
<1>6. AtRest(file, job, store, known, doubt)
  BY <1>3, <1>5 DEF AtRest
<1> QED BY <1>1, <1>2, <1>3, <1>4, <1>5, <1>6, NothingType DEF FileInv, Correct, Known

LEMMA OpenStep ==
    ASSUME CacheFileParameters, FileInv, NEW mode, Open(mode)
    PROVE  FileInv'
<1> DEFINE n == Len(store.data)
           r == Round(n)
           w == mode # "in"
           e == IF mode = "out" THEN 0 ELSE n
           g == [Shut EXCEPT !.open = TRUE, !.write = w, !.allocated = r, !.extent = e]
           data == IF mode = "out" THEN Sized(<<>>, r) ELSE store.data
           t == [data |-> data, pos |-> 0]
           l == IF mode = "out" THEN NothingKnown ELSE KnownOf(store.data)
<1>1. file' = g /\ job' = NoJob /\ store' = t /\ known' = l /\ sent' = sent /\ doubt' = {}
  BY DEF Open
<1>2. store \in Store /\ store.data \in Seq(Byte) /\ n \in Nat
  BY InvFacts DEF Store
<1>3. r \in Nat /\ n <= r /\ e \in Nat /\ e <= r
  BY <1>2, RoundFacts
<1>4. sent = Nothing
  BY InvFacts DEF Open, Underway
<1>12. data \in Seq(Byte) /\ Len(data) <= r
  <2>1. <<>> \in Seq(Byte)
    OBVIOUS
  <2>2. Sized(<<>>, r) \in Seq(Byte) /\ Len(Sized(<<>>, r)) = r
    BY <1>3, <2>1, SizedFacts
  <2> QED BY <1>2, <1>3, <2>2
<1>7. /\ l \in Known
      /\ \A i \in Positions : l[i] # Unknown => i < r /\ i < Len(data) /\ data[i + 1] = l[i]
  <2>1. CASE mode = "out"
    BY <2>1, BlankFacts DEF NothingKnown
  <2>2. CASE mode # "out"
    <3>1. \A i \in Positions : i \in Int /\ i >= 0
      BY DEF Positions
    <3>2. \A i \in Positions : i < n => store.data[i + 1] \in Byte /\ i < r
      BY <1>2, <1>3, <3>1
    <3> QED BY <2>2, <3>2 DEF KnownOf, Known
  <2> QED BY <2>1, <2>2
<1> HIDE DEF r, data, l, e, w
<1>5. /\ g \in File /\ g.open /\ ~g.lost /\ g.extent = e /\ g.allocated = r
      /\ g.sequential = 0 /\ g.simulated = 0
  <2>1. w \in BOOLEAN
    BY DEF w
  <2> QED BY <1>3, <2>1 DEF Shut, File
<1>6. t \in Store /\ t.data = data /\ t.pos = 0
  BY <1>12 DEF Store
<1> HIDE DEF g, t
<1>8. Fits(g) /\ Fresh(g, t, l, {})
  BY <1>3, <1>5, <1>6, <1>7, <1>12 DEF Fits, Fresh, Kept, Held, Holds, Within
<1>9. NoJob = [NoJob EXCEPT !.err = NoJob.err]
  BY DEF NoJob
<1>10. AtRest(g, NoJob, t, l, {})
  BY <1>5, <1>8, <1>9 DEF AtRest
<1>11. Correct(g, NoJob, Nothing, t, l, {})
  BY <1>5, <1>6, <1>7, <1>10, NoJobType, NothingType DEF Correct, Known, Doubts
<1> QED BY <1>1, <1>4, <1>11 DEF FileInv

LEMMA CallStep ==
    ASSUME CacheFileParameters, FileInv, NEW cmd \in Cmds \ {"none"}, NEW offset \in Nat,
           NEW length \in Nat, NEW value \in Byte, cmd \in {"write", "zero"} => length # 0,
           Call(cmd, offset, length, value)
    PROVE  FileInv'
<1> DEFINE j == [NoJob EXCEPT !.cmd = cmd, !.offset = offset, !.length = length, !.value = value]
<1>1. /\ file.open /\ Idle /\ job.cmd # "close" /\ offset + length <= MaxSize
      /\ Apply(Handle(file, j, FALSE))
      /\ store' = store /\ known' = known /\ doubt' = doubt
  BY DEF Call
<1>2. /\ j \in Job /\ j.cmd = cmd /\ j.offset = offset /\ j.length = length
      /\ j.state = "initial" /\ j.got = <<>> /\ ~j.err
  BY NoJobType DEF NoJob, Job
<1> HIDE DEF j
<1>3. AtRest(file, job, store, known, doubt)
  BY <1>1, InvFacts, IdleRests
<1>4. Usable(file) /\ Fresh(file, store, known, doubt)
  BY <1>1, <1>3 DEF AtRest, Usable
<1>5. New(j)
  BY <1>1, <1>2 DEF New
<1>6. Outcome(Handle(file, j, FALSE), store, known, doubt)
  BY <1>2, <1>4, <1>5, InvFacts, Starts
<1> QED BY <1>1, <1>6, Applied

LEMMA ReplyOutcome ==
    ASSUME NEW h \in File, NEW j \in Job, ~h.lost, Reply(h, j),
           LET next == Handle(h, j, TRUE) IN Outcome(next, store', KnownThen(next.job), doubt')
    PROVE  FileInv'
<1> DEFINE next == Handle(h, j, TRUE)
<1>1. Apply(next) /\ Learn(next.job)
  BY DEF Reply
<1> HIDE DEF next
<1>2. known' = KnownThen(next.job)
  BY <1>1, LearntKnown
<1>3. Outcome(next, store', known', doubt')
  BY <1>2 DEF next
<1> QED BY <1>1, <1>3, Applied

\* Only the end of a write changes what is known.
LEMMA LearntResize ==
    ASSUME NEW h, NEW j \in Job, NEW k
    PROVE  Learnt(WriteBytes(h, j).job, k) = k /\ Learnt(Resize(h, j).job, k) = k
<1>1. WriteBytes(h, j).job.state = "done"
  BY DEF WriteBytes, Request, Left, Job
<1>2. Resize(h, j).job.state \in {"write", "done"}
  BY <1>1 DEF Resize, Request, Left, Job
<1> QED BY <1>1, <1>2 DEF Learnt

LEMMA LearntNothing ==
    ASSUME NEW h, NEW j \in Job, NEW k, j.cmd \notin {"write", "zero"}, ~h.lost
    PROVE  Learnt(Handle(h, j, TRUE).job, k) = k
<1>1. /\ \A g, err : Finished(g, j, err).job.cmd = j.cmd
      /\ \A g, err : Finished(g, Padded(j), err).job.cmd = j.cmd
      /\ \A g, state, op, n : Request(g, j, state, op, n).job.cmd = j.cmd
  BY DEF Finished, Request, Left, Job, Padded
<1>2. OpRead(h, j, TRUE).job.cmd = j.cmd
  <2>1. CASE h.extent <= j.offset \/ j.length = 0
    BY <1>1, <2>1 DEF OpRead
  <2>2. CASE ~(h.extent <= j.offset \/ j.length = 0) /\ j.state = "initial" /\ j.offset # h.sequential
    BY <1>1, <2>2 DEF OpRead
  <2>3. CASE ~(h.extent <= j.offset \/ j.length = 0) /\ j.state = "done"
    BY <1>1, <2>3 DEF OpRead
  <2>4. CASE /\ ~(h.extent <= j.offset \/ j.length = 0) /\ j.state # "done"
             /\ ~(j.state = "initial" /\ j.offset # h.sequential)
    BY <1>1, <2>4 DEF OpRead
  <2> QED BY <2>1, <2>2, <2>3, <2>4
<1>3. \A size, g, d : Grow(h, j, size, TRUE, g, d).job.cmd = j.cmd
  BY <1>1 DEF Grow
<1>4. OpAllocated(h, j, TRUE).job.cmd = j.cmd
  BY <1>1, <1>3 DEF OpAllocated
<1>5. OpExtent(h, j, TRUE).job.cmd = j.cmd
  BY <1>1, <1>3 DEF OpExtent
<1>6. OpSequential(h, j, TRUE).job.cmd = j.cmd
  BY <1>1, <1>3 DEF OpSequential
<1>7. OpClose(h, j, TRUE).job.cmd = j.cmd
  <2>1. CASE j.state = "initial" /\ h.write
    BY <1>1, <2>1 DEF OpClose
  <2>2. CASE j.state = "done"
    BY <1>1, <2>2 DEF OpClose
  <2>3. CASE j.state # "done" /\ ~(j.state = "initial" /\ h.write)
    BY <1>1, <2>3 DEF OpClose
  <2> QED BY <2>1, <2>2, <2>3
<1>8. Handle(h, j, TRUE).job.cmd = j.cmd
  BY <1>2, <1>4, <1>5, <1>6, <1>7 DEF Handle
<1> QED BY <1>8 DEF Learnt

LEMMA PieceFacts ==
    ASSUME CacheFileParameters, sent \in Outstanding, sent.done < sent.length
    PROVE  /\ PieceSize \in Nat \ {0} /\ sent.done + PieceSize <= sent.length
           /\ PieceSize <= sent.length - sent.done
<1>1. Piece \in Nat \ {0}
  BY DEF CacheFileParameters
<1>2. sent.done \in Nat /\ sent.length \in Nat
  BY DEF Outstanding
<1> QED BY <1>1, <1>2 DEF Minimum, PieceSize

\* What is so while the bytes of a write are sent
LEMMA WriteUnderway ==
    ASSUME FileInv, sent.op = "write"
    PROVE  /\ sent # Nothing /\ Usable(file) /\ ~job.err
           /\ Writes(file, job) /\ Writing(file, job, sent, store, known, doubt)
           /\ job.state = "done" /\ sent.length = job.length /\ sent.done < sent.length
           /\ job.offset + job.length <= file.allocated /\ file.sequential = job.offset
           /\ "size" \notin doubt => Len(store.data) <= file.allocated
           /\ Within(file.allocated, known)
           /\ "position" \notin doubt =>
                 store.pos = job.offset + sent.done /\ Begun(job, sent.done, store, known)
           /\ job.offset \in Nat /\ job.length \in Nat /\ job.value \in Byte
           /\ sent.length \in Nat /\ sent.done \in Nat /\ file.allocated \in Nat
           /\ store.pos \in Nat /\ Len(store.data) \in Nat
<1>1. sent # Nothing
  BY DEF Nothing
<1>2. Underway(file, job, sent, store, known, doubt)
  BY <1>1, InvFacts
<1>3. Writing(file, job, sent, store, known, doubt)
  BY <1>2 DEF Underway, Reading, Arranging, Closing
<1>4. Usable(file) /\ Writes(file, job) /\ ~job.err
  BY <1>2, <1>3 DEF Underway, Usable, Writes, Writing
<1>5. /\ job.offset \in Nat /\ job.length \in Nat /\ job.value \in Byte
      /\ sent.length \in Nat /\ sent.done \in Nat /\ file.allocated \in Nat
      /\ store.pos \in Nat /\ Len(store.data) \in Nat
  BY InvFacts DEF Job, Outstanding, File, Store
<1> QED BY <1>1, <1>3, <1>4, <1>5 DEF Writing

\* A piece is written somewhere, when the position is in doubt.
LEMMA WriteAstray ==
    ASSUME CacheFileParameters, FileInv, WritePiece, "position" \in doubt
    PROVE  FileInv'
<1> DEFINE n == PieceSize
           t == Written(store, Bytes(n, job.value))
<1>1. file \in File /\ job \in Job /\ sent \in Outstanding /\ store \in Store /\ doubt \in Doubts
  BY InvFacts
<1>2. sent.op = "write" /\ Astray
  BY DEF WritePiece, Astray
<1>3. /\ sent # Nothing /\ Usable(file) /\ ~job.err
      /\ Writes(file, job) /\ Writing(file, job, sent, store, known, doubt)
      /\ job.state = "done" /\ sent.length = job.length /\ sent.done < sent.length
      /\ job.offset + job.length <= file.allocated /\ file.sequential = job.offset
      /\ job.value \in Byte /\ sent.done \in Nat
  BY <1>2, WriteUnderway
<1>4. n \in Nat /\ n > 0
  BY <1>1, <1>3, PieceFacts
<1>5. store' = t /\ t \in Store
  BY <1>1, <1>2, <1>3, <1>4, WrittenFacts DEF WritePiece, Effect
<1> HIDE DEF t
<1>6. doubt' = doubt \cup {"size"}
  BY <1>2 DEF WritePiece
<1>7. doubt' \in Doubts /\ "size" \in doubt' /\ "position" \in doubt'
  BY <1>1, <1>6 DEF Doubts
<1>8. CASE sent.done + n < sent.length
  <2> DEFINE p == sent.done + n
             q == [sent EXCEPT !.done = p]
  <2>1. sent' = q /\ file' = file /\ job' = job /\ Learn(job)
    BY <1>8 DEF WritePiece
  <2>2. known' = NothingKnown
    BY <1>2, <2>1, LearntKnown DEF KnownThen
  <2>3. p \in Nat /\ p < sent.length
    BY <1>3, <1>4, <1>8
  <2> HIDE DEF p
  <2>4. q \in Outstanding /\ q.op = sent.op /\ q.length = sent.length /\ q.done = p
    BY <1>1, <2>3 DEF Outstanding
  <2> HIDE DEF q
  <2>5. Writing(file, job, q, t, NothingKnown, doubt')
    BY <1>2, <1>3, <1>7, <2>3, <2>4, BlankFacts DEF Writing, Writes
  <2>6. Underway(file, job, q, t, NothingKnown, doubt')
    BY <1>3, <2>5 DEF Underway, Usable
  <2>7. q # Nothing
    BY <1>2, <2>4 DEF Nothing
  <2>8. Correct(file, job, q, t, NothingKnown, doubt')
    BY <1>1, <1>5, <1>7, <2>4, <2>6, <2>7, BlankFacts DEF Correct, Known
  <2> QED BY <1>5, <2>1, <2>2, <2>8 DEF FileInv
<1>9. CASE ~(sent.done + n < sent.length)
  <2>1. Reply(file, job)
    BY <1>9 DEF WritePiece
  <2>2. Kept(file, t, NothingKnown, doubt')
    BY <1>7, BlankFacts DEF Kept
  <2>3. Outcome(OpWrite(file, job, TRUE), t, NothingKnown, doubt')
    BY <1>1, <1>3, <1>5, <1>7, <2>2, BlankFacts, WriteFinishes
  <2>4. Handle(file, job, TRUE) = OpWrite(file, job, TRUE)
    BY <1>3 DEF Handle, Usable, Writes
  <2>5. KnownThen(OpWrite(file, job, TRUE).job) = NothingKnown
    BY <1>2 DEF KnownThen
  <2> QED BY <1>1, <1>3, <1>5, <2>1, <2>3, <2>4, <2>5, ReplyOutcome DEF Usable
<1> QED BY <1>8, <1>9

\* A piece has been written where it belongs.
LEMMA WrittenInPlace ==
    ASSUME CacheFileParameters, FileInv, sent.op = "write", "position" \notin doubt
    PROVE  LET t == Written(store, Bytes(PieceSize, job.value)) IN
           /\ t \in Store /\ t.pos = job.offset + (sent.done + PieceSize)
           /\ "size" \notin doubt => Len(t.data) <= file.allocated
           /\ Begun(job, sent.done + PieceSize, t, known)
<1> DEFINE n == PieceSize
           t == Written(store, Bytes(n, job.value))
           i0 == job.offset + sent.done
<1>1. file \in File /\ job \in Job /\ sent \in Outstanding /\ store \in Store /\ known \in Known
  BY InvFacts
<1>2. /\ sent.length = job.length /\ sent.done < sent.length
      /\ job.offset + job.length <= file.allocated
      /\ "size" \notin doubt => Len(store.data) <= file.allocated
      /\ store.pos = i0 /\ Begun(job, sent.done, store, known)
      /\ job.offset \in Nat /\ job.length \in Nat /\ job.value \in Byte
      /\ sent.length \in Nat /\ sent.done \in Nat /\ file.allocated \in Nat
      /\ store.pos \in Nat /\ Len(store.data) \in Nat
  BY WriteUnderway
<1>3. n \in Nat /\ n > 0 /\ sent.done + n <= sent.length
  BY <1>1, <1>2, PieceFacts
<1> HIDE DEF n
<1>4. /\ t \in Store /\ t.pos = store.pos + n
      /\ Len(t.data) = IF store.pos + n > Len(store.data) THEN store.pos + n ELSE Len(store.data)
      /\ \A i \in Nat : i < store.pos \/ i >= store.pos + n =>
            \A x : Holds(store, i, x) => Holds(t, i, x)
      /\ \A i \in Nat : i >= store.pos /\ i < store.pos + n => Holds(t, i, job.value)
  BY <1>1, <1>2, <1>3, WrittenFacts
<1> HIDE DEF t
<1>5. i0 + n = job.offset + (sent.done + n) /\ i0 + n <= file.allocated
  BY <1>2, <1>3
<1>6. "size" \notin doubt => Len(t.data) <= file.allocated
  BY <1>2, <1>4, <1>5
<1>7. ASSUME NEW i \in Positions
      PROVE  IF i < job.offset \/ i >= i0 + n THEN known[i] # Unknown => Holds(t, i, known[i])
             ELSE Holds(t, i, job.value)
  <2>1. i \in Nat
    BY DEF Positions
  <2>5. IF i < job.offset \/ i >= i0 THEN known[i] # Unknown => Holds(store, i, known[i])
        ELSE Holds(store, i, job.value)
    BY <1>2 DEF Begun
  <2>2. CASE i < job.offset \/ i >= i0 + n
    <3>1. i < store.pos \/ i >= store.pos + n
      BY <1>2, <1>3, <2>1, <2>2
    <3>2. i < job.offset \/ i >= i0
      BY <1>2, <1>3, <2>1, <2>2
    <3> QED BY <1>4, <2>1, <2>2, <2>5, <3>1, <3>2
  <2>3. CASE ~(i < job.offset \/ i >= i0 + n) /\ i >= i0
    <3>1. i >= store.pos /\ i < store.pos + n
      BY <1>2, <1>3, <2>1, <2>3
    <3> QED BY <1>4, <2>1, <2>3, <3>1
  <2>4. CASE ~(i < job.offset \/ i >= i0 + n) /\ ~(i >= i0)
    <3>1. i < store.pos
      BY <1>2, <2>1, <2>4
    <3> QED BY <1>4, <2>1, <2>4, <2>5, <3>1
  <2> QED BY <2>2, <2>3, <2>4
<1>8. Begun(job, sent.done + n, t, known)
  BY <1>5, <1>7 DEF Begun
<1> QED BY <1>2, <1>4, <1>5, <1>6, <1>8 DEF t, n

LEMMA WriteInPlace ==
    ASSUME CacheFileParameters, FileInv, WritePiece, "position" \notin doubt
    PROVE  FileInv'
<1> DEFINE n == PieceSize
           t == Written(store, Bytes(n, job.value))
<1>1. /\ file \in File /\ job \in Job /\ sent \in Outstanding /\ store \in Store
      /\ known \in Known /\ doubt \in Doubts
  BY InvFacts
<1>2. sent.op = "write" /\ ~Astray
  BY DEF WritePiece, Astray
<1>3. /\ sent # Nothing /\ Usable(file) /\ ~job.err
      /\ Writes(file, job) /\ Writing(file, job, sent, store, known, doubt)
      /\ job.state = "done" /\ sent.length = job.length /\ sent.done < sent.length
      /\ job.offset + job.length <= file.allocated /\ file.sequential = job.offset
      /\ Within(file.allocated, known)
      /\ job.offset \in Nat /\ job.length \in Nat /\ job.value \in Byte
      /\ sent.length \in Nat /\ sent.done \in Nat /\ file.allocated \in Nat
  BY <1>2, WriteUnderway
<1>4. n \in Nat /\ n > 0 /\ sent.done + n <= sent.length
  BY <1>1, <1>3, PieceFacts
<1>5. /\ t \in Store /\ t.pos = job.offset + (sent.done + n)
      /\ "size" \notin doubt => Len(t.data) <= file.allocated
      /\ Begun(job, sent.done + n, t, known)
  BY <1>2, WrittenInPlace
<1>6. store' = t /\ doubt' = doubt
  BY <1>2 DEF WritePiece, Effect
<1> HIDE DEF t
<1>8. CASE sent.done + n < sent.length
  <2> DEFINE p == sent.done + n
             q == [sent EXCEPT !.done = p]
  <2>1. sent' = q /\ file' = file /\ job' = job /\ Learn(job)
    BY <1>8 DEF WritePiece
  <2>2. known' = known
    BY <1>2, <1>3, <2>1, LearntKnown DEF KnownThen, Learnt
  <2>3. p \in Nat /\ p < sent.length
    BY <1>3, <1>4, <1>8
  <2>9. t.pos = job.offset + p /\ Begun(job, p, t, known)
    BY <1>5
  <2> HIDE DEF p
  <2>4. q \in Outstanding /\ q.op = sent.op /\ q.length = sent.length /\ q.done = p
    BY <1>1, <2>3 DEF Outstanding
  <2> HIDE DEF q
  <2>5. Writing(file, job, q, t, known, doubt)
    <3>1. "position" \in doubt => Held(t, known)
      OBVIOUS
    <3> QED BY <1>2, <1>3, <1>5, <2>3, <2>4, <2>9, <3>1 DEF Writing, Writes
  <2>6. Underway(file, job, q, t, known, doubt)
    BY <1>3, <2>5 DEF Underway, Usable
  <2>7. q # Nothing
    BY <1>2, <2>4 DEF Nothing
  <2>8. Correct(file, job, q, t, known, doubt)
    BY <1>1, <1>5, <2>4, <2>6, <2>7 DEF Correct, Known
  <2> QED BY <1>6, <2>1, <2>2, <2>8 DEF FileInv
<1>9. CASE ~(sent.done + n < sent.length)
  <2> DEFINE g == [file EXCEPT !.sequential = @ + job.length]
             m == Finished(g, job, FALSE).job
             l == Learnt(m, known)
  <2>1. Reply(file, job)
    BY <1>9 DEF WritePiece
  <2>2. OpWrite(file, job, TRUE) = Finished(g, job, FALSE)
        /\ m \in Job /\ m.cmd = job.cmd /\ m.state = "finished" /\ ~m.err
        /\ m.offset = job.offset /\ m.length = job.length /\ m.value = job.value
    BY <1>1, <1>3, WriteOver
  <2>3. sent.done + n = job.length
    BY <1>3, <1>4, <1>9
  <2> HIDE DEF g, m
  <2>4. l = [i \in Positions |-> IF i < job.offset \/ i >= job.offset + job.length THEN known[i]
                                 ELSE job.value]
    BY <1>3, <2>2 DEF Learnt, Writes
  <2>5. l \in Known
    BY <1>1, <2>2, LearntType
  <2> HIDE DEF l
  <2>6. Held(t, l)
    BY <1>5, <2>3, <2>4 DEF Held, Begun
  <2>7. Within(file.allocated, l)
    <3>1. \A i \in Positions : i \in Int
      BY DEF Positions
    <3> QED BY <1>3, <2>4, <3>1 DEF Within
  <2>8. Kept(file, t, l, doubt) /\ t.pos = job.offset + job.length
    BY <1>5, <2>3, <2>6, <2>7 DEF Kept
  <2>9. Outcome(OpWrite(file, job, TRUE), t, l, doubt)
    BY <1>1, <1>3, <1>5, <2>5, <2>8, WriteFinishes
  <2>10. Handle(file, job, TRUE) = OpWrite(file, job, TRUE)
    BY <1>3 DEF Handle, Usable, Writes
  <2>11. KnownThen(OpWrite(file, job, TRUE).job) = l
    BY <1>2, <2>2 DEF KnownThen, l, m
  <2> QED BY <1>1, <1>3, <1>6, <2>1, <2>9, <2>10, <2>11, ReplyOutcome DEF Usable
<1> QED BY <1>8, <1>9

LEMMA WritePieceStep ==
    ASSUME CacheFileParameters, FileInv, WritePiece
    PROVE  FileInv'
<1>1. CASE "position" \in doubt
  BY <1>1, WriteAstray
<1>2. CASE "position" \notin doubt
  BY <1>2, WriteInPlace
<1> QED BY <1>1, <1>2

\* What is so while bytes are read
LEMMA ReadUnderway ==
    ASSUME FileInv, sent.op = "read"
    PROVE  /\ sent # Nothing /\ Usable(file) /\ ~job.err /\ ~Astray
           /\ job.cmd = "read" /\ job.offset < file.extent /\ job.length # 0
           /\ job.offset + job.length <= MaxSize
           /\ job.state = "done" /\ sent.length = Minimum(job.length, file.extent - job.offset)
           /\ sent.done = Len(job.got) /\ sent.done < sent.length
           /\ file.sequential = job.offset /\ Kept(file, store, known, doubt)
           /\ "position" \notin doubt => store.pos = job.offset + sent.done /\ Got(job, store)
           /\ job.offset \in Nat /\ job.length \in Nat /\ job.got \in Seq(Byte)
           /\ Len(job.got) \in Nat
           /\ sent.length \in Nat /\ sent.done \in Nat /\ file.extent \in Nat
           /\ store.pos \in Nat /\ store.data \in Seq(Byte) /\ Len(store.data) \in Nat
<1>1. sent # Nothing
  BY DEF Nothing
<1>2. Underway(file, job, sent, store, known, doubt)
  BY <1>1, InvFacts
<1>3. Reading(file, job, sent, store, known, doubt)
  BY <1>2 DEF Underway, Writing, Arranging, Closing
<1>4. Usable(file) /\ ~job.err /\ ~Astray
  BY <1>2 DEF Underway, Usable, Astray
<1>5. /\ job.offset \in Nat /\ job.length \in Nat /\ job.got \in Seq(Byte)
      /\ Len(job.got) \in Nat
      /\ sent.length \in Nat /\ sent.done \in Nat /\ file.extent \in Nat
      /\ store.pos \in Nat /\ store.data \in Seq(Byte) /\ Len(store.data) \in Nat
  BY InvFacts DEF Job, Outstanding, File, Store
<1> QED BY <1>1, <1>3, <1>4, <1>5 DEF Reading

\* A piece has been read where it belongs.
LEMMA ReadInPlace ==
    ASSUME CacheFileParameters, FileInv, sent.op = "read", "position" \notin doubt
    PROVE  LET piece == Fetched(store, PieceSize)
               j == [job EXCEPT !.got = @ \o piece]
               t == [store EXCEPT !.pos = @ + Len(piece)]
           IN t.pos = j.offset + Len(j.got) /\ Got(j, t)
<1> DEFINE n == PieceSize
           piece == Fetched(store, n)
           got == job.got \o piece
           j == [job EXCEPT !.got = @ \o piece]
           t == [store EXCEPT !.pos = @ + Len(piece)]
<1>1. file \in File /\ job \in Job /\ sent \in Outstanding /\ store \in Store
  BY InvFacts
<1>2. /\ sent.done = Len(job.got) /\ sent.done < sent.length
      /\ store.pos = job.offset + sent.done /\ Got(job, store)
      /\ job.offset \in Nat /\ job.got \in Seq(Byte) /\ Len(job.got) \in Nat
      /\ store.pos \in Nat /\ store.data \in Seq(Byte) /\ Len(store.data) \in Nat
  BY ReadUnderway
<1>3. n \in Nat \ {0}
  BY <1>1, <1>2, PieceFacts
<1> HIDE DEF n
<1>4. /\ piece \in Seq(Byte) /\ Len(piece) \in Nat
      /\ piece # <<>> => store.pos + Len(piece) <= Len(store.data)
      /\ \A i \in 1 .. Len(piece) : piece[i] = store.data[store.pos + i]
  BY <1>1, <1>3, FetchedFacts
<1> HIDE DEF piece
<1>5. got \in Seq(Byte) /\ Len(got) = Len(job.got) + Len(piece)
  BY <1>2, <1>4
<1>6. \A i \in 1 .. Len(got) : got[i] = store.data[job.offset + i]
  <2> SUFFICES ASSUME NEW i \in 1 .. Len(got) PROVE got[i] = store.data[job.offset + i]
    OBVIOUS
  <2>1. CASE i <= Len(job.got)
    BY <1>2, <1>4, <2>1 DEF Got
  <2>2. CASE i > Len(job.got)
    <3>1. i - Len(job.got) \in 1 .. Len(piece)
      BY <1>2, <1>4, <1>5, <2>2
    <3>2. got[i] = piece[i - Len(job.got)]
      BY <1>2, <1>4, <1>5, <2>2
    <3>3. store.pos + (i - Len(job.got)) = job.offset + i
      BY SMTT(30), <1>2
    <3> QED BY <1>4, <3>1, <3>2, <3>3
  <2> QED BY <1>2, <2>1, <2>2
<1>7. got = <<>> \/ job.offset + Len(got) <= Len(store.data)
  <2>1. CASE piece = <<>>
    <3>1. got = job.got
      BY <1>2, <2>1
    <3> QED BY <1>2, <3>1 DEF Got
  <2>2. CASE piece # <<>>
    <3>1. job.offset + Len(got) = store.pos + Len(piece)
      BY SMTT(30), <1>2, <1>4, <1>5
    <3> QED BY <1>4, <2>2, <3>1
  <2> QED BY <2>1, <2>2
<1>8. j.offset = job.offset /\ j.got = got
  BY <1>1 DEF Job
<1>9. t.data = store.data /\ t.pos = store.pos + Len(piece)
  BY <1>1 DEF Store
<1>10. store.pos + Len(piece) = job.offset + Len(got)
  BY SMTT(30), <1>2, <1>4, <1>5
<1> HIDE DEF got, j, t
<1>11. Got(j, t)
  BY <1>6, <1>7, <1>8, <1>9 DEF Got
<1> QED BY <1>8, <1>9, <1>10, <1>11 DEF j, t, piece, n

LEMMA ReadPieceStep ==
    ASSUME CacheFileParameters, FileInv, ReadPiece
    PROVE  FileInv'
<1> DEFINE n == PieceSize
           piece == Fetched(store, n)
           got == job.got \o piece
           j == [job EXCEPT !.got = @ \o piece]
           p == store.pos + Len(piece)
           t == [store EXCEPT !.pos = @ + Len(piece)]
           top == Minimum(job.length, file.extent - job.offset)
<1>1. /\ file \in File /\ job \in Job /\ sent \in Outstanding /\ store \in Store
      /\ known \in Known /\ doubt \in Doubts
  BY InvFacts
<1>2. sent.op = "read" /\ doubt' = doubt
  BY DEF ReadPiece
<1>3. /\ sent # Nothing /\ Usable(file) /\ ~job.err /\ ~Astray
      /\ job.cmd = "read" /\ job.offset < file.extent /\ job.length # 0
      /\ job.offset + job.length <= MaxSize /\ job.state = "done" /\ sent.length = top
      /\ sent.done = Len(job.got) /\ sent.done < sent.length
      /\ file.sequential = job.offset /\ Kept(file, store, known, doubt)
      /\ "position" \notin doubt => store.pos = job.offset + sent.done
      /\ job.offset \in Nat /\ job.length \in Nat /\ job.got \in Seq(Byte)
      /\ Len(job.got) \in Nat
      /\ sent.length \in Nat /\ sent.done \in Nat /\ file.extent \in Nat
      /\ store.pos \in Nat /\ store.data \in Seq(Byte) /\ Len(store.data) \in Nat
  BY <1>2, ReadUnderway
<1>4. n \in Nat \ {0} /\ sent.done + n <= sent.length
  BY <1>1, <1>3, PieceFacts
<1>5. "position" \notin doubt => t.pos = j.offset + Len(j.got) /\ Got(j, t)
  BY <1>2, ReadInPlace
<1> HIDE DEF top, n
<1>6. /\ piece \in Seq(Byte) /\ Len(piece) \in Nat /\ Len(piece) <= n
      /\ piece = <<>> => Len(store.data) <= store.pos /\ Len(piece) = 0
  BY <1>1, <1>4, FetchedFacts
<1>7. store' = t
  BY <1>2 DEF ReadPiece, Effect, n
<1> HIDE DEF piece
<1>8. t \in Store /\ t.data = store.data /\ t.pos = p
  <2>1. t = [store EXCEPT !.pos = p] /\ p \in Nat
    BY <1>3, <1>6
  <2> HIDE DEF p, t
  <2> QED BY <1>1, <2>1 DEF Store
<1>9. got \in Seq(Byte) /\ Len(got) = sent.done + Len(piece)
  BY <1>3, <1>6
<1>10. /\ j \in Job /\ j.cmd = job.cmd /\ j.offset = job.offset /\ j.length = job.length
       /\ j.state = job.state /\ j.err = job.err /\ j.got = got
  <2>1. j = [job EXCEPT !.got = got]
    OBVIOUS
  <2> HIDE DEF got, j
  <2> QED BY <1>1, <1>9, <2>1 DEF Job
<1> HIDE DEF got, j, t
<1>11. Kept(file, t, known, doubt)
  BY <1>3, <1>8 DEF Kept, Held, Holds
<1>12. Len(j.got) <= sent.length
  BY <1>3, <1>4, <1>6, <1>9, <1>10
<1>13. CASE piece # <<>> /\ sent.done + Len(piece) < sent.length
  <2> DEFINE c == sent.done + Len(piece)
             q == [sent EXCEPT !.done = c]
  <2>1. sent' = q /\ file' = file /\ job' = j /\ known' = known
    BY <1>13 DEF ReadPiece, n, piece, j
  <2>2. c \in Nat /\ c < sent.length /\ c = Len(j.got)
    BY <1>3, <1>6, <1>9, <1>10, <1>13
  <2> HIDE DEF c
  <2>3. q \in Outstanding /\ q.op = sent.op /\ q.length = sent.length /\ q.done = c
    BY <1>1, <2>2 DEF Outstanding
  <2> HIDE DEF q
  <2>4. Reading(file, j, q, t, known, doubt)
    BY <1>2, <1>3, <1>5, <1>10, <1>11, <2>2, <2>3 DEF Reading, top
  <2>5. Underway(file, j, q, t, known, doubt)
    BY <1>3, <1>10, <2>4 DEF Underway, Usable
  <2>6. q # Nothing
    BY <1>2, <2>3 DEF Nothing
  <2>7. Correct(file, j, q, t, known, doubt)
    BY <1>1, <1>8, <1>10, <2>3, <2>5, <2>6 DEF Correct, Known
  <2> QED BY <1>2, <1>7, <2>1, <2>7 DEF FileInv
<1>14. CASE ~(piece # <<>> /\ sent.done + Len(piece) < sent.length)
  <2>1. Reply(file, j)
    BY <1>14 DEF ReadPiece, n, piece, j
  <2>2. Len(j.got) >= Minimum(j.length, file.extent - j.offset) \/ Len(t.data) <= t.pos
    <3>1. CASE piece = <<>>
      BY <1>3, <1>6, <1>8, <3>1 DEF p
    <3>2. CASE ~(sent.done + Len(piece) < sent.length)
      BY <1>3, <1>6, <1>9, <1>10, <3>2 DEF top
    <3> QED BY <1>14, <3>1, <3>2
  <2>3. Len(j.got) <= Minimum(j.length, file.extent - j.offset)
    BY <1>3, <1>10, <1>12 DEF top
  <2>4. MaxSize \in Nat
    BY DEF CacheFileParameters
  <2>5. Outcome(OpRead(file, j, TRUE), t, known, doubt)
    BY <1>1, <1>3, <1>5, <1>8, <1>10, <1>11, <2>2, <2>3, <2>4, ReadFinishes
  <2>6. Handle(file, j, TRUE) = OpRead(file, j, TRUE)
    BY <1>3, <1>10 DEF Handle, Usable
  <2>7. KnownThen(OpRead(file, j, TRUE).job) = known
    BY <1>3, <1>10, <2>6, LearntNothing DEF Usable, KnownThen
  <2> QED BY <1>1, <1>2, <1>3, <1>7, <1>10, <2>1, <2>5, <2>6, <2>7, ReplyOutcome DEF Usable
<1> QED BY <1>13, <1>14

\* The remote file server has moved its pointer.
LEMMA SeekAnswered ==
    ASSUME CacheFileParameters, FileInv, Answer, sent.op = "seek"
    PROVE  FileInv'
<1> DEFINE t == [store EXCEPT !.pos = sent.length]
           d == doubt \ {"position"}
<1>1. /\ file \in File /\ job \in Job /\ sent \in Outstanding /\ store \in Store
      /\ known \in Known /\ d \in Doubts
  BY InvFacts DEF Doubts
<1>2. sent # Nothing /\ ~Astray
  BY DEF Nothing, Astray
<1>3. Underway(file, job, sent, store, known, doubt)
  BY <1>2, InvFacts
<1>4. Usable(file) /\ ~file.lost
  BY <1>3 DEF Underway, Usable
<1>5. store' = t /\ doubt' = d /\ Reply(file, job)
  BY DEF Answer, Effect
<1>6. t \in Store /\ t.pos = sent.length /\ t.data = store.data
  BY <1>1 DEF Store, Outstanding
<1>7. "size" \in d <=> "size" \in doubt
  OBVIOUS
<1> HIDE DEF t, d
<1>8. CASE Reading(file, job, sent, store, known, doubt)
  <2>1. /\ Reads(file, job) /\ job.state = "read" /\ t.pos = job.offset
        /\ Fresh(file, store, known, doubt)
    BY <1>3, <1>6, <1>8 DEF Reading, Reads, Underway
  <2>2. Kept(file, t, known, d)
    BY <1>6, <1>7, <2>1 DEF Fresh, Kept, Held, Holds
  <2>3. Outcome(OpRead(file, job, TRUE), t, known, d)
    BY <1>1, <1>4, <1>6, <2>1, <2>2, ReadSought
  <2>4. Handle(file, job, TRUE) = OpRead(file, job, TRUE)
    BY <1>4, <2>1 DEF Handle, Reads
  <2>5. KnownThen(OpRead(file, job, TRUE).job) = known
    BY <1>1, <1>2, <1>4, <2>1, <2>4, LearntNothing DEF Reads, KnownThen
  <2> QED BY <1>1, <1>4, <1>5, <2>3, <2>4, <2>5, ReplyOutcome
<1>9. CASE Writing(file, job, sent, store, known, doubt)
  <2>1. /\ Writes(file, job) /\ job.state = "write" /\ t.pos = job.offset
        /\ job.offset + job.length <= file.allocated /\ Fresh(file, store, known, doubt)
    BY <1>3, <1>6, <1>9 DEF Writing, Writes, Underway
  <2>2. Kept(file, t, known, d)
    BY <1>6, <1>7, <2>1 DEF Fresh, Kept, Held, Holds
  <2>3. Outcome(OpWrite(file, job, TRUE), t, known, d)
    BY <1>1, <1>4, <1>6, <2>1, <2>2, WriteSought
  <2>4. Handle(file, job, TRUE) = OpWrite(file, job, TRUE)
    BY <1>4, <2>1 DEF Handle, Writes
  <2>5. OpWrite(file, job, TRUE) = WriteBytes(file, job)
    BY <2>1 DEF OpWrite, Writes
  <2>6. KnownThen(OpWrite(file, job, TRUE).job) = known
    <3>1. job \in Job
      BY <1>1
    <3>2. Learnt(WriteBytes(file, job).job, known) = known
      BY <3>1, LearntResize
    <3> QED BY <1>2, <2>5, <3>2 DEF KnownThen
  <2> QED BY <1>1, <1>4, <1>5, <2>3, <2>4, <2>6, ReplyOutcome
<1> QED BY <1>3, <1>8, <1>9 DEF Underway, Arranging, Closing

\* A size that is asked for, except in a close, is more than is allocated.
LEMMA SizeUnderway ==
    ASSUME CacheFileParameters, FileInv, sent.op = "size"
    PROVE  /\ Fresh(file, store, known, doubt) /\ ~Astray
           /\ job.cmd # "close" => file.allocated < sent.length
<1>1. sent # Nothing /\ ~Astray
  BY DEF Nothing, Astray
<1>2. Underway(file, job, sent, store, known, doubt)
  BY <1>1, InvFacts
<1>3. file \in File /\ job \in Job
  BY InvFacts
<1>4. CASE Writing(file, job, sent, store, known, doubt)
  <2>1. /\ Fresh(file, store, known, doubt) /\ sent.length = Round(job.offset + job.length)
        /\ file.allocated < job.offset + job.length
    BY <1>4 DEF Writing
  <2>2. job.offset + job.length \in Nat
    BY <1>3 DEF Job
  <2>3. sent.length \in Nat /\ job.offset + job.length <= sent.length
    BY <2>1, <2>2, RoundFacts
  <2> QED BY <1>1, <1>3, <2>1, <2>2, <2>3, FileFields
<1>5. CASE Arranging(file, job, sent, store, known, doubt)
  BY <1>1, <1>5 DEF Arranging
<1>6. CASE Closing(file, job, sent, store, known, doubt)
  BY <1>1, <1>6 DEF Closing
<1> QED BY <1>2, <1>4, <1>5, <1>6 DEF Underway, Reading

\* A larger file holds what it held.
LEMMA GrownHeld ==
    ASSUME NEW s \in Store, NEW k, NEW m \in Nat, NEW n \in Nat, Held(s, k), Within(m, k), m < n
    PROVE  Held(SetSize(s, n), k)
<1>1. ASSUME NEW i \in Positions, k[i] # Unknown
      PROVE  Holds(SetSize(s, n), i, k[i])
  <2>1. i \in Int
    BY DEF Positions
  <2>2. Holds(s, i, k[i]) /\ i < n
    BY <1>1, <2>1 DEF Held, Within
  <2> QED BY <2>2, SetSizeFacts
<1> QED BY <1>1 DEF Held

\* The remote file server has set the size of the file.
LEMMA SizeAnswered ==
    ASSUME CacheFileParameters, FileInv, Answer, sent.op = "size"
    PROVE  FileInv'
<1> DEFINE t == SetSize(store, sent.length)
           d == doubt \ {"size"}
<1>1. /\ file \in File /\ job \in Job /\ sent \in Outstanding /\ store \in Store
      /\ known \in Known /\ d \in Doubts
  BY InvFacts DEF Doubts
<1>2. sent # Nothing
  BY DEF Nothing
<1>3. Underway(file, job, sent, store, known, doubt)
  BY <1>2, InvFacts
<1>4. Usable(file) /\ ~file.lost /\ ~job.err
  BY <1>3 DEF Underway, Usable
<1>5. store' = t /\ doubt' = d /\ Reply(file, job)
  BY DEF Answer, Effect, SetSize
<1>6. sent.length \in Nat /\ file.allocated \in Nat
  BY <1>1 DEF Outstanding, File
<1>7. /\ t \in Store /\ t.pos = store.pos /\ Len(t.data) = sent.length
      /\ \A i \in Positions : i < sent.length => \A x : Holds(store, i, x) => Holds(t, i, x)
  BY <1>1, <1>6, SetSizeFacts
<1>8. /\ Fresh(file, store, known, doubt) /\ ~Astray
      /\ job.cmd # "close" => file.allocated < sent.length
  BY SizeUnderway
<1>9. /\ Held(store, known) /\ Within(file.allocated, known)
      /\ "position" \notin d => t.pos = file.sequential
  BY <1>7, <1>8 DEF Fresh, Kept
<1>10. job.cmd # "close" => Held(t, known)
  BY <1>1, <1>6, <1>8, <1>9, GrownHeld
<1> HIDE DEF t, d
<1>11. CASE Writing(file, job, sent, store, known, doubt)
  <2>1. /\ Writes(file, job) /\ job.state = "resize"
        /\ sent.length = Round(job.offset + job.length)
        /\ file.allocated < job.offset + job.length
    BY <1>3, <1>11 DEF Writing, Writes, Underway
  <2>2. Held(t, known)
    BY <1>10, <2>1 DEF Writes
  <2>3. Outcome(OpWrite(file, job, TRUE), t, known, d)
    BY <1>1, <1>4, <1>7, <1>9, <2>1, <2>2, WriteSized
  <2>4. Handle(file, job, TRUE) = OpWrite(file, job, TRUE)
    BY <1>4, <2>1 DEF Handle, Writes
  <2>5. KnownThen(OpWrite(file, job, TRUE).job) = known
    <3> DEFINE r == Resized(file, job.offset + job.length, Round(job.offset + job.length))
    <3>1. OpWrite(file, job, TRUE) = Resize(r, job)
      BY <2>1 DEF OpWrite, Writes
    <3> HIDE DEF r
    <3>2. job \in Job
      BY <1>1
    <3>3. Learnt(Resize(r, job).job, known) = known
      BY <3>2, LearntResize
    <3> QED BY <1>8, <3>1, <3>3 DEF KnownThen
  <2> QED BY <1>1, <1>4, <1>5, <2>3, <2>4, <2>5, ReplyOutcome
<1>12. CASE Arranging(file, job, sent, store, known, doubt)
  <2>1. /\ file.write
        /\ \/ job.cmd \in {"allocated", "extent"} /\ sent.length = Round(job.length)
           \/ job.cmd = "sequential" /\ sent.length = Round(job.offset) /\ file.extent < job.offset
    BY <1>12 DEF Arranging
  <2>2. Sizing(file, job, t, known, sent.length, d)
    BY <1>4, <1>7, <1>8, <1>9, <1>10, <2>1 DEF Sizing
  <2>3. Outcome(Handle(file, job, TRUE), t, known, d)
    <3>1. CASE job.cmd = "allocated"
      BY <1>1, <1>4, <1>7, <2>1, <2>2, <3>1, AllocatedSized DEF Handle
    <3>2. CASE job.cmd = "extent"
      BY <1>1, <1>4, <1>7, <2>1, <2>2, <3>2, ExtentSized DEF Handle
    <3>3. CASE job.cmd = "sequential"
      BY <1>1, <1>4, <1>7, <2>1, <2>2, <3>3, SequentialSized DEF Handle
    <3> QED BY <2>1, <3>1, <3>2, <3>3
  <2>4. KnownThen(Handle(file, job, TRUE).job) = known
    <3>1. job.cmd \notin {"write", "zero"}
      BY <2>1
    <3> QED BY <1>1, <1>4, <1>8, <3>1, LearntNothing DEF KnownThen
  <2> QED BY <1>1, <1>4, <1>5, <2>3, <2>4, ReplyOutcome
<1>13. CASE Closing(file, job, sent, store, known, doubt)
  <2>1. job.cmd = "close" /\ job.state = "close" /\ sent.length = file.extent
    BY <1>13 DEF Closing
  <2>2. CloseDone(file, t, known)
    BY <1>7, <1>9, <2>1 DEF CloseDone, Held
  <2>3. Outcome(OpClose(file, job, TRUE), t, known, d)
    BY <1>1, <1>4, <1>7, <2>1, <2>2, CloseSized
  <2>4. Handle(file, job, TRUE) = OpClose(file, job, TRUE)
    BY <1>4, <2>1 DEF Handle
  <2>5. KnownThen(OpClose(file, job, TRUE).job) = known
    BY <1>1, <1>4, <1>8, <2>1, <2>4, LearntNothing DEF KnownThen
  <2> QED BY <1>1, <1>4, <1>5, <2>3, <2>4, <2>5, ReplyOutcome
<1> QED BY <1>3, <1>11, <1>12, <1>13 DEF Underway, Reading

\* The remote file server has closed the file.
LEMMA CloseAnswered ==
    ASSUME FileInv, Answer, sent.op = "close"
    PROVE  FileInv'
<1>1. /\ file \in File /\ job \in Job /\ sent \in Outstanding /\ store \in Store
      /\ known \in Known /\ doubt \in Doubts
  BY InvFacts
<1>2. sent # Nothing /\ ~Astray
  BY DEF Nothing, Astray
<1>3. Underway(file, job, sent, store, known, doubt)
  BY <1>2, InvFacts
<1>4. ~file.lost /\ Closing(file, job, sent, store, known, doubt)
  BY <1>3 DEF Underway, Reading, Writing, Arranging
<1>5. store' = store /\ doubt' = doubt /\ Reply(file, job)
  BY DEF Answer, Effect
<1>6. job.cmd = "close" /\ job.state = "done" /\ CloseDone(file, store, known)
  BY <1>4 DEF Closing
<1>7. Outcome(OpClose(file, job, TRUE), store, known, doubt)
  BY <1>1, <1>6, CloseFinishes
<1>8. Handle(file, job, TRUE) = OpClose(file, job, TRUE)
  BY <1>4, <1>6 DEF Handle
<1>9. KnownThen(OpClose(file, job, TRUE).job) = known
  BY <1>1, <1>2, <1>4, <1>6, <1>8, LearntNothing DEF KnownThen
<1> QED BY <1>1, <1>4, <1>5, <1>7, <1>8, <1>9, ReplyOutcome

\* What a request, or the next piece of it, does to the remote file
LEMMA EffectType ==
    ASSUME CacheFileParameters, FileInv
    PROVE  Effect \in Store
<1>1. job \in Job /\ sent \in Outstanding /\ store \in Store
  BY InvFacts
<1>2. sent.length \in Nat
  BY <1>1 DEF Outstanding
<1>3. CASE sent.op = "seek"
  <2>1. Effect = [store EXCEPT !.pos = sent.length]
    BY <1>3 DEF Effect
  <2> QED BY <1>1, <1>2, <2>1 DEF Store
<1>4. CASE sent.op = "size"
  <2>1. Effect = SetSize(store, sent.length)
    BY <1>4 DEF Effect, SetSize
  <2> QED BY <1>1, <1>2, <2>1, SetSizeFacts
<1>5. CASE sent.op = "write"
  <2>1. Effect = Written(store, Bytes(PieceSize, job.value))
    BY <1>5 DEF Effect
  <2>2. job.value \in Byte /\ PieceSize \in Nat
    BY <1>1, <1>5, WriteUnderway, PieceFacts
  <2> QED BY <1>1, <2>1, <2>2, WrittenFacts
<1>6. CASE sent.op = "read"
  <2> DEFINE c == Len(Fetched(store, PieceSize))
             p == store.pos + c
  <2>1. Effect = [store EXCEPT !.pos = p]
    BY <1>6 DEF Effect
  <2>2. c \in Nat
    <3>1. PieceSize \in Nat \ {0}
      BY <1>1, <1>6, ReadUnderway, PieceFacts
    <3>2. Fetched(store, PieceSize) \in Seq(Byte)
      BY <1>1, <3>1, FetchedFacts
    <3> QED BY <3>2
  <2> HIDE DEF c
  <2>3. p \in Nat
    BY <1>1, <2>2 DEF Store
  <2> HIDE DEF p
  <2> QED BY <1>1, <2>1, <2>3 DEF Store
<1>7. CASE sent.op \notin {"seek", "size", "write", "read"}
  <2>1. Effect = store
    BY <1>7 DEF Effect
  <2> QED BY <1>1, <2>1
<1> QED BY <1>3, <1>4, <1>5, <1>6, <1>7

\* After an error, no more is known, and of a write only what is around it.
LEMMA KnownError ==
    ASSUME NEW h \in File, job \in Job
    PROVE  LET l == KnownThen(Finished(h, job, TRUE).job) IN
           /\ Astray => l = NothingKnown
           /\ \A i \in Positions : l[i] \in {known[i], Unknown}
           /\ ~Astray /\ job.cmd \in {"write", "zero"} =>
                 \A i \in Positions : l[i] # Unknown =>
                     l[i] = known[i] /\ (i < job.offset \/ i >= job.offset + job.length)
<1> DEFINE m == Finished(h, job, TRUE).job
           l == KnownThen(m)
<1>1. /\ m.err /\ m.offset = job.offset /\ m.length = job.length /\ m.cmd = job.cmd
      /\ m.state = "finished"
  BY DEF Finished, Left, Job
<1> HIDE DEF m
<1>2. CASE Astray
  <2>1. l = NothingKnown
    BY <1>2 DEF KnownThen
  <2> HIDE DEF l
  <2> QED BY <1>2, <2>1 DEF NothingKnown, m, l
<1>3. CASE ~Astray /\ job.cmd \in {"write", "zero"}
  <2>1. l = [i \in Positions |-> IF i < job.offset \/ i >= job.offset + job.length THEN known[i]
                                 ELSE Unknown]
    BY <1>1, <1>3 DEF KnownThen, Learnt
  <2> HIDE DEF l
  <2>2. /\ \A i \in Positions : l[i] \in {known[i], Unknown}
        /\ \A i \in Positions : l[i] # Unknown =>
              l[i] = known[i] /\ (i < job.offset \/ i >= job.offset + job.length)
    BY <2>1
  <2> QED BY <1>3, <2>2 DEF l, m
<1>4. CASE ~Astray /\ job.cmd \notin {"write", "zero"}
  <2>1. l = known
    BY <1>1, <1>4 DEF KnownThen, Learnt
  <2> HIDE DEF l
  <2> QED BY <1>4, <2>1 DEF l, m
<1> QED BY <1>2, <1>3, <1>4

LEMMA Forgotten ==
    ASSUME NEW s, NEW n, NEW k, NEW l, \A i \in Positions : l[i] \in {k[i], Unknown}
    PROVE  (Held(s, k) => Held(s, l)) /\ (Within(n, k) => Within(n, l))
BY DEF Held, Within

\* A write of bytes that are where they belong fails.
LEMMA WriteCutShort ==
    ASSUME CacheFileParameters, FileInv, sent.op = "write", "position" \notin doubt,
           NEW late \in BOOLEAN, NEW l,
           \A i \in Positions : l[i] # Unknown =>
               l[i] = known[i] /\ (i < job.offset \/ i >= job.offset + job.length)
    PROVE  LET t == IF late THEN Effect ELSE store IN
           /\ "size" \notin doubt => Len(t.data) <= file.allocated
           /\ Held(t, l)
<1> DEFINE t == IF late THEN Effect ELSE store
           n == IF late THEN sent.done + PieceSize ELSE sent.done
<1>1. /\ sent.length = job.length /\ sent.done < sent.length
      /\ "size" \notin doubt => Len(store.data) <= file.allocated
      /\ Begun(job, sent.done, store, known)
      /\ job.offset \in Nat /\ job.length \in Nat
      /\ sent.length \in Nat /\ sent.done \in Nat
  BY WriteUnderway
<1>2. PieceSize \in Nat /\ sent.done + PieceSize <= sent.length
  BY <1>1, InvFacts, PieceFacts
<1>3. Effect = Written(store, Bytes(PieceSize, job.value))
  BY DEF Effect
<1>4. /\ n \in Nat /\ n <= job.length
      /\ "size" \notin doubt => Len(t.data) <= file.allocated
      /\ Begun(job, n, t, known)
  <2>1. CASE late
    <3>1. t = Effect /\ n = sent.done + PieceSize
      BY <2>1
    <3> HIDE DEF t, n
    <3> QED BY <1>1, <1>2, <1>3, <3>1, WrittenInPlace
  <2>2. CASE ~late
    BY <1>1, <2>2
  <2> QED BY <2>1, <2>2
<1> HIDE DEF t, n
<1>5. ASSUME NEW i \in Positions, l[i] # Unknown
      PROVE  Holds(t, i, l[i])
  <2>1. i \in Nat
    BY DEF Positions
  <2>2. l[i] = known[i] /\ (i < job.offset \/ i >= job.offset + n)
    <3>1. l[i] = known[i] /\ (i < job.offset \/ i >= job.offset + job.length)
      BY <1>5
    <3> QED BY <1>1, <1>4, <2>1, <3>1
  <2> QED BY <1>4, <1>5, <2>2 DEF Begun
<1>6. Held(t, l)
  BY <1>5 DEF Held
<1> QED BY <1>4, <1>6 DEF t

\* What a request that failed leaves, carried out all the same or not
LEMMA RefusedFresh ==
    ASSUME CacheFileParameters, FileInv, sent # Nothing, job.cmd # "close", NEW late \in BOOLEAN
    PROVE  Fresh(file, IF late THEN Effect ELSE store,
                 KnownThen(Finished(file, job, TRUE).job), doubt \cup Unsure(late))
<1> DEFINE t == IF late THEN Effect ELSE store
           l == KnownThen(Finished(file, job, TRUE).job)
           d == doubt \cup Unsure(late)
<1>1. /\ file \in File /\ job \in Job /\ sent \in Outstanding /\ store \in Store
  BY InvFacts
<1>2. Underway(file, job, sent, store, known, doubt)
  BY InvFacts
<1>3. /\ Astray => l = NothingKnown
      /\ \A i \in Positions : l[i] \in {known[i], Unknown}
      /\ ~Astray /\ job.cmd \in {"write", "zero"} =>
            \A i \in Positions : l[i] # Unknown =>
                l[i] = known[i] /\ (i < job.offset \/ i >= job.offset + job.length)
  BY <1>1, KnownError
<1> HIDE DEF l
<1>4. sent.op \in {"seek", "size", "read", "write"}
  BY <1>2 DEF Underway, Reading, Writing, Arranging, Closing
<1>5. CASE sent.op = "seek"
  <2>1. Fresh(file, store, known, doubt)
    BY <1>2, <1>5 DEF Underway, Reading, Writing, Arranging, Closing
  <2>2. t.data = store.data /\ (~late => t = store)
    BY <1>1, <1>5 DEF Effect, Store
  <2> HIDE DEF t
  <2>3. /\ "position" \notin d => "position" \notin doubt /\ ~late
        /\ "size" \notin d => "size" \notin doubt
    BY <1>5 DEF Unsure
  <2> HIDE DEF d
  <2>4. Held(t, known)
    BY <2>1, <2>2 DEF Fresh, Kept, Held, Holds
  <2>5. Held(t, l) /\ Within(file.allocated, l)
    BY <1>3, <2>1, <2>4, Forgotten DEF Fresh, Kept
  <2>6. Fresh(file, t, l, d)
    BY <2>1, <2>2, <2>3, <2>5 DEF Fresh, Kept
  <2> QED BY <2>6 DEF t, l, d
<1>6. CASE sent.op = "size"
  <2>1. Fresh(file, store, known, doubt) /\ file.allocated < sent.length
    BY <1>6, SizeUnderway
  <2>2. sent.length \in Nat /\ file.allocated \in Nat
    BY <1>1 DEF Outstanding, File
  <2>3. Effect = SetSize(store, sent.length)
    BY <1>6 DEF Effect, SetSize
  <2>4. Held(store, known) /\ Within(file.allocated, known)
    BY <2>1 DEF Fresh, Kept
  <2>5. t.pos = store.pos /\ Held(t, known) /\ (~late => t = store)
    BY <1>1, <2>1, <2>2, <2>3, <2>4, SetSizeFacts, GrownHeld
  <2> HIDE DEF t
  <2>6. /\ "position" \notin d => "position" \notin doubt
        /\ "size" \notin d => "size" \notin doubt /\ ~late
    BY <1>6 DEF Unsure
  <2> HIDE DEF d
  <2>7. Held(t, l) /\ Within(file.allocated, l)
    BY <1>3, <2>4, <2>5, Forgotten
  <2>8. Fresh(file, t, l, d)
    BY <2>1, <2>5, <2>6, <2>7 DEF Fresh, Kept
  <2> QED BY <2>8 DEF t, l, d
<1>7. CASE sent.op = "read"
  <2>1. /\ file.sequential = job.offset /\ Kept(file, store, known, doubt)
        /\ "position" \notin doubt => store.pos = job.offset + sent.done
        /\ job.offset \in Nat /\ sent.done \in Nat
    BY <1>7, ReadUnderway
  <2>2. t.data = store.data /\ (~late => t = store)
    BY <1>1, <1>7 DEF Effect, Store
  <2> HIDE DEF t
  <2>3. /\ "position" \notin d => "position" \notin doubt /\ ~late /\ ~(sent.done > 0)
        /\ "size" \notin d => "size" \notin doubt
    BY <1>7 DEF Unsure
  <2> HIDE DEF d
  <2>4. "position" \notin d => t.pos = file.sequential
    BY <2>1, <2>2, <2>3
  <2>5. Held(t, known) /\ Within(file.allocated, known)
    BY <2>1, <2>2 DEF Kept, Held, Holds
  <2>6. Held(t, l) /\ Within(file.allocated, l)
    BY <1>3, <2>5, Forgotten
  <2>7. Fresh(file, t, l, d)
    BY <2>1, <2>2, <2>3, <2>4, <2>6 DEF Fresh, Kept
  <2> QED BY <2>7 DEF t, l, d
<1>8. CASE sent.op = "write"
  <2>1. /\ Writes(file, job) /\ file.sequential = job.offset
        /\ Within(file.allocated, known)
        /\ "position" \notin doubt => store.pos = job.offset + sent.done
        /\ job.offset \in Nat /\ sent.done \in Nat
    BY <1>8, WriteUnderway
  <2>2. Within(file.allocated, l)
    BY <1>3, <2>1, Forgotten
  <2>3. CASE Astray
    <3>1. "position" \in d /\ "size" \in d
      BY <2>3 DEF Unsure, Astray
    <3>2. Held(t, l)
      BY <1>3, <2>3, BlankFacts
    <3> HIDE DEF t, d
    <3>3. Fresh(file, t, l, d)
      BY <2>2, <3>1, <3>2 DEF Fresh, Kept
    <3> QED BY <3>3 DEF t, l, d
  <2>4. CASE ~Astray
    <3>1. "position" \notin doubt
      BY <1>8, <2>4 DEF Astray
    <3>2. \A i \in Positions : l[i] # Unknown =>
              l[i] = known[i] /\ (i < job.offset \/ i >= job.offset + job.length)
      BY <1>3, <2>1, <2>4 DEF Writes
    <3>3. ("size" \notin doubt => Len(t.data) <= file.allocated) /\ Held(t, l)
      BY <1>8, <3>1, <3>2, WriteCutShort
    <3>4. ~late => t = store
      OBVIOUS
    <3> HIDE DEF t
    <3>5. /\ "position" \notin d => ~late /\ ~(sent.done > 0)
          /\ "size" \notin d => "size" \notin doubt
      BY <1>8 DEF Unsure
    <3> HIDE DEF d
    <3>6. "position" \notin d => t.pos = file.sequential
      BY <2>1, <3>1, <3>4, <3>5
    <3>7. Fresh(file, t, l, d)
      BY <2>2, <3>3, <3>5, <3>6 DEF Fresh, Kept
    <3> QED BY <3>7 DEF t, l, d
  <2> QED BY <2>3, <2>4
<1> QED BY <1>4, <1>5, <1>6, <1>7, <1>8

LEMMA RefuseStep ==
    ASSUME CacheFileParameters, FileInv, Refuse
    PROVE  FileInv'
<1>1. PICK late \in BOOLEAN :
        /\ sent # Nothing
        /\ Apply(Finished(file, job, TRUE)) /\ Learn(Finished(file, job, TRUE).job)
        /\ store' = IF late THEN Effect ELSE store
        /\ doubt' = doubt \cup Unsure(late)
  BY DEF Refuse
<1> DEFINE next == Finished(file, job, TRUE)
           t == IF late THEN Effect ELSE store
           l == KnownThen(next.job)
           d == doubt \cup Unsure(late)
<1>2. /\ file \in File /\ job \in Job /\ store \in Store /\ known \in Known /\ doubt \in Doubts
  BY InvFacts
<1>3. known' = l
  BY <1>1, LearntKnown
<1>4. next.job \in Job
  BY <1>2 DEF Finished, Left, Job, States
<1>5. l \in Known
  BY <1>2, <1>4, KnownThenType
<1>6. t \in Store
  BY <1>2, EffectType
<1>7. d \in Doubts
  BY <1>2 DEF Unsure, Doubts
<1>8. Underway(file, job, sent, store, known, doubt)
  BY <1>1, InvFacts
<1>9. job.cmd # "close" => Fresh(file, t, l, d)
  BY <1>1, RefusedFresh
<1>10. store' = t /\ doubt' = d
  BY <1>1
<1> HIDE DEF t, l, d
<1>11. Outcome(next, t, l, d)
  <2>1. CASE job.cmd = "close"
    BY <1>2, <1>5, <1>6, <1>7, <1>8, <2>1, EndedWell DEF Underway
  <2>2. CASE job.cmd # "close"
    <3>1. Rests(file, t, l, d)
      BY <1>8, <1>9, <2>2 DEF Rests, Underway
    <3> QED BY <1>2, <1>5, <1>6, <1>7, <2>2, <3>1, Ended
  <2> QED BY <2>1, <2>2
<1> HIDE DEF next
<1>12. Apply(next)
  BY <1>1 DEF next
<1> QED BY <1>3, <1>10, <1>11, <1>12, Applied

LEMMA LoseStep ==
    ASSUME CacheFileParameters, FileInv, Lose
    PROVE  FileInv'
<1>1. PICK late \in BOOLEAN : store' = IF late THEN Effect ELSE store
  BY DEF Lose
<1> DEFINE f == [file EXCEPT !.lost = TRUE, !.open = FALSE]
           next == IF Idle THEN Left(f, NoJob, sent) ELSE Finished(f, job, TRUE)
           t == IF late THEN Effect ELSE store
           l == KnownThen(next.job)
<1>2. /\ file \in File /\ job \in Job /\ store \in Store /\ known \in Known /\ doubt \in Doubts
  BY InvFacts
<1>3. Apply(next) /\ Learn(next.job) /\ store' = t /\ doubt' = doubt
  BY <1>1 DEF Lose
<1>4. known' = l
  <2> HIDE DEF next
  <2> QED BY <1>3, LearntKnown
<1>5. f \in File /\ ~f.open
  BY <1>2 DEF File
<1> HIDE DEF f
<1>6. next.job \in Job
  BY <1>2, NoJobType DEF Finished, Left, Job, States
<1>7. l \in Known
  BY <1>2, <1>6, KnownThenType
<1>8. t \in Store
  BY <1>2, EffectType
<1> HIDE DEF l, t
<1>9. Rests(f, t, l, doubt)
  BY <1>5 DEF Rests
<1>10. CASE Idle
  <2>1. next.file = f /\ next.job = NoJob /\ next.sent = Nothing
    BY <1>10 DEF Left, Idle
  <2>2. Returned(NoJob) = NoJob /\ NoJob = [NoJob EXCEPT !.err = NoJob.err]
    BY DEF Returned, NoJob
  <2>3. AtRest(f, NoJob, t, l, doubt)
    BY <1>5, <2>2 DEF AtRest
  <2>4. Correct(f, NoJob, Nothing, t, l, doubt)
    BY <1>2, <1>5, <1>7, <1>8, <2>3, NoJobType, NothingType DEF Correct, Known
  <2> HIDE DEF next
  <2>5. Outcome(next, t, l, doubt)
    BY <2>1, <2>2, <2>4 DEF Outcome
  <2> QED BY <1>3, <1>4, <2>5, Applied
<1>11. CASE ~Idle
  <2>1. next = Finished(f, job, TRUE)
    BY <1>11
  <2>2. Outcome(Finished(f, job, TRUE), t, l, doubt)
    <3>1. CASE job.cmd = "close"
      BY <1>2, <1>5, <1>7, <1>8, <3>1, EndedWell
    <3>2. CASE job.cmd # "close"
      BY <1>2, <1>5, <1>7, <1>8, <1>9, <3>2, Ended
    <3> QED BY <3>1, <3>2
  <2> HIDE DEF next
  <2> QED BY <1>3, <1>4, <2>1, <2>2, Applied
<1> QED BY <1>10, <1>11

LEMMA NextStep ==
    ASSUME CacheFileParameters, FileInv, [FileNext]_fvars
    PROVE  FileInv'
<1>1. CASE UNCHANGED fvars
  BY <1>1 DEF fvars, FileInv, Correct, AtRest, Underway
<1>2. ASSUME NEW mode, Open(mode) PROVE FileInv'
  BY <1>2, OpenStep
<1>3. Zero \in Byte /\ Values \subseteq Byte
  BY DEF Byte
<1>4. CASE TransferCall
  <2>1. PICK offset \in Positions, length \in Lengths, value \in Values :
           \/ Call("read", offset, length, Zero)
           \/ Call("write", offset, length, value)
           \/ Call("zero", offset, length, Zero)
    BY <1>4 DEF TransferCall
  <2>2. offset \in Nat /\ length \in Nat /\ length # 0 /\ value \in Byte
    BY <1>3 DEF CacheFileParameters, Positions
  <2>3. PICK cmd \in Cmds \ {"none"}, v \in Byte : Call(cmd, offset, length, v)
    BY <1>3, <2>1, <2>2 DEF Cmds
  <2> QED BY <2>2, <2>3, CallStep
<1>5. CASE Arrange
  <2>1. PICK cmd \in Cmds \ {"none", "write", "zero"}, offset \in Nat, length \in Nat :
           Call(cmd, offset, length, Zero)
    <3>1. Sizes \subseteq Nat
      BY DEF CacheFileParameters
    <3>2. CASE \E length \in Sizes : Call("allocated", 0, length, Zero)
      BY <3>1, <3>2 DEF Cmds
    <3>3. CASE \E length \in Sizes : Call("extent", 0, length, Zero)
      BY <3>1, <3>3 DEF Cmds
    <3>4. CASE \E offset \in Sizes : Call("sequential", offset, 0, Zero)
      BY <3>1, <3>4 DEF Cmds
    <3>5. CASE Call("close", 0, 0, Zero)
      BY <3>5 DEF Cmds
    <3> QED BY <1>5, <3>2, <3>3, <3>4, <3>5 DEF Arrange
  <2> QED BY <1>3, <2>1, CallStep
<1>6. CASE WritePiece
  BY <1>6, WritePieceStep
<1>7. CASE ReadPiece
  BY <1>7, ReadPieceStep
<1>8. CASE Answer
  <2>1. sent.op \in {"seek", "size", "close"}
    BY <1>8 DEF Answer
  <2> QED BY <1>8, <2>1, SeekAnswered, SizeAnswered, CloseAnswered
<1>9. CASE Refuse
  BY <1>9, RefuseStep
<1>10. CASE Lose
  BY <1>10, LoseStep
<1> QED BY <1>1, <1>2, <1>4, <1>5, <1>6, <1>7, <1>8, <1>9, <1>10 DEF FileNext

LEMMA InvSafe == FileInv => FileOK
<1> SUFFICES ASSUME FileInv PROVE FileOK
  OBVIOUS
<1>1. Idle => AtRest(file, job, store, known, doubt)
  BY IdleRests, InvFacts
<1>2. ASSUME job.state = "finished" PROVE sent = Nothing
  <2>1. SUFFICES ASSUME sent # Nothing PROVE FALSE
    OBVIOUS
  <2>2. Underway(file, job, sent, store, known, doubt)
    BY <2>1, InvFacts
  <2> QED BY <1>2, <2>2 DEF Underway, Reading, Writing, Arranging, Closing
<1>3. Ready => Fits(file) /\ Fresh(file, store, known, doubt)
  BY <1>1 DEF Ready, AtRest
<1>4. HandleOK
  BY <1>3 DEF HandleOK, Fits, Fresh, Kept
<1>5. job.state = "finished" => AtRest(file, job, store, known, doubt)
  BY <1>2, InvFacts
<1>6. ASSUME job.state = "finished", job.cmd \in {"read", "close"}
      PROVE  \/ job.cmd = "read" /\ ReadDone(file, job, known, doubt)
             \/ job.cmd = "close" /\ (~job.err => CloseDone(file, store, known))
  <2>1. job # [NoJob EXCEPT !.err = job.err]
    BY <1>6 DEF NoJob
  <2> QED BY <1>5, <1>6, <2>1 DEF AtRest
<1>7. DataOK
  <2>1. ASSUME Ready, NEW i \in Positions, known[i] # Unknown
        PROVE  i < Len(store.data) /\ store.data[i + 1] = known[i]
    BY <1>3, <2>1 DEF Fresh, Kept, Held, Holds
  <2>2. job.cmd = "read" /\ job.state = "finished" => ReadDone(file, job, known, doubt)
    BY <1>6
  <2> QED BY <2>1, <2>2 DEF DataOK, ReadDone
<1>8. CloseOK
  BY <1>6 DEF CloseOK, CloseDone, Holds
<1> QED BY <1>4, <1>7, <1>8 DEF FileOK

\* For any sizes of buffers, pieces and files, and whichever requests fail, also
\* half way or late: the request that is sent is for the command that the client
\* asked for last, and what it has moved is what the state says, but for what a
\* request that failed leaves in doubt.
THEOREM FileInvariant ==
    CacheFileParameters /\ FileSpec => []FileInv
<1> SUFFICES ASSUME CacheFileParameters PROVE FileSpec => []FileInv
  OBVIOUS
<1>1. FileInit => FileInv
  BY InitStep
<1>2. FileInv /\ [FileNext]_fvars => FileInv'
  BY NextStep
<1> QED BY <1>1, <1>2, PTL DEF FileSpec

\* A handle's sizes and position are those of the remote file unless a request
\* that failed has left them in doubt; what clients wrote with success, at a
\* position that was not in doubt, is in the remote file while it is open, is
\* what a read returns, and as far as the handle's extent goes is in the file
\* that was closed with success, which has that extent (cache_op_read to
\* cache_op_close and the loops of unified_callback).
THEOREM FileSafe ==
    CacheFileParameters /\ FileSpec => []FileOK
<1> SUFFICES ASSUME CacheFileParameters PROVE FileSpec => []FileOK
  OBVIOUS
<1>1. FileInv => FileOK
  BY InvSafe
<1> QED BY <1>1, FileInvariant, PTL

-----------------------------------------------------------------------------
(* The plans of the entry points.                                          *)

Ops ==
    {"none", "drive", "info", "open", "args", "read", "write", "sequential", "extent", "zero",
     "flush", "stamp", "close", "access", "remove", "mkdir", "rename", "enumerate", "name"}
Steps == [op : Ops, kind : {"must", "try", "always"}]

\* A plan with no "always", and one that may end with the close of a file
PlainSteps == [op : Ops, kind : {"must", "try"}]
Plain == Seq(PlainSteps)
Closes(p) ==
    /\ p \in Seq(Steps)
    /\ \A i \in 1 .. Len(p) : p[i].kind = "always" => i = Len(p) /\ p[i].op = "close"

LEMMA StepPlain ==
    ASSUME NEW op \in Ops
    PROVE  Must(op) \in Plain /\ Try(op) \in Plain
<1>1. \A kind \in {"must", "try"} : [op |-> op, kind |-> kind] \in PlainSteps
  BY DEF PlainSteps
<1> QED BY <1>1 DEF Must, Try, Plain

LEMMA PlainFollows ==
    ASSUME NEW p \in Plain, NEW q \in Plain
    PROVE  p \o q \in Plain
BY DEF Plain

\* The operations that plans are made of
LEMMA EachPlain ==
    /\ <<>> \in Plain
    /\ \A op \in Ops : Must(op) \in Plain
    /\ Must("drive") \in Plain /\ Must("info") \in Plain /\ Must("open") \in Plain
    /\ Must("args") \in Plain /\ Must("read") \in Plain /\ Must("write") \in Plain
    /\ Must("sequential") \in Plain /\ Must("extent") \in Plain /\ Must("zero") \in Plain
    /\ Must("flush") \in Plain /\ Must("stamp") \in Plain /\ Must("close") \in Plain
    /\ Must("access") \in Plain /\ Must("remove") \in Plain /\ Must("mkdir") \in Plain
    /\ Must("rename") \in Plain /\ Must("enumerate") \in Plain /\ Must("name") \in Plain
    /\ Try("stamp") \in Plain /\ Try("drive") \in Plain
<1>1. <<>> \in Plain
  BY DEF Plain
<1>2. /\ "drive" \in Ops /\ "info" \in Ops /\ "open" \in Ops /\ "args" \in Ops /\ "read" \in Ops
      /\ "write" \in Ops /\ "sequential" \in Ops /\ "extent" \in Ops /\ "zero" \in Ops
      /\ "flush" \in Ops /\ "stamp" \in Ops /\ "close" \in Ops /\ "access" \in Ops
      /\ "remove" \in Ops /\ "mkdir" \in Ops /\ "rename" \in Ops /\ "enumerate" \in Ops
      /\ "name" \in Ops
  BY DEF Ops
<1> QED BY <1>1, <1>2, StepPlain

LEMMA DrivePlain == EntryParameters => Drive \subseteq Plain
<1> SUFFICES ASSUME EntryParameters, NEW d \in Drive PROVE d \in Plain
  OBVIOUS
<1>1. CASE d = Must("drive")
  BY <1>1, EachPlain
<1>2. ASSUME NEW n \in SearchLengths, d = [i \in 1 .. n |-> Try("drive")[1]]
      PROVE  d \in Plain
  <2>1. n \in Nat
    BY DEF EntryParameters
  <2>2. Try("drive")[1] \in PlainSteps
    BY DEF Try, Ops, PlainSteps
  <2> DEFINE t == Try("drive")[1]
  <2> HIDE DEF t
  <2>3. [i \in 1 .. n |-> t] \in Seq(PlainSteps)
    BY <2>1, <2>2 DEF t
  <2> QED BY <1>2, <2>3 DEF Plain, t
<1> QED BY <1>1, <1>2 DEF Drive, Searches

LEMMA ResolvePlain ==
    ASSUME EntryParameters
    PROVE  Name \subseteq Plain /\ Resolve \subseteq Plain
<1> DEFINE info == Must("info")
<1>1. info \in Plain
  BY EachPlain
<1>2. Name = {d \o info : d \in Drive} /\ Resolve = {n \o info : n \in Name}
  BY DEF Name, Resolve
<1> HIDE DEF info
<1>3. ASSUME NEW n \in Name PROVE n \in Plain
  <2>1. PICK d \in Drive : n = d \o info
    BY <1>2
  <2>2. d \in Plain
    BY DrivePlain
  <2> QED BY <1>1, <2>1, <2>2, PlainFollows
<1>4. ASSUME NEW r \in Resolve PROVE r \in Plain
  <2>1. PICK n \in Name : r = n \o info
    BY <1>2
  <2>2. n \in Plain
    BY <1>3
  <2> QED BY <1>1, <2>1, <2>2, PlainFollows
<1> QED BY <1>3, <1>4

LEMMA FollowPlain ==
    ASSUME NEW p \in SUBSET Plain, NEW q \in SUBSET Plain
    PROVE  Follow(p, q) \subseteq Plain
<1> SUFFICES ASSUME NEW r \in Follow(p, q) PROVE r \in Plain
  OBVIOUS
<1>1. PICK a \in p, b \in q : r = a \o b
  BY DEF Follow
<1>2. a \in Plain /\ b \in Plain
  OBVIOUS
<1> QED BY <1>1, <1>2, PlainFollows

LEMMA PlainFacts ==
    ASSUME NEW p \in Plain
    PROVE  /\ p \in Seq(Steps) /\ p \in Seq(PlainSteps)
           /\ \A i \in 1 .. Len(p) : p[i].kind # "always"
<1>1. p \in Seq(PlainSteps)
  BY DEF Plain
<1>2. \A x \in PlainSteps : x \in Steps /\ x.kind # "always"
  BY DEF PlainSteps, Steps
<1>3. \A i \in 1 .. Len(p) : p[i] \in PlainSteps
  BY <1>1
<1>4. p = [i \in 1 .. Len(p) |-> p[i]] /\ Len(p) \in Nat
  BY <1>1
<1>5. p \in Seq(Steps)
  BY <1>2, <1>3, <1>4
<1> QED BY <1>1, <1>2, <1>3, <1>5

\* What follows a plan with no "always" may end with one.
LEMMA ClosesFollows ==
    ASSUME NEW p \in Plain, NEW q, Closes(q)
    PROVE  Closes(p \o q)
<1>1. p \in Seq(Steps) /\ q \in Seq(Steps)
  BY PlainFacts DEF Closes
<1>2. p \o q \in Seq(Steps) /\ Len(p \o q) = Len(p) + Len(q)
  BY <1>1
<1>3. ASSUME NEW i \in 1 .. Len(p \o q), (p \o q)[i].kind = "always"
      PROVE  i = Len(p \o q) /\ (p \o q)[i].op = "close"
  <2>1. CASE i <= Len(p)
    <3>1. (p \o q)[i] = p[i] /\ i \in 1 .. Len(p)
      BY <1>1, <1>2, <2>1
    <3>2. p[i].kind # "always"
      BY <3>1, PlainFacts
    <3> QED BY <1>3, <3>1, <3>2
  <2>2. CASE i > Len(p)
    <3>1. (p \o q)[i] = q[i - Len(p)] /\ i - Len(p) \in 1 .. Len(q)
      BY <1>1, <1>2, <2>2
    <3>2. i - Len(p) = Len(q) /\ q[i - Len(p)].op = "close"
      BY <1>3, <3>1 DEF Closes
    <3> QED BY <1>1, <1>2, <3>1, <3>2
  <2> QED BY <1>1, <1>2, <2>1, <2>2
<1> QED BY <1>2, <1>3 DEF Closes

LEMMA PlainCloses == \A p \in Plain : Closes(p)
<1> SUFFICES ASSUME NEW p \in Plain PROVE Closes(p)
  OBVIOUS
<1> QED BY PlainFacts DEF Closes

LEMMA AlwaysCloses == Closes(Always("close"))
BY DEF Closes, Always, Steps, Ops

-----------------------------------------------------------------------------
(* What an entry point has had done while it runs, when nothing else does  *)
(* it: the invariant.                                                      *)

Items == [mine : BOOLEAN, sent : Ops \cup {Unsent, "its own"}]
Blocks == [op : Ops, done : BOOLEAN, error : BOOLEAN]

\* The step up to which the plan is done or given up
UpTo == IF entry.waiting /\ fore.done /\ ~fore.error THEN entry.at ELSE entry.at - 1

\* cache_fore's operation is in the queue once while it waits, and else it is not.
QueuedOnce ==
    /\ (entry.waiting /\ ~fore.done) =>
         \E m \in 1 .. Len(queue) : Mine(queue) = {m} /\ queue[m].sent \in {Unsent, fore.op}
    /\ ~(entry.waiting /\ ~fore.done) => Mine(queue) = {}

Asks ==
    entry.waiting =>
        /\ entry.at <= Len(entry.plan)
        /\ fore.op = entry.plan[entry.at].op
        /\ entry.asked = fore.op

Done ==
    /\ entry.did \in Seq(Ops)
    /\ \A k \in 1 .. Len(entry.did) : \E i \in 1 .. UpTo : entry.did[k] = entry.plan[i].op
    /\ ~entry.error => DoneUpTo(entry, UpTo)

\* An error after the open leads to the close.
ClosesAtEnd ==
    (~entry.waiting /\ entry.at = Len(entry.plan) + 1) =>
        \A i \in 1 .. Len(entry.plan), k \in 1 .. Len(entry.did) :
             entry.plan[i].kind = "always" /\ entry.did[k] = "open" => entry.asked = "close"

EntryTypes ==
    /\ entry \in [plan : Seq(Steps), at : Nat, waiting : BOOLEAN, error : BOOLEAN, asked : Ops,
                  did : {entry.did}, clean : BOOLEAN, escaped : BOOLEAN]
    /\ Closes(entry.plan)
    /\ entry = NoEntry \/ entry.at \in 1 .. Len(entry.plan) + 1
    /\ entry.waiting => entry.at \in 1 .. Len(entry.plan)
    /\ fore \in Blocks
    /\ queue \in Seq(Items)

Tracked == QueuedOnce /\ Asks /\ Done /\ ClosesAtEnd

EntryInv ==
    /\ EntryTypes
    /\ (entry # NoEntry /\ entry.clean /\ ~entry.escaped) => Tracked
    /\ EntryOK

-----------------------------------------------------------------------------
(* cache_process: what is left of the queue, and what was done.            *)

LEMMA SentType ==
    ASSUME NEW o \in Items, NEW op \in Ops
    PROVE  /\ Sent(o, op) \in Items /\ Sent(o, op).mine = o.mine
           /\ o.mine => Sent(o, op).sent = op
BY DEF Sent, Items

\* r is what is left of q: the rest of it, of which the first may be sent.
QueueLeft(q, op, k, r) ==
    /\ r \in Seq(Items) /\ Len(r) = Len(q) - k
    /\ \A i \in 1 .. Len(q) - k :
         r[i].mine = q[i + k].mine /\ (r[i].mine => r[i].sent \in {q[i + k].sent, op})

LEMMA ProcessQueue ==
    ASSUME NEW q \in Seq(Items), NEW f \in Blocks, NEW k \in 0 .. Len(q), NEW failed \in BOOLEAN
    PROVE  QueueLeft(q, f.op, k, Process(q, f, k, failed).queue)
<1> DEFINE s == SubSeq(q, k + 1, Len(q))
           r == Process(q, f, k, failed).queue
<1>1. s \in Seq(Items) /\ Len(s) = Len(q) - k /\ \A i \in 1 .. Len(q) - k : s[i] = q[i + k]
  <2>1. \A i \in k + 1 .. Len(q) : q[i] \in Items
    OBVIOUS
  <2> QED BY <2>1, SubSeqProperties
<1>2. r = IF s = <<>> \/ Head(s).sent # Unsent THEN s ELSE <<Sent(Head(s), f.op)>> \o Tail(s)
  BY DEF Process
<1> HIDE DEF s, r
<1>3. ASSUME s = <<>> \/ Head(s).sent # Unsent PROVE QueueLeft(q, f.op, k, r)
  BY <1>1, <1>2, <1>3 DEF QueueLeft
<1>4. ASSUME ~(s = <<>> \/ Head(s).sent # Unsent) PROVE QueueLeft(q, f.op, k, r)
  <2>1. f.op \in Ops
    BY DEF Blocks
  <2>2. s # <<>> /\ Head(s) = s[1] /\ Head(s) \in Items /\ Len(s) > 0
    BY <1>1, <1>4
  <2> DEFINE h == Sent(Head(s), f.op)
  <2>3. h \in Items /\ h.mine = s[1].mine /\ (h.mine => h.sent = f.op)
    BY <2>1, <2>2, SentType
  <2>4. r = <<h>> \o Tail(s)
    BY <1>2, <1>4
  <2> HIDE DEF h
  <2>5. /\ Tail(s) \in Seq(Items) /\ Len(Tail(s)) = Len(s) - 1
        /\ \A i \in 1 .. Len(s) - 1 : Tail(s)[i] = s[i + 1]
    BY <1>1, <2>2
  <2>6. r \in Seq(Items) /\ Len(r) = Len(s) /\ r[1] = h /\ \A i \in 2 .. Len(s) : r[i] = s[i]
    BY <2>3, <2>4, <2>5, <1>1
  <2>7. ASSUME NEW i \in 1 .. Len(q) - k
        PROVE  r[i].mine = q[i + k].mine /\ (r[i].mine => r[i].sent \in {q[i + k].sent, f.op})
    <3>1. CASE i = 1
      BY <3>1, <1>1, <2>3, <2>6
    <3>2. CASE i # 1
      <4>1. i \in 2 .. Len(s)
        BY <3>2, <1>1
      <4> QED BY <4>1, <1>1, <2>6
    <3> QED BY <3>1, <3>2
  <2> QED BY <1>1, <2>6, <2>7 DEF QueueLeft
<1>5. QueueLeft(q, f.op, k, r)
  BY <1>3, <1>4
<1> QED BY <1>5 DEF r

LEMMA ProcessTypes ==
    ASSUME NEW q \in Seq(Items), NEW f \in Blocks, NEW k \in 0 .. Len(q), NEW failed \in BOOLEAN
    PROVE  /\ Process(q, f, k, failed).queue \in Seq(Items)
           /\ Process(q, f, k, failed).fore \in Blocks
           /\ Process(q, f, k, failed).fore.op = f.op
<1>1. Process(q, f, k, failed).queue \in Seq(Items)
  BY ProcessQueue DEF QueueLeft
<1>2. Process(q, f, k, failed).fore \in {f, [f EXCEPT !.done = TRUE, !.error = failed]}
  BY DEF Process
<1>3. f \in Blocks /\ [f EXCEPT !.done = TRUE, !.error = failed] \in Blocks
      /\ [f EXCEPT !.done = TRUE, !.error = failed].op = f.op
  BY DEF Blocks
<1> QED BY <1>1, <1>2, <1>3

\* Nothing of cache_fore's is in the queue.
LEMMA PerformedNone ==
    ASSUME NEW q, NEW k, NEW op, Mine(q) \cap (1 .. k) = {}
    PROVE  Performed(q, k, op) = <<>>
<1>1. Cardinality({}) = 0
  BY FS_EmptySet
<1> QED BY <1>1 DEF Performed

LEMMA ProcessNone ==
    ASSUME NEW q \in Seq(Items), NEW f \in Blocks, NEW k \in 0 .. Len(q), NEW failed \in BOOLEAN,
           Mine(q) = {}
    PROVE  LET p == Process(q, f, k, failed)
           IN Mine(p.queue) = {} /\ p.fore = f /\ p.did = <<>>
<1>1. Mine(q) \cap (1 .. k) = {}
  OBVIOUS
<1>2. Performed(q, k, f.op) = <<>>
  BY <1>1, PerformedNone
<1>3. Process(q, f, k, failed).fore = f /\ Process(q, f, k, failed).did = <<>>
  BY <1>2 DEF Process
<1>4. \A i \in 1 .. Len(q) : ~q[i].mine
  BY DEF Mine
<1>5. Len(q) \in Nat
  OBVIOUS
<1> DEFINE r == Process(q, f, k, failed).queue
<1>6. QueueLeft(q, f.op, k, r)
  BY ProcessQueue
<1> HIDE DEF r
<1>7. Mine(r) = {}
  BY SMTT(30), <1>4, <1>5, <1>6 DEF QueueLeft, Mine
<1> QED BY <1>3, <1>7 DEF r

LEMMA NthOne ==
    ASSUME NEW m \in Nat \ {0}
    PROVE  Nth({m}, 1) = m
<1>1. {m} \cap (1 .. m) = {m} /\ Cardinality({m}) = 1
  BY FS_Singleton
<1> QED BY <1>1 DEF Nth

\* p is what comes of one of cache_fore's at m: it stays queued or ends.
Ends(q, f, k, failed, m, p) ==
    /\ k < m =>
         /\ p.fore = f /\ p.did = <<>>
         /\ \E n \in 1 .. Len(p.queue) : Mine(p.queue) = {n} /\ p.queue[n].sent \in {Unsent, f.op}
    /\ k >= m =>
         /\ Mine(p.queue) = {}
         /\ p.fore = [f EXCEPT !.done = TRUE, !.error = failed]
         /\ p.did = IF failed THEN <<>> ELSE <<f.op>>

LEMMA ProcessOne ==
    ASSUME NEW q \in Seq(Items), NEW f \in Blocks, NEW k \in 0 .. Len(q), NEW failed \in BOOLEAN,
           NEW m \in 1 .. Len(q), Mine(q) = {m}, q[m].sent \in {Unsent, f.op}
    PROVE  Ends(q, f, k, failed, m, Process(q, f, k, failed))
<1> DEFINE p == Process(q, f, k, failed)
           r == p.queue
<1>1. Len(q) \in Nat /\ QueueLeft(q, f.op, k, r)
  BY ProcessQueue
<1>2. \A i \in 1 .. Len(q) : q[i].mine <=> i = m
  <2>1. \A i \in 1 .. Len(q) : q[i].mine <=> i \in Mine(q)
    BY DEF Mine
  <2> QED BY <2>1
<1>3. ASSUME k < m PROVE Ends(q, f, k, failed, m, p)
  <2>1. Mine(q) \cap (1 .. k) = {}
    BY <1>3
  <2>2. Performed(q, k, f.op) = <<>>
    BY <2>1, PerformedNone
  <2>3. p.fore = f /\ p.did = <<>>
    BY <2>2 DEF Process
  <2> HIDE DEF r, p
  <2>4. m - k \in 1 .. Len(r) /\ Mine(r) = {m - k} /\ r[m - k].sent \in {Unsent, f.op}
    <3>1. m - k \in 1 .. Len(r)
      BY <1>1, <1>3 DEF QueueLeft
    <3>2. ASSUME NEW i \in 1 .. Len(r) PROVE r[i].mine <=> i = m - k
      <4>1. r[i].mine = q[i + k].mine /\ i + k \in 1 .. Len(q) /\ i \in Int
        BY <1>1 DEF QueueLeft
      <4>2. q[i + k].mine <=> i + k = m
        BY <1>2, <4>1
      <4> QED BY <4>1, <4>2
    <3>3. Mine(r) = {m - k}
      BY <3>1, <3>2 DEF Mine
    <3>4. r[m - k].sent \in {q[m].sent, f.op}
      BY <1>1, <3>1, <3>2 DEF QueueLeft
    <3> QED BY <3>1, <3>3, <3>4
  <2> QED BY <1>3, <2>3, <2>4 DEF r, Ends
<1>4. ASSUME k >= m PROVE Ends(q, f, k, failed, m, p)
  <2>1. Mine(q) \cap (1 .. k) = {m} /\ Cardinality({m}) = 1
    <3>1. Mine(q) \cap (1 .. k) = {m}
      BY <1>4
    <3>2. Cardinality({m}) = 1
      BY FS_Singleton
    <3> QED BY <3>1, <3>2
  <2>2. Nth({m}, 1) = m
    BY NthOne
  <2>3. Performed(q, k, f.op) = [n \in 1 .. 1 |-> f.op]
    <3>1. Performed(q, k, f.op)
            = [n \in 1 .. 1 |-> IF q[Nth({m}, n)].sent # Unsent THEN q[Nth({m}, n)].sent ELSE f.op]
      BY <2>1 DEF Performed
    <3>2. \A n \in 1 .. 1 : Nth({m}, n) = m
      BY <2>2
    <3> QED BY <3>1, <3>2
  <2>4. [n \in 1 .. 1 |-> f.op] = <<f.op>>
    OBVIOUS
  <2>5. Performed(q, k, f.op) = <<f.op>>
    BY <2>3, <2>4
  <2>6. <<f.op>> # <<>> /\ SubSeq(<<f.op>>, 1, Len(<<f.op>>) - 1) = <<>>
    OBVIOUS
  <2>7. /\ p.fore = [f EXCEPT !.done = TRUE, !.error = failed]
        /\ p.did = IF failed THEN <<>> ELSE <<f.op>>
    BY <2>5, <2>6 DEF Process
  <2> HIDE DEF r, p
  <2>8. Mine(r) = {}
    BY SMTT(30), <1>1, <1>2, <1>4 DEF Mine, QueueLeft
  <2> QED BY <1>4, <2>7, <2>8 DEF r, Ends
<1> QED BY <1>3, <1>4

-----------------------------------------------------------------------------
(* Steps of a plan that were done.                                         *)

LEMMA DoneNone ==
    ASSUME NEW e, e.did = <<>>
    PROVE  DoneUpTo(e, 0)
<1>1. Cardinality({}) = 0 /\ {} \in SUBSET (1 .. 0) /\ Len(<<>>) = 0
  BY FS_EmptySet
<1> QED BY <1>1 DEF DoneUpTo

LEMMA DoneSame ==
    ASSUME NEW e, NEW d, NEW n \in Nat, d.plan = e.plan, d.did = e.did, DoneUpTo(e, n)
    PROVE  DoneUpTo(d, n)
BY DEF DoneUpTo

\* A step that need not be done is not.
LEMMA DoneSkips ==
    ASSUME NEW e, NEW d, NEW n \in Nat, d.plan = e.plan, d.did = e.did, DoneUpTo(e, n),
           e.plan[n + 1].kind # "must"
    PROVE  DoneUpTo(d, n + 1)
<1>1. PICK done \in SUBSET (1 .. n) :
        /\ \A i \in 1 .. n : e.plan[i].kind = "must" => i \in done
        /\ Len(e.did) = Cardinality(done)
        /\ \A i \in done : e.did[Cardinality(done \cap (1 .. i))] = e.plan[i].op
  BY DEF DoneUpTo
<1>2. done \in SUBSET (1 .. n + 1)
  OBVIOUS
<1>3. \A i \in 1 .. n + 1 : d.plan[i].kind = "must" => i \in done
  BY <1>1
<1> QED BY <1>1, <1>2, <1>3 DEF DoneUpTo

\* The next step is.
LEMMA DoneMore ==
    ASSUME NEW e, NEW d, NEW n \in Nat, d.plan = e.plan, e.did \in Seq(Ops),
           e.plan[n + 1].op \in Ops, d.did = Append(e.did, e.plan[n + 1].op), DoneUpTo(e, n)
    PROVE  DoneUpTo(d, n + 1)
<1>1. PICK done \in SUBSET (1 .. n) :
        /\ \A i \in 1 .. n : e.plan[i].kind = "must" => i \in done
        /\ Len(e.did) = Cardinality(done)
        /\ \A i \in done : e.did[Cardinality(done \cap (1 .. i))] = e.plan[i].op
  BY DEF DoneUpTo
<1> DEFINE more == done \cup {n + 1}
<1>2. more \in SUBSET (1 .. n + 1) /\ n + 1 \notin done
  OBVIOUS
<1>3. IsFiniteSet(done)
  <2>1. IsFiniteSet(1 .. n)
    BY FS_Interval
  <2> QED BY <2>1, FS_Subset
<1>4. Cardinality(more) = Cardinality(done) + 1
  BY <1>2, <1>3, FS_AddElement
<1>5. Len(d.did) = Cardinality(more)
  BY <1>1, <1>4
<1>6. ASSUME NEW i \in more
      PROVE  d.did[Cardinality(more \cap (1 .. i))] = d.plan[i].op
  <2>1. CASE i = n + 1
    <3>1. more \cap (1 .. i) = more
      BY <1>2, <2>1
    <3>2. d.did[Len(e.did) + 1] = e.plan[n + 1].op
      OBVIOUS
    <3> QED BY <1>1, <1>4, <2>1, <3>1, <3>2
  <2>2. CASE i \in done
    <3> DEFINE up == done \cap (1 .. i)
    <3>1. more \cap (1 .. i) = up
      BY <2>2
    <3>2. IsFiniteSet(up) /\ Cardinality(up) <= Cardinality(done)
      BY <1>3, FS_Subset
    <3>3. i \in up
      BY <2>2
    <3>4. Cardinality(up) \in Nat /\ Cardinality(up) # 0
      BY <3>2, <3>3, FS_CardinalityType, FS_EmptySet
    <3>5. Cardinality(up) \in 1 .. Len(e.did)
      BY <1>1, <1>3, <3>2, <3>4, FS_CardinalityType
    <3>6. d.did[Cardinality(up)] = e.did[Cardinality(up)]
      BY <3>5
    <3> QED BY <1>1, <2>2, <3>1, <3>6
  <2> QED BY <2>1, <2>2
<1>7. \A i \in 1 .. n + 1 : d.plan[i].kind = "must" => i \in more
  BY <1>1
<1> HIDE DEF more
<1> QED BY <1>2, <1>5, <1>6, <1>7 DEF DoneUpTo

-----------------------------------------------------------------------------
(* The invariant is kept: cache_fore's operation is queued or ends.        *)

LEMMA PlanStep ==
    ASSUME NEW p, Closes(p), NEW i \in 1 .. Len(p)
    PROVE  p[i] \in Steps /\ p[i].op \in Ops
<1>1. p[i] \in Steps
  BY DEF Closes
<1> QED BY <1>1 DEF Steps

LEMMA Performs ==
    ASSUME EntryTypes, Done, UpTo = entry.at - 1, entry.at \in 1 .. Len(entry.plan),
           NEW q \in Seq(Items), NEW f \in Blocks, NEW k \in 0 .. Len(q), NEW failed \in BOOLEAN,
           f.op = entry.plan[entry.at].op, ~f.done,
           NEW m \in 1 .. Len(q), Mine(q) = {m}, q[m].sent \in {Unsent, f.op},
           queue' = Process(q, f, k, failed).queue, fore' = Process(q, f, k, failed).fore,
           entry'.did = entry.did \o Process(q, f, k, failed).did,
           entry'.plan = entry.plan, entry'.at = entry.at, entry'.error = entry.error,
           entry'.waiting, entry'.asked = f.op
    PROVE  Tracked'
<1> DEFINE p == Process(q, f, k, failed)
           at == entry.at
<1>1. at \in Nat /\ at >= 1 /\ entry.plan[at].op \in Ops /\ entry.did \in Seq(Ops)
  BY PlanStep DEF EntryTypes, Done
<1>2. /\ k < m =>
           /\ p.fore = f /\ p.did = <<>>
           /\ \E n \in 1 .. Len(p.queue) :
                Mine(p.queue) = {n} /\ p.queue[n].sent \in {Unsent, f.op}
      /\ k >= m =>
           /\ Mine(p.queue) = {}
           /\ p.fore = [f EXCEPT !.done = TRUE, !.error = failed]
           /\ failed => p.did = <<>>
           /\ ~failed => p.did = <<f.op>>
  <2>1. Ends(q, f, k, failed, m, p)
    BY ProcessOne
  <2> HIDE DEF p
  <2> QED BY <2>1 DEF Ends
<1>3. queue' = p.queue /\ fore' = p.fore /\ entry'.did = entry.did \o p.did
  OBVIOUS
<1> HIDE DEF p
<1>4. k >= m => fore'.done /\ fore'.error = failed /\ fore'.op = f.op
  BY ZenonT(30), <1>2, <1>3 DEF Blocks
<1>5. k < m => ~fore'.done /\ fore' = f
  BY <1>2, <1>3
<1>6. k < m \/ k >= m
  OBVIOUS
<1>7. fore'.op = f.op
  BY <1>4, <1>5, <1>6
<1>8. QueuedOnce'
  BY <1>2, <1>3, <1>4, <1>5, <1>6, <1>7 DEF QueuedOnce
<1>9. Asks'
  BY <1>7 DEF Asks
<1>10. ClosesAtEnd'
  BY DEF ClosesAtEnd
<1>11. CASE k < m \/ failed
  <2>1. UpTo' = at - 1
    BY <1>4, <1>5, <1>6, <1>11 DEF UpTo
  <2>2. entry'.did = entry.did
    <3>1. p.did = <<>>
      BY <1>2, <1>6, <1>11
    <3> QED BY <1>1, <1>3, <3>1
  <2>3. ~entry.error => DoneUpTo(entry', at - 1)
    BY <1>1, <2>2, DoneSame DEF Done
  <2> QED BY <1>8, <1>9, <1>10, <1>1, <2>1, <2>2, <2>3 DEF Tracked, Done
<1>12. CASE k >= m /\ ~failed
  <2>1. UpTo' = at
    BY <1>4, <1>12 DEF UpTo
  <2>2. entry'.did = Append(entry.did, f.op)
    <3>1. p.did = <<f.op>>
      BY <1>2, <1>12
    <3> QED BY <1>1, <1>3, <3>1
  <2>3. ~entry.error => DoneUpTo(entry', at)
    <3>1. (at - 1) + 1 = at /\ at - 1 \in Nat
      BY <1>1
    <3> DEFINE n == at - 1
               d == entry'
    <3>2. d.plan = entry.plan /\ entry.plan[n + 1].op \in Ops
          /\ d.did = Append(entry.did, entry.plan[n + 1].op)
      BY <1>1, <2>2, <3>1
    <3>3. ~entry.error => DoneUpTo(entry, n)
      BY DEF Done
    <3> HIDE DEF n, d
    <3>4. ~entry.error => DoneUpTo(d, n + 1)
      BY <1>1, <3>1, <3>2, <3>3, DoneMore DEF n
    <3> QED BY <3>1, <3>4 DEF d, n
  <2>4. entry'.did \in Seq(Ops)
    BY <1>1, <2>2
  <2>5. ASSUME NEW j \in 1 .. Len(entry'.did)
        PROVE  \E i \in 1 .. at : entry'.did[j] = entry.plan[i].op
    <3>1. CASE j = Len(entry.did) + 1
      <4>1. entry'.did[j] = f.op
        BY <1>1, <2>2, <3>1
      <4>2. at \in 1 .. at /\ entry.plan[at].op = f.op
        BY <1>1
      <4> QED BY <4>1, <4>2
    <3>2. CASE j # Len(entry.did) + 1
      <4>1. j \in 1 .. Len(entry.did) /\ entry'.did[j] = entry.did[j]
        BY <1>1, <2>2, <3>2
      <4>2. PICK i \in 1 .. at - 1 : entry.did[j] = entry.plan[i].op
        BY <4>1 DEF Done
      <4>3. i \in 1 .. at
        BY <1>1
      <4> QED BY <4>1, <4>2, <4>3
    <3> QED BY <3>1, <3>2
  <2>6. /\ entry'.did \in Seq(Ops)
        /\ \A j \in 1 .. Len(entry'.did) : \E i \in 1 .. UpTo' : entry'.did[j] = entry'.plan[i].op
        /\ ~entry'.error => DoneUpTo(entry', UpTo')
    BY ZenonT(30), <2>1, <2>3, <2>4, <2>5
  <2> QED BY <1>8, <1>9, <1>10, <2>6 DEF Tracked, Done
<1> QED BY <1>6, <1>11, <1>12

LEMMA MayEndType ==
    ASSUME NEW q \in Seq(Items), NEW answered \in BOOLEAN
    PROVE  MayEnd(q, answered) \subseteq 0 .. Len(q)
BY DEF MayEnd

LEMMA OkUnchanged ==
    ASSUME EntryOK, UNCHANGED last
    PROVE  EntryOK'
BY DEF EntryOK, DoneUpTo

LEMMA RunningAt ==
    ASSUME EntryTypes, entry.at # 0
    PROVE  entry # NoEntry /\ entry.at \in 1 .. Len(entry.plan) + 1
BY DEF EntryTypes, NoEntry

\* An entry point starts.
LEMMA EnterKeeps ==
    ASSUME EntryInv, NEW plan, Closes(plan), EnterCall(plan)
    PROVE  EntryInv'
<1>1. plan \in Seq(Steps) /\ Len(plan) \in Nat /\ NoOp \in Ops
  BY DEF Closes, NoOp, Ops
<1>2. entry' = [plan |-> plan, at |-> 1, waiting |-> FALSE, error |-> FALSE,
                asked |-> NoOp, did |-> <<>>, clean |-> (Mine(queue) = {}), escaped |-> FALSE]
  BY DEF EnterCall, NoEntry
<1>3. fore' = fore /\ queue' = queue /\ last' = NoEntry
  BY DEF EnterCall
<1>4. EntryTypes'
  BY <1>1, <1>2, <1>3 DEF EntryInv, EntryTypes
<1>5. ASSUME entry'.clean PROVE Tracked'
  <2>1. Mine(queue) = {}
    BY <1>2, <1>5
  <2>2. UpTo' = 0
    BY <1>2 DEF UpTo
  <2>3. Done'
    <3>1. DoneUpTo(entry', 0)
      BY <1>2, DoneNone
    <3> QED BY <1>2, <2>2, <3>1 DEF Done
  <2> QED BY <1>2, <1>3, <2>1, <2>3 DEF Tracked, QueuedOnce, Asks, ClosesAtEnd
<1>6. EntryOK'
  <2>1. last'.did = <<>> /\ last'.plan = <<>> /\ Len(<<>>) = 0
    BY <1>3 DEF NoEntry
  <2>2. DoneUpTo(last', 0)
    BY <2>1, DoneNone
  <2> QED BY <2>1, <2>2 DEF EntryOK
<1> QED BY <1>4, <1>5, <1>6 DEF EntryInv

\* An operation goes to the end of the queue.
LEMMA MineAppended ==
    ASSUME NEW q \in Seq(Items), NEW o \in Items, NEW r, r = Append(q, o)
    PROVE  /\ r \in Seq(Items) /\ Len(r) = Len(q) + 1 /\ r[Len(q) + 1] = o
           /\ (o.mine /\ Mine(q) = {}) => Mine(r) = {Len(q) + 1}
           /\ ~o.mine => Mine(r) = Mine(q)
<1>1. r \in Seq(Items) /\ Len(r) = Len(q) + 1 /\ r[Len(q) + 1] = o /\ Len(q) \in Nat
  OBVIOUS
<1>2. \A i \in 1 .. Len(q) : r[i] = q[i]
  OBVIOUS
<1>3. \A i : i \in 1 .. Len(r) <=> (i \in 1 .. Len(q) \/ i = Len(q) + 1)
  BY <1>1
<1>4. Mine(r) = {i \in 1 .. Len(r) : r[i].mine} /\ Mine(q) = {i \in 1 .. Len(q) : q[i].mine}
  BY DEF Mine
<1>5. \A i : i \in Mine(r) <=> (i \in Mine(q) \/ (i = Len(q) + 1 /\ o.mine))
  <2> SUFFICES ASSUME NEW i PROVE i \in Mine(r) <=> (i \in Mine(q) \/ (i = Len(q) + 1 /\ o.mine))
    OBVIOUS
  <2>1. CASE i \in 1 .. Len(q)
    <3>1. i # Len(q) + 1 /\ i \in 1 .. Len(r) /\ r[i] = q[i]
      BY <1>1, <1>2, <1>3, <2>1
    <3> QED BY <1>4, <2>1, <3>1
  <2>2. CASE i = Len(q) + 1
    <3>1. i \notin 1 .. Len(q) /\ i \in 1 .. Len(r) /\ r[i] = o
      BY <1>1, <1>3, <2>2
    <3> QED BY <1>4, <2>2, <3>1
  <2>3. CASE i \notin 1 .. Len(r)
    BY <1>3, <1>4, <2>3
  <2> QED BY <1>3, <2>1, <2>2, <2>3
<1> QED BY <1>1, <1>5

\* Its operation is queued.
LEMMA ForeKeeps ==
    ASSUME EntryInv, Fore
    PROVE  EntryInv'
<1> DEFINE op == entry.plan[entry.at].op
           f == [fore EXCEPT !.op = op, !.done = FALSE]
           q == Append(queue, Operation(TRUE))
<1>1. /\ entry.at \in 1 .. Len(entry.plan) /\ ~entry.waiting
      /\ UNCHANGED last
  BY DEF Fore
<1>2. PICK k \in MayEnd(q, FALSE), failed \in BOOLEAN :
        /\ queue' = Process(q, f, k, failed).queue
        /\ fore' = Process(q, f, k, failed).fore
        /\ entry' = [Noted(entry, Process(q, f, k, failed).did)
                        EXCEPT !.waiting = TRUE, !.asked = f.op]
  BY DEF Fore
<1>3. op \in Ops
  BY <1>1, PlanStep DEF EntryInv, EntryTypes
<1>4. f \in Blocks /\ f.op = op /\ ~f.done
  BY <1>3 DEF EntryInv, EntryTypes, Blocks
<1>5. queue \in Seq(Items) /\ Len(queue) \in Nat
  BY DEF EntryInv, EntryTypes
<1>6. Operation(TRUE) \in Items /\ Operation(TRUE).mine /\ Operation(TRUE).sent = Unsent
  BY DEF Operation, Items
<1>7. /\ q \in Seq(Items) /\ Len(q) = Len(queue) + 1 /\ q[Len(queue) + 1] = Operation(TRUE)
      /\ Mine(queue) = {} => Mine(q) = {Len(queue) + 1}
  BY <1>5, <1>6, MineAppended
<1> HIDE DEF f, q
<1>8. k \in 0 .. Len(q)
  BY <1>7, MayEndType
<1>9. /\ entry'.plan = entry.plan /\ entry'.at = entry.at /\ entry'.error = entry.error
      /\ entry'.waiting /\ entry'.asked = f.op /\ entry'.clean = entry.clean
      /\ entry'.escaped = entry.escaped
      /\ entry.clean => entry'.did = entry.did \o Process(q, f, k, failed).did
      /\ entry' \in [plan : {entry.plan}, at : {entry.at}, waiting : {TRUE}, error : {entry.error},
                     asked : {f.op}, did : {entry'.did}, clean : {entry.clean},
                     escaped : {entry.escaped}]
  BY <1>2 DEF Noted, EntryInv, EntryTypes
<1>10. EntryTypes'
  <2>1. queue' \in Seq(Items) /\ fore' \in Blocks
    BY <1>2, <1>4, <1>7, <1>8, ProcessTypes
  <2>2. entry' \in [plan : Seq(Steps), at : Nat, waiting : BOOLEAN, error : BOOLEAN, asked : Ops,
                    did : {entry'.did}, clean : BOOLEAN, escaped : BOOLEAN]
    BY <1>3, <1>4, <1>9 DEF EntryInv, EntryTypes
  <2>3. Closes(entry'.plan)
    BY <1>9 DEF EntryInv, EntryTypes
  <2>4. entry'.at \in 1 .. Len(entry'.plan)
    BY <1>1, <1>9
  <2> QED BY <2>1, <2>2, <2>3, <2>4 DEF EntryTypes
<1>11. ASSUME entry.clean, ~entry.escaped PROVE Tracked'
  <2>1. entry # NoEntry
    BY <1>1, RunningAt DEF EntryInv
  <2>2. QueuedOnce /\ Done
    BY <1>11, <2>1 DEF EntryInv, Tracked
  <2>3. Mine(queue) = {}
    BY <1>1, <2>2 DEF QueuedOnce
  <2> DEFINE m == Len(queue) + 1
  <2>4. m \in 1 .. Len(q) /\ q[m].sent = Unsent
    <3>1. m \in 1 .. Len(q) /\ q[m] = Operation(TRUE)
      BY <1>5, <1>7
    <3> HIDE DEF m
    <3> QED BY <1>6, <3>1
  <2>5. Mine(q) = {m}
    BY <1>7, <2>3
  <2>6. UpTo = entry.at - 1
    BY <1>1 DEF UpTo
  <2> HIDE DEF m
  <2>7. EntryTypes /\ entry'.did = entry.did \o Process(q, f, k, failed).did
    BY <1>9, <1>11 DEF EntryInv
  <2> QED BY <1>1, <1>2, <1>4, <1>7, <1>8, <1>9, <2>2, <2>4, <2>5, <2>6, <2>7, Performs
<1>12. EntryOK'
  BY <1>1, OkUnchanged DEF EntryInv
<1> QED BY <1>9, <1>10, <1>11, <1>12 DEF EntryInv

\* What an error leaves of a plan
LEMMA RemainingFacts ==
    ASSUME NEW p, Closes(p), NEW at \in 1 .. Len(p)
    PROVE  /\ Remaining(p, at) \in at + 1 .. Len(p) + 1
           /\ Remaining(p, at) = Len(p) + 1 =>
                \A i \in 1 .. Len(p) : (i # at /\ p[i].kind = "always") =>
                  \A j \in 1 .. at - 1 : p[j].op # "open"
<1> DEFINE closes == {i \in at + 1 .. Len(p) :
                        p[i].kind = "always" /\ \E j \in 1 .. at - 1 : p[j].op = "open"}
<1>1. Len(p) \in Nat /\ closes \subseteq at + 1 .. Len(p)
  BY DEF Closes
<1>2. Remaining(p, at) = IF closes = {} THEN Len(p) + 1 ELSE CHOOSE i \in closes : TRUE
  BY DEF Remaining
<1>3. CASE closes = {}
  <2>1. ASSUME NEW i \in 1 .. Len(p), i # at, p[i].kind = "always",
               NEW j \in 1 .. at - 1, p[j].op = "open"
        PROVE  FALSE
    <3>1. i = Len(p)
      BY <2>1 DEF Closes
    <3>2. i \in at + 1 .. Len(p)
      BY <1>1, <2>1, <3>1
    <3>3. i \in closes
      BY <2>1, <3>2
    <3> QED BY <1>3, <3>3
  <2>2. \A i \in 1 .. Len(p) : (i # at /\ p[i].kind = "always") =>
          \A j \in 1 .. at - 1 : p[j].op # "open"
    BY <2>1
  <2> HIDE DEF closes
  <2> QED BY <1>1, <1>2, <1>3, <2>2
<1>4. CASE closes # {}
  <2> HIDE DEF closes
  <2>1. Remaining(p, at) \in at + 1 .. Len(p)
    BY <1>1, <1>2, <1>4
  <2>2. Remaining(p, at) # Len(p) + 1 /\ Remaining(p, at) \in at + 1 .. Len(p) + 1
    BY <1>1, <2>1
  <2> QED BY <2>2
<1> QED BY <1>3, <1>4

LEMMA ReturnsTypes ==
    ASSUME NEW e, e \in [plan : Seq(Steps), at : Nat, waiting : BOOLEAN, error : BOOLEAN,
                          asked : Ops, did : {e.did}, clean : BOOLEAN, escaped : BOOLEAN],
           Closes(e.plan), e.at \in 1 .. Len(e.plan), NEW error \in BOOLEAN
    PROVE  /\ CallReturned(e, error)
                \in [plan : {e.plan}, at : 1 .. Len(e.plan) + 1, waiting : {FALSE}, error : BOOLEAN,
                     asked : {e.asked}, did : {e.did}, clean : {e.clean}, escaped : {e.escaped}]
           /\ (error /\ e.plan[e.at].kind = "must") =>
                /\ CallReturned(e, error).error
                /\ CallReturned(e, error).at = Remaining(e.plan, e.at)
           /\ ~(error /\ e.plan[e.at].kind = "must") =>
                /\ CallReturned(e, error).error = e.error
                /\ CallReturned(e, error).at = e.at + 1
<1>1. Len(e.plan) \in Nat /\ Remaining(e.plan, e.at) \in e.at + 1 .. Len(e.plan) + 1
  BY RemainingFacts
<1>2. Remaining(e.plan, e.at) \in 1 .. Len(e.plan) + 1 /\ e.at + 1 \in 1 .. Len(e.plan) + 1
  BY <1>1
<1>3. CASE error /\ e.plan[e.at].kind = "must"
  <2>1. CallReturned(e, error)
          = [e EXCEPT !.waiting = FALSE, !.error = TRUE, !.at = Remaining(e.plan, e.at)]
    BY <1>3 DEF CallReturned
  <2> QED BY ZenonT(30), <1>2, <1>3, <2>1
<1>4. CASE ~(error /\ e.plan[e.at].kind = "must")
  <2>1. CallReturned(e, error) = [e EXCEPT !.waiting = FALSE, !.at = e.at + 1]
    BY <1>4 DEF CallReturned
  <2> QED BY <1>2, <1>4, <2>1
<1> QED BY <1>3, <1>4

\* cache_fore returns.
LEMMA ReturnsKeeps ==
    ASSUME EntryInv, ForeReturns
    PROVE  EntryInv'
<1>1. /\ entry.waiting /\ fore.done /\ entry' = CallReturned(entry, fore.error)
      /\ fore' = fore /\ queue' = queue /\ last' = last
  BY DEF ForeReturns
<1> DEFINE at == entry.at
           matters == fore.error /\ entry.plan[entry.at].kind = "must"
<1>2. /\ at \in 1 .. Len(entry.plan) /\ Closes(entry.plan) /\ fore.error \in BOOLEAN
      /\ entry.waiting \in BOOLEAN /\ at \in Nat
  BY <1>1 DEF EntryInv, EntryTypes, Blocks
<1>3. /\ entry' \in [plan : {entry.plan}, at : 1 .. Len(entry.plan) + 1, waiting : {FALSE},
                     error : BOOLEAN, asked : {entry.asked}, did : {entry.did},
                     clean : {entry.clean}, escaped : {entry.escaped}]
      /\ matters => entry'.error /\ entry'.at = Remaining(entry.plan, at)
      /\ ~matters => entry'.error = entry.error /\ entry'.at = at + 1
  <2>1. entry \in [plan : Seq(Steps), at : Nat, waiting : BOOLEAN, error : BOOLEAN, asked : Ops,
                   did : {entry.did}, clean : BOOLEAN, escaped : BOOLEAN]
    BY DEF EntryInv, EntryTypes
  <2>2. /\ CallReturned(entry, fore.error)
             \in [plan : {entry.plan}, at : 1 .. Len(entry.plan) + 1, waiting : {FALSE},
                  error : BOOLEAN, asked : {entry.asked}, did : {entry.did},
                  clean : {entry.clean}, escaped : {entry.escaped}]
        /\ matters =>
             /\ CallReturned(entry, fore.error).error
             /\ CallReturned(entry, fore.error).at = Remaining(entry.plan, entry.at)
        /\ ~matters =>
             /\ CallReturned(entry, fore.error).error = entry.error
             /\ CallReturned(entry, fore.error).at = entry.at + 1
    BY <1>2, <2>1, ReturnsTypes
  <2> QED BY <1>1, <2>2
<1>4. EntryTypes'
  <2>1. entry' \in [plan : Seq(Steps), at : Nat, waiting : BOOLEAN, error : BOOLEAN, asked : Ops,
                    did : {entry'.did}, clean : BOOLEAN, escaped : BOOLEAN]
    <3>1. entry.plan \in Seq(Steps) /\ entry.asked \in Ops /\ entry.clean \in BOOLEAN
          /\ entry.escaped \in BOOLEAN
      BY DEF EntryInv, EntryTypes
    <3>2. 1 .. Len(entry.plan) + 1 \subseteq Nat
      OBVIOUS
    <3> QED BY <1>3, <3>1, <3>2
  <2>2. /\ entry'.plan = entry.plan /\ entry'.at \in 1 .. Len(entry.plan) + 1 /\ ~entry'.waiting
    BY <1>3
  <2>3. Closes(entry'.plan) /\ fore' \in Blocks /\ queue' \in Seq(Items)
    BY <1>1, <2>2 DEF EntryInv, EntryTypes
  <2> QED BY <2>1, <2>2, <2>3 DEF EntryTypes
<1>5. ASSUME entry.clean, ~entry.escaped PROVE Tracked'
  <2>1. entry # NoEntry
    BY <1>2, RunningAt DEF EntryInv
  <2>2. QueuedOnce /\ Asks /\ Done
    BY <1>5, <2>1 DEF EntryInv, Tracked
  <2>3. QueuedOnce' /\ Asks'
    BY <1>1, <1>3, <2>2 DEF QueuedOnce, Asks
  <2>4. UpTo' = entry'.at - 1
    BY <1>3 DEF UpTo
  <2>5. UpTo = IF fore.error THEN at - 1 ELSE at
    BY <1>1 DEF UpTo
  <2>6. /\ entry'.did \in Seq(Ops) /\ entry'.did = entry.did /\ entry'.plan = entry.plan
        /\ \A k \in 1 .. Len(entry.did) : \E i \in 1 .. UpTo : entry.did[k] = entry.plan[i].op
    BY <1>3, <2>2 DEF Done
  <2>7. entry'.at >= at + 1 /\ entry'.at \in Nat
    BY <1>2, <1>3, RemainingFacts
  <2>8. \A k \in 1 .. Len(entry.did) : \E i \in 1 .. entry'.at - 1 : entry.did[k] = entry.plan[i].op
    <3>1. 1 .. UpTo \subseteq 1 .. entry'.at - 1
      BY <1>2, <2>5, <2>7
    <3> QED BY <2>6, <3>1
  <2>9. ASSUME ~entry'.error PROVE DoneUpTo(entry', entry'.at - 1)
    <3>1. ~matters /\ ~entry.error /\ entry'.at - 1 = at
      BY <1>2, <1>3, <2>9
    <3>2. DoneUpTo(entry, UpTo)
      BY <2>2, <3>1 DEF Done
    <3>3. CASE fore.error
      <4>1. DoneUpTo(entry, at - 1) /\ entry.plan[at].kind # "must"
        BY <2>5, <3>1, <3>2, <3>3
      <4> DEFINE n == at - 1
      <4>2. n \in Nat /\ n + 1 = at
        BY <1>2
      <4> HIDE DEF n
      <4>3. DoneUpTo(entry, n) /\ entry.plan[n + 1].kind # "must"
        BY <4>1, <4>2 DEF n
      <4>4. DoneUpTo(entry', n + 1)
        BY <2>6, <4>2, <4>3, DoneSkips
      <4> QED BY <3>1, <4>2, <4>4
    <3>4. CASE ~fore.error
      <4>1. DoneUpTo(entry, at)
        BY <2>5, <3>2, <3>4
      <4> QED BY <1>2, <2>6, <3>1, <4>1, DoneSame
    <3> QED BY <3>3, <3>4
  <2>10. Done'
    BY <2>4, <2>6, <2>8, <2>9 DEF Done
  <2>11. ASSUME entry'.at = Len(entry.plan) + 1,
                NEW i \in 1 .. Len(entry.plan), NEW k \in 1 .. Len(entry.did),
                entry.plan[i].kind = "always", entry.did[k] = "open"
         PROVE  entry.asked = "close"
    <3>1. i = Len(entry.plan) /\ entry.plan[i].op = "close"
      BY <1>2, <2>11 DEF Closes
    <3>2. CASE i = at
      <4>1. entry.asked = entry.plan[at].op
        BY <1>1, <2>2 DEF Asks
      <4> QED BY <3>1, <3>2, <4>1
    <3>3. CASE i # at
      <4>1. matters
        BY <1>2, <1>3, <2>11, <3>1, <3>3
      <4>2. Remaining(entry.plan, at) = Len(entry.plan) + 1 /\ UpTo = at - 1
        BY <1>3, <2>5, <2>11, <4>1
      <4>3. \A j \in 1 .. at - 1 : entry.plan[j].op # "open"
        BY <1>2, <2>11, <3>3, <4>2, RemainingFacts
      <4>4. PICK j \in 1 .. at - 1 : entry.did[k] = entry.plan[j].op
        BY <2>6, <4>2
      <4> QED BY <2>11, <4>3, <4>4
    <3> QED BY <3>2, <3>3
  <2>12. ClosesAtEnd'
    <3>1. entry'.asked = entry.asked
      BY <1>3
    <3> QED BY <2>6, <2>11, <3>1 DEF ClosesAtEnd
  <2> QED BY <2>3, <2>10, <2>12 DEF Tracked
<1>6. EntryOK'
  BY <1>1, OkUnchanged DEF EntryInv
<1>7. entry'.clean = entry.clean /\ entry'.escaped = entry.escaped
  BY <1>3
<1> QED BY <1>4, <1>5, <1>6, <1>7 DEF EntryInv

\* cache_fore polls.
LEMMA PollsKeeps ==
    ASSUME EntryInv, NEW escape \in BOOLEAN, ForePolls(escape)
    PROVE  EntryInv'
<1>1. entry.waiting /\ ~fore.done /\ last' = last
  BY DEF ForePolls
<1>2. PICK k \in MayEnd(queue, TRUE), failed \in BOOLEAN :
        /\ queue' = Process(queue, fore, k, failed).queue
        /\ fore' = Process(queue, fore, k, failed).fore
        /\ entry' = IF escape
                    THEN [CallReturned(Noted(entry, Process(queue, fore, k, failed).did), TRUE)
                            EXCEPT !.escaped = TRUE]
                    ELSE Noted(entry, Process(queue, fore, k, failed).did)
  BY DEF ForePolls
<1>3. /\ queue \in Seq(Items) /\ fore \in Blocks /\ Closes(entry.plan)
      /\ entry.at \in 1 .. Len(entry.plan)
      /\ entry \in [plan : Seq(Steps), at : Nat, waiting : BOOLEAN, error : BOOLEAN, asked : Ops,
                    did : {entry.did}, clean : BOOLEAN, escaped : BOOLEAN]
  BY <1>1 DEF EntryInv, EntryTypes
<1>4. k \in 0 .. Len(queue)
  BY <1>3, MayEndType
<1>5. queue' \in Seq(Items) /\ fore' \in Blocks
  BY <1>2, <1>3, <1>4, ProcessTypes
<1> DEFINE did == Process(queue, fore, k, failed).did
           e == Noted(entry, did)
<1>6. /\ e \in [plan : Seq(Steps), at : Nat, waiting : BOOLEAN, error : BOOLEAN, asked : Ops,
                did : {e.did}, clean : BOOLEAN, escaped : BOOLEAN]
      /\ e.plan = entry.plan /\ e.at = entry.at /\ e.waiting /\ e.error = entry.error
      /\ e.asked = entry.asked /\ e.clean = entry.clean /\ e.escaped = entry.escaped
      /\ entry.clean => e.did = entry.did \o did
  <2> HIDE DEF did
  <2>1. CASE entry.clean
    <3>1. e = [entry EXCEPT !.did = entry.did \o did]
      BY <2>1 DEF Noted
    <3> HIDE DEF e
    <3> QED BY <1>1, <1>3, <2>1, <3>1
  <2>2. CASE ~entry.clean
    <3>1. e = entry
      BY <2>2 DEF Noted
    <3> HIDE DEF e
    <3> QED BY <1>1, <1>3, <2>2, <3>1
  <2> QED BY <2>1, <2>2
<1>7. EntryOK'
  BY <1>1, OkUnchanged DEF EntryInv
<1>8. CASE escape
  <2> DEFINE c == CallReturned(e, TRUE)
  <2>1. entry' = [c EXCEPT !.escaped = TRUE]
    BY <1>2, <1>8
  <2> HIDE DEF e
  <2>2. c \in [plan : {e.plan}, at : 1 .. Len(e.plan) + 1, waiting : {FALSE}, error : BOOLEAN,
               asked : {e.asked}, did : {e.did}, clean : {e.clean}, escaped : {e.escaped}]
    BY <1>3, <1>6, ReturnsTypes
  <2> HIDE DEF c
  <2>3. entry' \in [plan : {entry.plan}, at : 1 .. Len(entry.plan) + 1, waiting : {FALSE},
                    error : BOOLEAN, asked : {entry.asked}, did : {entry'.did},
                    clean : {entry.clean}, escaped : {TRUE}]
    BY <1>6, <2>1, <2>2
  <2>4. entry' \in [plan : Seq(Steps), at : Nat, waiting : BOOLEAN, error : BOOLEAN, asked : Ops,
                    did : {entry'.did}, clean : BOOLEAN, escaped : BOOLEAN]
    <3>1. 1 .. Len(entry.plan) + 1 \subseteq Nat
      OBVIOUS
    <3>2. entry.plan \in Seq(Steps) /\ entry.asked \in Ops /\ entry.clean \in BOOLEAN
      BY <1>3
    <3> QED BY <2>3, <3>1, <3>2
  <2>5. /\ entry'.plan = entry.plan /\ entry'.at \in 1 .. Len(entry.plan) + 1 /\ ~entry'.waiting
        /\ entry'.escaped
    BY <2>3
  <2> QED BY <1>3, <1>5, <1>7, <2>4, <2>5 DEF EntryInv, EntryTypes
<1>9. CASE ~escape
  <2>1. entry' = e
    BY <1>2, <1>9
  <2>2. /\ entry'.plan = entry.plan /\ entry'.at = entry.at /\ entry'.error = entry.error
        /\ entry'.waiting /\ entry'.asked = entry.asked
        /\ entry'.clean = entry.clean /\ entry'.escaped = entry.escaped
        /\ entry.clean => entry'.did = entry.did \o Process(queue, fore, k, failed).did
    BY <1>6, <2>1
  <2>3. EntryTypes'
    <3>1. entry' \in [plan : Seq(Steps), at : Nat, waiting : BOOLEAN, error : BOOLEAN, asked : Ops,
                      did : {entry'.did}, clean : BOOLEAN, escaped : BOOLEAN]
      BY <1>6, <2>1
    <3> QED BY <1>3, <1>5, <2>2, <3>1 DEF EntryTypes
  <2>4. ASSUME entry.clean, ~entry.escaped PROVE Tracked'
    <3>1. entry # NoEntry
      BY <1>3, RunningAt DEF EntryInv
    <3>2. QueuedOnce /\ Asks /\ Done
      BY <2>4, <3>1 DEF EntryInv, Tracked
    <3>3. PICK m \in 1 .. Len(queue) : Mine(queue) = {m} /\ queue[m].sent \in {Unsent, fore.op}
      BY <1>1, <3>2 DEF QueuedOnce
    <3>4. UpTo = entry.at - 1
      BY <1>1 DEF UpTo
    <3>5. fore.op = entry.plan[entry.at].op /\ entry'.asked = fore.op
      BY <1>1, <2>2, <3>2 DEF Asks
    <3>6. EntryTypes /\ entry'.did = entry.did \o Process(queue, fore, k, failed).did
      BY <2>2, <2>4 DEF EntryInv
    <3> QED BY ZenonT(30), <1>1, <1>2, <1>3, <1>4, <2>2, <3>2, <3>3, <3>4, <3>5, <3>6, Performs
  <2> QED BY <1>7, <2>2, <2>3, <2>4 DEF EntryInv
<1> QED BY <1>8, <1>9

\* An entry point ends.
LEMMA EndKeeps ==
    ASSUME EntryInv, EntryReturns
    PROVE  EntryInv'
<1>1. /\ entry.at > Len(entry.plan) /\ last' = entry /\ entry' = NoEntry
      /\ fore' = fore /\ queue' = queue
  BY DEF EntryReturns
<1>2. Len(entry.plan) \in Nat /\ entry.plan \in Seq(Steps)
  BY DEF EntryInv, EntryTypes
<1>3. EntryTypes'
  <2>1. NoOp \in Ops /\ <<>> \in Seq(Steps) /\ Closes(<<>>)
    BY DEF NoOp, Ops, Closes
  <2>2. NoEntry \in [plan : Seq(Steps), at : Nat, waiting : BOOLEAN, error : BOOLEAN, asked : Ops,
                     did : {NoEntry.did}, clean : BOOLEAN, escaped : BOOLEAN]
        /\ NoEntry.plan = <<>> /\ ~NoEntry.waiting
    BY <2>1 DEF NoEntry
  <2> QED BY <1>1, <2>1, <2>2 DEF EntryInv, EntryTypes
<1>4. ASSUME entry.clean, ~entry.escaped
      PROVE  /\ ~entry.error => DoneUpTo(entry, Len(entry.plan))
             /\ \A i \in 1 .. Len(entry.plan), k \in 1 .. Len(entry.did) :
                  entry.plan[i].kind = "always" /\ entry.did[k] = "open" => entry.asked = "close"
  <2>1. entry.at # 0 /\ entry # NoEntry /\ entry.at \in 1 .. Len(entry.plan) + 1
    BY <1>1, <1>2, RunningAt DEF EntryInv, EntryTypes
  <2>2. entry.at = Len(entry.plan) + 1 /\ ~entry.waiting
    BY <1>1, <1>2, <2>1 DEF EntryInv, EntryTypes
  <2>3. UpTo = Len(entry.plan)
    BY <1>2, <2>2 DEF UpTo
  <2>4. Done /\ ClosesAtEnd
    BY <1>4, <2>1 DEF EntryInv, Tracked
  <2> QED BY <2>2, <2>3, <2>4 DEF Done, ClosesAtEnd
<1>5. EntryOK'
  BY <1>1, <1>4, DoneSame DEF EntryOK
<1> QED BY <1>1, <1>3, <1>5 DEF EntryInv

\* What an earlier entry point left goes on.
LEMMA CallbackKeeps ==
    ASSUME EntryInv, CallbackPolls
    PROVE  EntryInv'
<1>1. entry = NoEntry /\ entry' = entry /\ last' = last
  BY DEF CallbackPolls
<1>2. PICK k \in MayEnd(queue, TRUE), failed \in BOOLEAN :
        /\ queue' = Process(queue, fore, k, failed).queue
        /\ fore' = Process(queue, fore, k, failed).fore
  BY DEF CallbackPolls
<1>3. queue \in Seq(Items) /\ fore \in Blocks
  BY DEF EntryInv, EntryTypes
<1>4. k \in 0 .. Len(queue)
  BY <1>3, MayEndType
<1>5. queue' \in Seq(Items) /\ fore' \in Blocks
  BY <1>2, <1>3, <1>4, ProcessTypes
<1>6. EntryTypes'
  BY <1>1, <1>5 DEF EntryInv, EntryTypes
<1>7. EntryOK'
  BY <1>1, OkUnchanged DEF EntryInv
<1> QED BY <1>1, <1>6, <1>7 DEF EntryInv

\* Another part of the module queues an operation.
LEMMA OtherKeeps ==
    ASSUME EntryInv, OtherBack
    PROVE  EntryInv'
<1> DEFINE q == Append(queue, Operation(FALSE))
<1>1. /\ queue' = Process(q, fore, 0, FALSE).queue
      /\ entry' = entry /\ fore' = fore /\ last' = last
  BY DEF OtherBack
<1>2. queue \in Seq(Items) /\ fore \in Blocks
  BY DEF EntryInv, EntryTypes
<1>3. Operation(FALSE) \in Items /\ ~Operation(FALSE).mine
  BY DEF Operation, Items
<1>4. q \in Seq(Items) /\ Len(q) = Len(queue) + 1 /\ Mine(q) = Mine(queue)
  BY <1>2, <1>3, MineAppended
<1>5. \A i \in 1 .. Len(queue) : q[i] = queue[i]
  BY <1>2, <1>3
<1> HIDE DEF q
<1>6. 0 \in 0 .. Len(q) /\ FALSE \in BOOLEAN
  BY <1>4
<1>7. EntryTypes'
  <2>1. queue' \in Seq(Items)
    BY <1>1, <1>2, <1>4, <1>6, ProcessTypes
  <2> QED BY <1>1, <2>1 DEF EntryInv, EntryTypes
<1>8. ASSUME entry # NoEntry, entry.clean, ~entry.escaped PROVE Tracked'
  <2>1. Tracked
    BY <1>8 DEF EntryInv
  <2>2. Asks' /\ ClosesAtEnd'
    BY <1>1, <2>1 DEF Tracked, Asks, ClosesAtEnd
  <2>3. Done'
    BY <1>1, <2>1 DEF Tracked, Done, UpTo, DoneUpTo
  <2>4. CASE entry.waiting /\ ~fore.done
    <3>1. PICK m \in 1 .. Len(queue) : Mine(queue) = {m} /\ queue[m].sent \in {Unsent, fore.op}
      BY <2>1, <2>4 DEF Tracked, QueuedOnce
    <3>2. m \in 1 .. Len(q) /\ q[m] = queue[m] /\ 0 < m
      BY <1>2, <1>4, <1>5
    <3>3. q[m].sent \in {Unsent, fore.op} /\ Mine(q) = {m}
      BY <1>4, <3>1, <3>2
    <3>4. Ends(q, fore, 0, FALSE, m, Process(q, fore, 0, FALSE))
      BY <1>2, <1>4, <1>6, <3>2, <3>3, ProcessOne
    <3> DEFINE r == Process(q, fore, 0, FALSE)
    <3>5. Ends(q, fore, 0, FALSE, m, r) /\ queue' = r.queue
      BY <1>1, <3>4
    <3> HIDE DEF r
    <3>6. \E n \in 1 .. Len(queue') : Mine(queue') = {n} /\ queue'[n].sent \in {Unsent, fore.op}
      BY <3>2, <3>5 DEF Ends
    <3>7. QueuedOnce'
      BY <1>1, <2>4, <3>6 DEF QueuedOnce
    <3> QED BY <2>2, <2>3, <3>7 DEF Tracked
  <2>5. CASE ~(entry.waiting /\ ~fore.done)
    <3>1. Mine(q) = {}
      BY <1>4, <2>1, <2>5 DEF Tracked, QueuedOnce
    <3>2. Mine(queue') = {}
      BY <1>1, <1>2, <1>4, <1>6, <3>1, ProcessNone
    <3>3. QueuedOnce'
      BY <1>1, <2>5, <3>2 DEF QueuedOnce
    <3> QED BY <2>2, <2>3, <3>3 DEF Tracked
  <2> QED BY <2>4, <2>5
<1>9. EntryOK'
  BY <1>1, OkUnchanged DEF EntryInv
<1> QED BY <1>1, <1>7, <1>8, <1>9 DEF EntryInv

-----------------------------------------------------------------------------
(* The plans end in a close, if in an "always" at all.                     *)

LEMMA FollowCloses ==
    ASSUME NEW p \in SUBSET Plain, NEW q, \A b \in q : Closes(b)
    PROVE  \A r \in Follow(p, q) : Closes(r)
<1> SUFFICES ASSUME NEW r \in Follow(p, q) PROVE Closes(r)
  OBVIOUS
<1>1. PICK a \in p, b \in q : r = a \o b
  BY DEF Follow
<1>2. a \in Plain /\ Closes(b)
  OBVIOUS
<1> QED BY <1>1, <1>2, ClosesFollows

LEMMA CreateCloses == \A p \in CreatePlans : Closes(p)
<1> DEFINE open == Must("open")
           stamp == Must("stamp")
           extent == Must("extent")
           access == Must("access")
           remove == Must("remove")
           close == Always("close")
           make(a) == open \o stamp \o extent \o a \o close
<1>1. /\ open \in Plain /\ stamp \in Plain /\ extent \in Plain /\ access \in Plain
      /\ remove \in Plain /\ <<>> \in Plain
  BY EachPlain
<1>2. Closes(close)
  BY AlwaysCloses
<1>3. CreatePlans = {make(<<>>), remove \o make(access)}
  BY DEF CreatePlans
<1> HIDE DEF open, stamp, extent, access, remove, close
<1>4. ASSUME NEW a \in Plain PROVE Closes(make(a))
  <2>1. open \o stamp \in Plain
    BY <1>1, PlainFollows
  <2>2. open \o stamp \o extent \in Plain
    BY <1>1, <2>1, PlainFollows
  <2>3. open \o stamp \o extent \o a \in Plain
    BY <2>2, PlainFollows
  <2> DEFINE before == open \o stamp \o extent \o a
  <2> HIDE DEF before
  <2>4. Closes(before \o close)
    BY <1>2, <2>3, ClosesFollows DEF before
  <2> QED BY <2>4 DEF before
<1>5. Closes(make(<<>>)) /\ Closes(make(access))
  BY <1>1, <1>4
<1> HIDE DEF make
<1>6. Closes(remove \o make(access))
  BY <1>1, <1>5, ClosesFollows
<1> QED BY <1>3, <1>5, <1>6

\* A step or two of a file that is open
LEMMA OpenFilePlain ==
    BytesPlans \subseteq Plain /\ ClosePlans \subseteq Plain
<1> DEFINE args == Must("args")
           read == Must("read")
           write == Must("write")
           sequential == Must("sequential")
           stamp == Must("stamp")
           close == Must("close")
           more == {Must(op) \o s : op \in {"read", "write"}, s \in {<<>>, sequential}}
<1>1. /\ args \in Plain /\ read \in Plain /\ write \in Plain /\ sequential \in Plain
      /\ stamp \in Plain /\ close \in Plain /\ <<>> \in Plain
  BY EachPlain
<1>2. /\ BytesPlans = {args \o p : p \in {<<>>} \cup more}
      /\ ClosePlans = {args \o s \o close : s \in {<<>>, stamp}}
  BY DEF BytesPlans, ClosePlans
<1>3. Must("read") = read /\ Must("write") = write
  OBVIOUS
<1> HIDE DEF args, read, write, sequential, stamp, close, more
<1>4. ASSUME NEW b \in BytesPlans PROVE b \in Plain
  <2>1. PICK p \in {<<>>} \cup more : b = args \o p
    BY <1>2
  <2>2. p \in Plain
    <3>1. CASE p = <<>>
      BY <1>1, <3>1
    <3>2. CASE p # <<>>
      <4>1. PICK op \in {"read", "write"}, s \in {<<>>, sequential} : p = Must(op) \o s
        BY <2>1, <3>2 DEF more
      <4>2. Must(op) \in {read, write} /\ s \in Plain
        BY <1>1, <1>3
      <4>3. Must(op) \in Plain
        BY <1>1, <4>2
      <4> QED BY <4>1, <4>2, <4>3, PlainFollows
    <3> QED BY <3>1, <3>2
  <2> QED BY <1>1, <2>1, <2>2, PlainFollows
<1>5. ASSUME NEW c \in ClosePlans PROVE c \in Plain
  <2>1. PICK s \in {<<>>, stamp} : c = args \o s \o close
    BY <1>2
  <2>2. args \o s \in Plain
    BY <1>1, PlainFollows
  <2> QED BY <1>1, <2>1, <2>2, PlainFollows
<1> QED BY <1>4, <1>5

LEMMA OpenPlain == EntryParameters => OpenPlans \subseteq Plain
<1> SUFFICES ASSUME EntryParameters PROVE OpenPlans \subseteq Plain
  OBVIOUS
<1> DEFINE open == Must("open")
           args == Must("args")
<1>1. open \in Plain /\ args \in Plain
  BY EachPlain
<1>2. OpenPlans = Follow(Resolve, {open, open \o args})
  BY DEF OpenPlans
<1> HIDE DEF open, args
<1>3. {open, open \o args} \in SUBSET Plain
  BY <1>1, PlainFollows
<1>4. Resolve \in SUBSET Plain
  BY ResolvePlain
<1> QED BY <1>2, <1>3, <1>4, FollowPlain

LEMMA ArgsPlain == EntryParameters => ArgsPlans \subseteq Plain
<1> SUFFICES ASSUME EntryParameters PROVE ArgsPlans \subseteq Plain
  OBVIOUS
<1> DEFINE args == Must("args")
           sequential == Must("sequential")
           extent == Must("extent")
           zero == Must("zero")
           flush == Must("flush")
           more == {<<>>, sequential, extent, extent \o args, zero}
<1>1. /\ args \in Plain /\ sequential \in Plain /\ extent \in Plain /\ zero \in Plain
      /\ flush \in Plain /\ <<>> \in Plain
  BY EachPlain
<1>2. ArgsPlans = {args \o p : p \in more} \cup Follow({args, args \o flush}, Resolve)
  BY DEF ArgsPlans
<1> HIDE DEF args, sequential, extent, zero, flush
<1>3. more \in SUBSET Plain /\ {args, args \o flush} \in SUBSET Plain
  BY <1>1, PlainFollows
<1>4. Resolve \in SUBSET Plain
  BY ResolvePlain
<1> HIDE DEF more
<1>5. Follow({args, args \o flush}, Resolve) \subseteq Plain
  BY <1>3, <1>4, FollowPlain
<1>6. ASSUME NEW p \in more PROVE args \o p \in Plain
  BY <1>1, <1>3, PlainFollows
<1>7. {args \o p : p \in more} \subseteq Plain
  BY <1>6
<1> QED BY <1>2, <1>5, <1>7

LEMMA FileCloses == EntryParameters => \A p \in FilePlans : Closes(p)
<1> SUFFICES ASSUME EntryParameters PROVE \A p \in FilePlans : Closes(p)
  OBVIOUS
<1> DEFINE access == Must("access")
           stamp == Must("stamp")
           remove == Must("remove")
           mkdir == Must("mkdir")
           try == Try("stamp")
           more == {<<>>, access, stamp, access \o stamp, remove, mkdir \o try}
<1>1. /\ access \in Plain /\ stamp \in Plain /\ remove \in Plain /\ mkdir \in Plain
      /\ try \in Plain /\ <<>> \in Plain
  BY EachPlain
<1>2. FilePlans = Follow(Resolve, more \cup CreatePlans)
  BY DEF FilePlans
<1> HIDE DEF access, stamp, remove, mkdir, try
<1>3. more \subseteq Plain
  BY <1>1, PlainFollows
<1>4. Resolve \in SUBSET Plain
  BY ResolvePlain
<1> HIDE DEF more
<1>5. \A b \in more \cup CreatePlans : Closes(b)
  BY <1>3, PlainCloses, CreateCloses
<1> QED BY <1>2, <1>4, <1>5, FollowCloses

LEMMA FuncPlain == EntryParameters => FuncPlans \subseteq Plain
<1> SUFFICES ASSUME EntryParameters PROVE FuncPlans \subseteq Plain
  OBVIOUS
<1> DEFINE rename == Must("rename")
           enumerate == Must("enumerate")
           drive == Must("drive")
           name == Must("name")
           more == Follow(Name, {rename}) \cup {enumerate \o enumerate} \cup {drive, name}
<1>1. rename \in Plain /\ enumerate \in Plain /\ drive \in Plain /\ name \in Plain
  BY EachPlain
<1>2. FuncPlans = Follow(Resolve, more) \cup Follow(Drive, {drive})
  BY DEF FuncPlans
<1> HIDE DEF rename, enumerate, drive, name
<1>3. Resolve \in SUBSET Plain /\ Name \in SUBSET Plain /\ Drive \in SUBSET Plain
  BY ResolvePlain, DrivePlain
<1>4. {rename} \in SUBSET Plain /\ {drive} \in SUBSET Plain
  BY <1>1
<1>5. Follow(Name, {rename}) \subseteq Plain /\ Follow(Drive, {drive}) \subseteq Plain
  BY <1>3, <1>4, FollowPlain
<1>6. more \in SUBSET Plain
  BY <1>1, <1>5, PlainFollows
<1> HIDE DEF more
<1>7. Follow(Resolve, more) \subseteq Plain
  BY <1>3, <1>6, FollowPlain
<1> QED BY <1>2, <1>5, <1>7

LEMMA PlansClose == EntryParameters => \A p \in EntryPlans : Closes(p)
BY OpenPlain, ArgsPlain, FileCloses, FuncPlain, OpenFilePlain, PlainCloses DEF EntryPlans

-----------------------------------------------------------------------------
\* The invariant, for any number of drives to search, of Escapes and of
\* operations of others in the queue: while nothing of an earlier entry point is
\* queued, cache_fore's operation is in the queue once, and the command block
\* says what it was queued for (cache_fore, cache_process, fs.c).
THEOREM EntryInvariant == EntryParameters /\ EntrySpec => []EntryInv
<1> SUFFICES ASSUME EntryParameters PROVE EntrySpec => []EntryInv
  OBVIOUS
<1>1. EntryInit => EntryInv
  <2> SUFFICES ASSUME EntryInit PROVE EntryInv
    OBVIOUS
  <2>1. entry = NoEntry /\ last = NoEntry /\ queue = <<>>
        /\ fore = [op |-> NoOp, done |-> FALSE, error |-> FALSE]
    BY DEF EntryInit
  <2>2. NoOp \in Ops /\ <<>> \in Seq(Steps) /\ Closes(<<>>) /\ <<>> \in Seq(Items)
    BY DEF NoOp, Ops, Closes
  <2>3. NoEntry \in [plan : Seq(Steps), at : Nat, waiting : BOOLEAN, error : BOOLEAN, asked : Ops,
                     did : {NoEntry.did}, clean : BOOLEAN, escaped : BOOLEAN]
        /\ NoEntry.plan = <<>> /\ ~NoEntry.waiting /\ NoEntry.did = <<>>
    BY <2>2 DEF NoEntry
  <2>4. EntryTypes
    BY <2>1, <2>2, <2>3 DEF EntryTypes, Blocks
  <2>5. DoneUpTo(NoEntry, 0)
    BY <2>3, DoneNone
  <2>6. EntryOK
    BY <2>1, <2>3, <2>5 DEF EntryOK
  <2> QED BY <2>1, <2>4, <2>6 DEF EntryInv
<1>2. EntryInv /\ [EntryNext]_evars => EntryInv'
  <2> SUFFICES ASSUME EntryInv, [EntryNext]_evars PROVE EntryInv'
    OBVIOUS
  <2>1. ASSUME NEW plan \in EntryPlans, EnterCall(plan) PROVE EntryInv'
    BY <2>1, PlansClose, EnterKeeps
  <2>2. ASSUME EntryStep PROVE EntryInv'
    BY <2>2, ForeKeeps, ReturnsKeeps, PollsKeeps, EndKeeps DEF EntryStep
  <2>3. ASSUME ForePolls(TRUE) PROVE EntryInv'
    BY <2>3, PollsKeeps
  <2>4. ASSUME CallbackPolls PROVE EntryInv'
    BY <2>4, CallbackKeeps
  <2>5. ASSUME OtherBack PROVE EntryInv'
    BY <2>5, OtherKeeps
  <2>6. ASSUME UNCHANGED evars PROVE EntryInv'
    <3>1. /\ entry' = entry /\ fore' = fore /\ queue' = queue /\ last' = last
      BY <2>6 DEF evars
    <3>2. EntryTypes' /\ EntryOK'
      BY <3>1, OkUnchanged DEF EntryInv, EntryTypes
    <3>3. ASSUME Tracked PROVE Tracked'
      <4>1. QueuedOnce' /\ Asks' /\ ClosesAtEnd'
        BY <3>1, <3>3 DEF Tracked, QueuedOnce, Asks, ClosesAtEnd
      <4>2. Done'
        BY <3>1, <3>3 DEF Tracked, Done, UpTo, DoneUpTo
      <4> QED BY <4>1, <4>2 DEF Tracked
    <3> QED BY <3>1, <3>2, <3>3 DEF EntryInv
  <2> QED BY <2>1, <2>2, <2>3, <2>4, <2>5, <2>6 DEF EntryNext
<1> QED BY <1>1, <1>2, PTL DEF EntrySpec

\* An entry point that Escape does not end, and that begins when nothing of an
\* earlier one is queued, has its plan done once and in order or reports an
\* error, and closes the file that it opened to create it (cache_fore, fsentry.c).
THEOREM EntrySafe == EntryParameters /\ EntrySpec => []EntryOK
<1> SUFFICES ASSUME EntryParameters PROVE EntrySpec => []EntryOK
  OBVIOUS
<1>1. EntryInv => EntryOK
  BY DEF EntryInv
<1> QED BY <1>1, EntryInvariant, PTL
=============================================================================
