---------------------------- MODULE RequestsProofs ----------------------------
(***************************************************************************)
(* Proofs about the layers between an operation and the remote servers.    *)
(*                                                                         *)
(* Share, for any operations: what it promises of the block, of its queue  *)
(* and of the operations.  Inv says where in an event the channel is and   *)
(* what that means for the block; IdInv, what the replies under way can be *)
(* numbered.                                                               *)
(*                                                                         *)
(* Unified: every operation is called back once, waits for exactly one     *)
(* thing until then, leaves no directory open, and reports what is so.     *)
(* Operations touch each other only through the list of timers.  The       *)
(* invariant says of each operation alone what it waits for and how far it *)
(* has come, as a predicate of what the servers and the timers know of it; *)
(* the handlers are proved to keep it for any operation.                   *)
(***************************************************************************)
EXTENDS Share, Unified, Induction

----------------------------------------------------------------------------
(* The inductive invariant.                                                *)

\* The channel's variable holds the block until share_destroy is done with it;
\* a callback of share_destroy is the innermost, and the block is kept until
\* the last callback has returned.
BlockInv ==
    /\ handle <=> linked \/ closing
    /\ linked => ~closing
    /\ \A i \in 1 .. Len(calls) - 1 : calls[i].by # "destroy"
    /\ InCallback /\ Top.by = "destroy" => closing
    /\ BlockOK

\* A channel that is closed has no operation left, and its block is there only
\* for callbacks in progress.
ClosedInv ==
    ~linked /\ ~closing =>
        /\ active = None /\ pending = <<>>
        /\ allocated /\ ~CallbackMayFail => InCallback

\* An operation that waits is in the queue once, and is neither active nor called
\* back; nor has the active one been.
PlacesInv ==
    /\ \A i, j \in DOMAIN pending : pending[i] = pending[j] => i = j
    /\ \A i \in DOMAIN pending : pending[i] # active /\ called[pending[i]] = 0
    /\ active # None => called[active] = 0
    /\ \A o \in Ops : called[o] <= 1

Inv == TypeOK /\ BlockInv /\ ClosedInv /\ PlacesInv

\* The operations that were started are numbered 1, 2 ... modulo IdMax + 1. A
\* request the server has not answered has the number it was started with, and
\* only the one of the active operation has the number sent last.
Started == {o \in Ops : called[o] > 0 \/ o = active}
Number(k) == IF k = IdMax + 1 THEN 0 ELSE k

IdOf(k) ==
    /\ id = Number(k)
    /\ \A i \in DOMAIN wire : \E b \in 1 .. k :
          /\ wire[i].id = Number(b)
          /\ b = k /\ active # None => wire[i].op = active

IdInv == \E k \in 0 .. Cardinality(Started) : IdOf(k)

----------------------------------------------------------------------------
(* Sequences, as the queue and the stack of callbacks use them.            *)

\* What is at each place of a sequence without its first element.
LEMMA TailFacts ==
    ASSUME NEW S, NEW s \in Seq(S), s # <<>>
    PROVE  /\ Head(s) \in S /\ Head(s) = s[1] /\ Tail(s) \in Seq(S)
           /\ Len(Tail(s)) = Len(s) - 1 /\ DOMAIN s = 1 .. Len(s) /\ 1 \in DOMAIN s
           /\ DOMAIN Tail(s) = 1 .. Len(s) - 1
           /\ \A i \in DOMAIN Tail(s) : Tail(s)[i] = s[i + 1] /\ i + 1 \in DOMAIN s
  OBVIOUS

\* What is at each place of a sequence with an element more.
LEMMA AppendFacts ==
    ASSUME NEW S, NEW s \in Seq(S), NEW e \in S
    PROVE  /\ Append(s, e) \in Seq(S) /\ Append(s, e) # <<>>
           /\ Len(Append(s, e)) = Len(s) + 1 /\ DOMAIN Append(s, e) = 1 .. Len(s) + 1
           /\ \A i \in 1 .. Len(s) : Append(s, e)[i] = s[i]
           /\ Append(s, e)[Len(s) + 1] = e
  OBVIOUS

\* The first elements of a sequence.
LEMMA PrefixFacts ==
    ASSUME NEW S, NEW s \in Seq(S), NEW n \in 0 .. Len(s)
    PROVE  /\ SubSeq(s, 1, n) \in Seq(S) /\ Len(SubSeq(s, 1, n)) = n
           /\ \A i \in 1 .. n : SubSeq(s, 1, n)[i] = s[i]
<1>1. SubSeq(s, 1, n) \in Seq(S)
  OBVIOUS
<1>2. Len(SubSeq(s, 1, n)) = n
  OBVIOUS
<1>3. \A i \in 1 .. n : SubSeq(s, 1, n)[i] = s[i]
  OBVIOUS
<1> QED  BY <1>1, <1>2, <1>3

\* The empty sequence is the one without elements.
LEMMA EmptyFacts ==
    ASSUME NEW S, NEW s \in Seq(S)
    PROVE  Len(s) \in Nat /\ (s = <<>> <=> Len(s) = 0)
<1>1. Len(s) \in Nat
  OBVIOUS
<1>2. ASSUME Len(s) = 0 PROVE s = <<>>
  BY <1>2
<1>3. ASSUME s = <<>> PROVE Len(s) = 0
  BY <1>3
<1> QED  BY <1>1, <1>2, <1>3

\* What is at each place of a stack whose top was taken.
LEMMA PopFacts ==
    ASSUME NEW S, NEW s \in Seq(S), s # <<>>
    PROVE  /\ SubSeq(s, 1, Len(s) - 1) \in Seq(S)
           /\ Len(SubSeq(s, 1, Len(s) - 1)) = Len(s) - 1 /\ Len(s) \in Nat \ {0}
           /\ \A i \in 1 .. Len(s) - 1 : SubSeq(s, 1, Len(s) - 1)[i] = s[i]
           /\ SubSeq(s, 1, Len(s) - 1) = <<>> <=> Len(s) = 1
<1>1. Len(s) \in Nat \ {0} /\ Len(s) - 1 \in 0 .. Len(s)
  BY EmptyFacts
<1> DEFINE p == SubSeq(s, 1, Len(s) - 1)
<1>2. /\ p \in Seq(S) /\ Len(p) = Len(s) - 1 /\ \A i \in 1 .. Len(s) - 1 : p[i] = s[i]
  BY <1>1, PrefixFacts
<1>3. p = <<>> <=> Len(p) = 0
  BY <1>2, EmptyFacts
<1>4. p = <<>> <=> Len(s) = 1
  BY <1>1, <1>2, <1>3
<1> QED  BY <1>1, <1>2, <1>4

----------------------------------------------------------------------------
(* The invariant holds at first.                                           *)

\* The types, the truth values apart from the rest.
Flags ==
    /\ linked \in BOOLEAN /\ handle \in BOOLEAN /\ allocated \in BOOLEAN
    /\ closing \in BOOLEAN
Ranges ==
    /\ threads \in Nat
    /\ pending \in Seq(Ops)
    /\ active \in Ops \cup {None}
    /\ timer \in {"off", "running", "due"}
    /\ calls \in Seq([op : Ops, by : By])
    /\ result \in [Ops -> Result]
    /\ called \in [Ops -> Nat]
    /\ id \in 0 .. IdMax
    /\ wire \in Seq(Request)

\* The types of the flags and of the rest, which different provers check.
LEMMA TypeParts == TypeOK <=> Flags /\ Ranges
BY Zenon DEF TypeOK, Flags, Ranges

\* The invariant holds before the first event.
LEMMA InitInv == Init => Inv
<1> SUFFICES ASSUME Init PROVE Inv
  OBVIOUS
<1>1. Flags
  BY Zenon DEF Init, Flags
<1>2. Ranges
  BY IdAssumption DEF Init, Ranges, Result
<1>3. BlockInv
  BY DEF Init, BlockInv, BlockOK, InCallback
<1>4. ClosedInv /\ PlacesInv
  BY DEF Init, ClosedInv, PlacesInv
<1> QED  BY <1>1, <1>2, <1>3, <1>4, TypeParts DEF Inv

----------------------------------------------------------------------------
(* Every step keeps the types.                                             *)

\* What is so of the stack when a callback is called.
LEMMA CallFacts ==
    ASSUME TypeOK, NEW o \in Ops, NEW r \in Result, NEW by \in By, Call(o, r, by)
    PROVE  /\ threads' = threads + 1 /\ active' = None
           /\ calls' \in Seq([op : Ops, by : By]) /\ calls' # <<>>
           /\ Len(calls') = Len(calls) + 1
           /\ \A i \in 1 .. Len(calls) : calls'[i] = calls[i]
           /\ Top'.by = by
           /\ result' \in [Ops -> Result] /\ called' \in [Ops -> Nat]
           /\ \A p \in Ops : called'[p] = IF p = o THEN called[p] + 1 ELSE called[p]
           /\ \A p \in Ops : result'[p] = IF p = o THEN r ELSE result[p]
<1>1. [op |-> o, by |-> by] \in [op : Ops, by : By]
  OBVIOUS
<1>2. calls' = Append(calls, [op |-> o, by |-> by]) /\ calls \in Seq([op : Ops, by : By])
  BY DEF Call, TypeOK
<1>3. /\ calls' \in Seq([op : Ops, by : By]) /\ calls' # <<>>
      /\ Len(calls') = Len(calls) + 1
      /\ \A i \in 1 .. Len(calls) : calls'[i] = calls[i]
      /\ calls'[Len(calls) + 1] = [op |-> o, by |-> by]
  BY <1>1, <1>2, AppendFacts
<1>4. Top'.by = by
  BY <1>3 DEF Top
<1>5. /\ result' \in [Ops -> Result] /\ called' \in [Ops -> Nat]
      /\ \A p \in Ops : called'[p] = IF p = o THEN called[p] + 1 ELSE called[p]
      /\ \A p \in Ops : result'[p] = IF p = o THEN r ELSE result[p]
  BY DEF Call, TypeOK
<1> QED  BY <1>3, <1>4, <1>5 DEF Call

\* A callback leaves what it changes in range.
LEMMA CallRanges ==
    ASSUME Flags, Ranges, NEW o \in Ops, NEW r \in Result, NEW by \in By, Call(o, r, by),
           pending' \in Seq(Ops), id' \in 0 .. IdMax, wire' \in Seq(Request),
           UNCHANGED timer \/ timer' = "off"
    PROVE  Ranges'
<1>1. /\ threads' = threads + 1 /\ active' = None
      /\ calls' \in Seq([op : Ops, by : By])
      /\ result' \in [Ops -> Result] /\ called' \in [Ops -> Nat]
  BY CallFacts, TypeParts
<1>2. threads' \in Nat /\ timer' \in {"off", "running", "due"}
  BY <1>1 DEF Ranges
<1> QED  BY <1>1, <1>2 DEF Ranges

\* Every step keeps the ranges of the queue, the stack and the counts.
LEMMA NextRanges == Flags /\ Ranges /\ BlockOK /\ Next => Ranges'
<1> SUFFICES ASSUME Flags, Ranges, BlockOK, Next PROVE Ranges'
  OBVIOUS
<1> USE NoneAssumption, IdAssumption
<1>1. ASSUME Create PROVE Ranges'
  BY <1>1 DEF Ranges, Create
<1>2. ASSUME StartTimeout PROVE Ranges'
  BY <1>2 DEF Ranges, StartTimeout, block
<1>3. ASSUME TimeOut PROVE Ranges'
  <2>1. active \in Ops /\ "timeout" \in Result /\ "idle" \in By
    BY <1>3 DEF Ranges, TimeOut, Result, By
  <2> QED  BY <1>3, <2>1, CallRanges DEF Ranges, TimeOut, block
<1>4. ASSUME Send PROVE Ranges'
  <2>1. /\ Head(pending) \in Ops /\ Tail(pending) \in Seq(Ops) /\ id' \in 0 .. IdMax
    BY <1>4, TailFacts DEF Ranges, Send, Begin, NextId
  <2>2. [op |-> Head(pending), id |-> id'] \in Request
    BY <2>1 DEF Request
  <2> QED  BY <1>4, <2>1, <2>2, AppendFacts DEF Ranges, Send, Begin, block
<1>5. ASSUME SendFails PROVE Ranges'
  <2>1. /\ Head(pending) \in Ops /\ Tail(pending) \in Seq(Ops) /\ id' \in 0 .. IdMax
        /\ "send" \in Result /\ "idle" \in By
    BY <1>5, TailFacts DEF Ranges, SendFails, Begin, NextId, Result, By
  <2> QED  BY <1>5, <2>1, CallRanges DEF Ranges, SendFails, Begin, block
<1>6. ASSUME Data PROVE Ranges'
  <2>1. wire' \in Seq(Request) /\ "ok" \in Result /\ "reply" \in Result /\ "data" \in By
    BY <1>6, TailFacts DEF Ranges, Data, Result, By
  <2>2. CASE active = None
    BY <1>6, <2>1, <2>2 DEF Ranges, Data, block
  <2>3. CASE active # None
    <3>1. active \in Ops  BY <2>3 DEF Ranges
    <3> QED  BY <1>6, <2>1, <2>3, <3>1, CallRanges DEF Ranges, Data, block
  <2> QED  BY <2>2, <2>3
<1>7. ASSUME Destroy PROVE Ranges'
  BY <1>7 DEF Ranges, Destroy, queue
<1>8. ASSUME DestroyCallActive PROVE Ranges'
  <2>1. active \in Ops /\ "closed" \in Result /\ "destroy" \in By
    BY <1>8 DEF Ranges, DestroyCallActive, Result, By
  <2> QED  BY <1>8, <2>1, CallRanges DEF Ranges, DestroyCallActive, block
<1>9. ASSUME DestroyCallPending PROVE Ranges'
  <2>1. /\ Head(pending) \in Ops /\ Tail(pending) \in Seq(Ops)
        /\ "closed" \in Result /\ "destroy" \in By
    BY <1>9, TailFacts DEF Ranges, DestroyCallPending, Result, By
  <2> QED  BY <1>9, <2>1, CallRanges DEF Ranges, DestroyCallPending, block
<1>10. ASSUME DestroyDone PROVE Ranges'
  BY <1>10 DEF Ranges, DestroyDone, queue, Tidy
<1>11. ASSUME NEW o \in Ops, Back(o) PROVE Ranges'
  BY <1>11 DEF Ranges, Back, block
<1>12. ASSUME Return PROVE Ranges'
  <2>1. calls # <<>> /\ allocated /\ threads = Len(calls)
    BY <1>12 DEF Return, ReturnDestroyed, ReturnPolled, HasControl, InCallback, BlockOK
  <2>2. /\ calls' \in Seq([op : Ops, by : By]) /\ Len(calls) \in Nat \ {0}
        /\ calls' = SubSeq(calls, 1, Len(calls) - 1) /\ threads' = threads - 1
    <3>1. calls \in Seq([op : Ops, by : By])  BY DEF Ranges
    <3> QED  BY <1>12, <2>1, <3>1, PopFacts DEF Return
  <2>3. threads' \in Nat
    BY <2>1, <2>2
  <2> QED  BY <1>12, <2>2, <2>3 DEF Ranges, Return, queue
<1>13. ASSUME Tick PROVE Ranges'
  BY <1>13 DEF Ranges, Tick, block
<1> QED
  BY <1>1, <1>2, <1>3, <1>4, <1>5, <1>6, <1>7, <1>8, <1>9, <1>10, <1>11, <1>12,
     <1>13 DEF Next, Idle, Destruction


\* Every step keeps the flags Boolean.
LEMMA NextFlags == Flags /\ Next => Flags'
<1> SUFFICES ASSUME Flags, Next PROVE Flags'
  OBVIOUS
<1>1. ASSUME Create \/ StartTimeout \/ Tick \/ Destroy \/ DestroyDone PROVE Flags'
  BY <1>1, Zenon DEF Flags, Create, StartTimeout, Tick, Destroy, DestroyDone, Tidy, block
<1>2. ASSUME TimeOut \/ Send \/ SendFails \/ Data PROVE Flags'
  BY <1>2, Zenon DEF Flags, TimeOut, Send, SendFails, Data, block
<1>3. ASSUME DestroyCallActive \/ DestroyCallPending PROVE Flags'
  BY <1>3, Zenon DEF Flags, DestroyCallActive, DestroyCallPending, block
<1>4. ASSUME NEW o \in Ops, Back(o) PROVE Flags'
  BY <1>4, Zenon DEF Flags, Back, block
<1>5. ASSUME Return PROVE Flags'
  BY <1>5, Zenon DEF Flags, Return, ReturnDestroyed, ReturnPolled, Tidy
<1> QED
  BY <1>1, <1>2, <1>3, <1>4, <1>5 DEF Next, Idle, Destruction

\* Every step keeps the types.
LEMMA NextType == TypeOK /\ BlockOK /\ Next => TypeOK'
<1> SUFFICES ASSUME TypeOK, BlockOK, Next PROVE TypeOK'
  OBVIOUS
<1>1. Flags /\ Ranges
  BY TypeParts
<1>2. Flags' /\ Ranges'
  BY <1>1, NextFlags, NextRanges
<1> QED  BY <1>2, Zenon DEF TypeOK, Flags, Ranges

----------------------------------------------------------------------------
(* Every step keeps the block for whoever looks at it.                     *)

\* A callback is called with the block in use once more; when it is called by
\* share_destroy, that is closing the channel and not waiting for another one.
LEMMA CallBlock ==
    ASSUME TypeOK, BlockInv, NEW o \in Ops, NEW r \in Result, NEW by \in By,
           Call(o, r, by), UNCHANGED <<linked, handle, allocated, closing>>,
           InCallback => Top.by # "destroy",
           linked \/ closing, by = "destroy" => closing
    PROVE  BlockInv'
<1>1. /\ threads' = threads + 1 /\ calls' # <<>> /\ Len(calls') = Len(calls) + 1
      /\ \A i \in 1 .. Len(calls) : calls'[i] = calls[i]
      /\ Top'.by = by
  BY CallFacts
<1>2. \A i \in 1 .. Len(calls) : calls[i].by # "destroy"
  <2> SUFFICES ASSUME NEW i \in 1 .. Len(calls) PROVE calls[i].by # "destroy"
    OBVIOUS
  <2>1. Len(calls) \in Nat /\ calls # <<>>
    BY DEF TypeOK
  <2>2. CASE i = Len(calls)
    BY <2>1, <2>2 DEF InCallback, Top
  <2>3. CASE i \in 1 .. Len(calls) - 1
    BY <2>3 DEF BlockInv
  <2> QED  BY <2>1, <2>2, <2>3
<1>3. \A i \in 1 .. Len(calls') - 1 : calls'[i].by # "destroy"
  <2>1. Len(calls) \in Nat  BY DEF TypeOK
  <2> QED  BY <1>1, <1>2, <2>1
<1>4. allocated /\ threads = Len(calls)
  BY DEF BlockInv, BlockOK
<1> QED  BY <1>1, <1>3, <1>4 DEF BlockInv, BlockOK, InCallback

\* A step that leaves the stack of callbacks and the use of the block alone.
LEMMA SameStack ==
    ASSUME BlockInv, UNCHANGED <<linked, handle, allocated, threads, closing, calls>>
    PROVE  BlockInv'
BY DEF BlockInv, BlockOK, InCallback, Top

\* Every step keeps what is so of the block.
LEMMA NextBlock == TypeOK /\ BlockInv /\ Next => BlockInv'
<1> SUFFICES ASSUME TypeOK, BlockInv, Next PROVE BlockInv'
  OBVIOUS
<1>1. ASSUME Create PROVE BlockInv'
  BY <1>1 DEF Create, Quiescent, BlockInv, BlockOK, InCallback, Top
<1>2. ASSUME StartTimeout \/ Send \/ Tick \/ \E o \in Ops : Back(o) PROVE BlockInv'
  BY <1>2, SameStack DEF StartTimeout, Send, Tick, Back, Begin, block
<1>3. ASSUME TimeOut PROVE BlockInv'
  <2>1. active \in Ops /\ "timeout" \in Result /\ "idle" \in By /\ "idle" # "destroy"
    BY <1>3 DEF TypeOK, TimeOut, Result, By
  <2> QED  BY <1>3, <2>1, CallBlock DEF TimeOut, Quiescent, block
<1>4. ASSUME SendFails PROVE BlockInv'
  <2>1. Head(pending) \in Ops /\ "send" \in Result /\ "idle" \in By /\ "idle" # "destroy"
    BY <1>4, TailFacts DEF TypeOK, SendFails, Begin, Result, By
  <2> QED  BY <1>4, <2>1, CallBlock DEF SendFails, Begin, Quiescent, block
<1>5. ASSUME Data PROVE BlockInv'
  <2>1. CASE active = None
    BY <1>5, <2>1, SameStack DEF Data, block
  <2>2. CASE active # None
    <3>1. /\ active \in Ops /\ "data" \in By /\ "data" # "destroy"
          /\ (IF Accepts(Head(wire)) THEN "ok" ELSE "reply") \in Result
      BY <2>2 DEF TypeOK, Result, By
    <3> QED  BY <1>5, <2>2, <3>1, CallBlock DEF Data, Quiescent, block
  <2> QED  BY <2>1, <2>2
<1>6. ASSUME Destroy PROVE BlockInv'
  BY <1>6 DEF Destroy, queue, BlockInv, BlockOK, InCallback, Top
<1>7. ASSUME DestroyCallActive PROVE BlockInv'
  <2>1. active \in Ops /\ "closed" \in Result /\ "destroy" \in By
    BY <1>7 DEF TypeOK, DestroyCallActive, Result, By
  <2> QED  BY <1>7, <2>1, CallBlock DEF DestroyCallActive, Destroying, block
<1>8. ASSUME DestroyCallPending PROVE BlockInv'
  <2>1. Head(pending) \in Ops /\ "closed" \in Result /\ "destroy" \in By
    BY <1>8, TailFacts DEF TypeOK, DestroyCallPending, Result, By
  <2> QED  BY <1>8, <2>1, CallBlock DEF DestroyCallPending, Destroying, block
<1>9. ASSUME DestroyDone PROVE BlockInv'
  <2>1. /\ calls' = calls /\ threads' = threads /\ ~closing' /\ ~handle' /\ ~linked'
        /\ allocated' = (allocated /\ threads # 0)
        /\ InCallback => Top.by # "destroy"
    BY <1>9 DEF DestroyDone, Destroying, Tidy, BlockInv, queue
  <2>2. InCallback => allocated /\ threads # 0
    BY DEF BlockInv, BlockOK, TypeOK, InCallback
  <2> QED  BY <2>1, <2>2 DEF BlockInv, BlockOK, InCallback, Top
<1>10. ASSUME Return PROVE BlockInv'
  <2>1. /\ calls # <<>> /\ allocated /\ threads = Len(calls)
        /\ closing => Top.by = "destroy"
    BY <1>10 DEF Return, ReturnDestroyed, ReturnPolled, HasControl, InCallback,
                 BlockInv, BlockOK
  <2>2. /\ Len(calls') = Len(calls) - 1 /\ Len(calls) \in Nat \ {0}
        /\ \A i \in 1 .. Len(calls) - 1 : calls'[i] = calls[i]
        /\ calls' = <<>> <=> Len(calls) = 1
    BY <1>10, <2>1, PopFacts DEF TypeOK, Return
  <2>3. \A i \in 1 .. Len(calls) - 1 : calls'[i].by # "destroy"
    BY <2>2 DEF BlockInv
  <2>4. calls' # <<>> => Top'.by # "destroy"
    BY <2>2, <2>3 DEF Top
  <2>5. linked' \/ handle' \/ closing' \/ calls' # <<>> => allocated'
    <3>1. CASE ReturnDestroyed
      BY <2>1, <3>1 DEF ReturnDestroyed
    <3>2. CASE ReturnPolled
      <4>1. ~closing  BY <2>1, <3>2 DEF ReturnPolled
      <4>2. threads' = threads - 1 /\ UNCHANGED <<linked, handle, closing>>
        BY <1>10 DEF Return
      <4>3. calls' # <<>> => threads' # 0  BY <2>1, <2>2, <4>2
      <4>4. handle => linked  BY <4>1 DEF BlockInv
      <4> QED  BY <2>1, <3>2, <4>1, <4>2, <4>3, <4>4 DEF ReturnPolled, Tidy
    <3> QED  BY <1>10, <3>1, <3>2 DEF Return
  <2>6. threads' = Len(calls') /\ UNCHANGED <<linked, handle, closing>>
    BY <1>10, <2>1, <2>2 DEF Return
  <2> QED  BY <2>2, <2>3, <2>4, <2>5, <2>6 DEF BlockInv, BlockOK, InCallback
<1> QED
  BY <1>1, <1>2, <1>3, <1>4, <1>5, <1>6, <1>7, <1>8, <1>9, <1>10
  DEF Next, Idle, Destruction

----------------------------------------------------------------------------
(* Every step keeps a closed channel empty.                                *)

\* Every step keeps what is so of a closed channel.
LEMMA NextClosed == TypeOK /\ BlockInv /\ ClosedInv /\ Next => ClosedInv'
<1> SUFFICES ASSUME TypeOK, BlockInv, ClosedInv, Next PROVE ClosedInv'
  OBVIOUS
<1>1. ASSUME Create \/ Destroy PROVE ClosedInv'
  BY <1>1 DEF Create, Destroy, ClosedInv
<1>2. ASSUME StartTimeout \/ TimeOut \/ Send \/ SendFails \/ Data \/ Tick
             \/ (\E o \in Ops : Back(o))
      PROVE  ClosedInv'
  <2>1. linked /\ linked' = linked
    BY <1>2 DEF StartTimeout, TimeOut, Send, SendFails, Begin, Data, Tick, Back, block
  <2> QED  BY <2>1 DEF ClosedInv
<1>3. ASSUME DestroyCallActive \/ DestroyCallPending PROVE ClosedInv'
  BY <1>3 DEF DestroyCallActive, DestroyCallPending, Destroying, ClosedInv
<1>4. ASSUME DestroyDone PROVE ClosedInv'
  <2>1. /\ active' = None /\ pending' = <<>> /\ calls' = calls /\ threads' = threads
        /\ allocated' = (allocated /\ (linked \/ threads # 0)) /\ linked' = linked
    BY <1>4 DEF DestroyDone, Tidy, queue
  <2>2. allocated' /\ ~linked' => InCallback'
    BY <2>1 DEF BlockInv, BlockOK, InCallback, TypeOK
  <2> QED  BY <2>1, <2>2 DEF ClosedInv
<1>5. ASSUME Return PROVE ClosedInv'
  <2>1. /\ calls # <<>> /\ allocated /\ threads = Len(calls) /\ threads' = threads - 1
        /\ UNCHANGED <<linked, closing, pending, active>>
    BY <1>5 DEF Return, ReturnDestroyed, ReturnPolled, HasControl, InCallback,
                BlockInv, BlockOK, queue
  <2>2. Len(calls) \in Nat \ {0} /\ (calls' = <<>> <=> Len(calls) = 1)
    BY <1>5, <2>1, PopFacts DEF TypeOK, Return
  <2>3. ~linked /\ ~closing /\ allocated' /\ ~CallbackMayFail => InCallback'
    <3>1. CASE ReturnDestroyed
      <4>1. closing  BY <3>1 DEF ReturnDestroyed, HasControl, BlockInv
      <4> QED  BY <4>1
    <3>2. CASE ReturnPolled
      <4> SUFFICES ASSUME ~linked, allocated', ~CallbackMayFail PROVE calls' # <<>>
        BY DEF InCallback
      <4>1. threads' # 0  BY <3>2 DEF ReturnPolled, Tidy
      <4> QED  BY <2>1, <2>2, <4>1
    <3> QED  BY <1>5, <3>1, <3>2 DEF Return
  <2> QED  BY <2>1, <2>3 DEF ClosedInv
<1> QED
  BY <1>1, <1>2, <1>3, <1>4, <1>5 DEF Next, Idle, Destruction

----------------------------------------------------------------------------
(* Every step keeps each operation in one place.                           *)

\* A callback for an operation that is active, or was the first to wait.
LEMMA CallPlaces ==
    ASSUME TypeOK, PlacesInv, NEW o \in Ops, NEW r \in Result, NEW by \in By,
           Call(o, r, by), called[o] = 0, pending' \in Seq(Ops),
           \A i \in DOMAIN pending' : pending'[i] # o /\ called[pending'[i]] = 0,
           \A i, j \in DOMAIN pending' : pending'[i] = pending'[j] => i = j
    PROVE  PlacesInv'
<1>1. active' = None /\ \A p \in Ops : called'[p] = IF p = o THEN called[p] + 1 ELSE called[p]
  BY CallFacts
<1>2. \A i \in DOMAIN pending' : pending'[i] \in Ops
  OBVIOUS
<1>3. \A i \in DOMAIN pending' : pending'[i] # active' /\ called'[pending'[i]] = 0
  BY <1>1, <1>2, NoneAssumption
<1>4. \A p \in Ops : called'[p] <= 1
  BY <1>1 DEF PlacesInv
<1> QED  BY <1>1, <1>3, <1>4 DEF PlacesInv

\* The queue without its first operation, which is not in the rest of it.
LEMMA TailPlaces ==
    ASSUME TypeOK, PlacesInv, pending # <<>>, pending' = Tail(pending)
    PROVE  /\ pending' \in Seq(Ops) /\ Head(pending) \in Ops
           /\ called[Head(pending)] = 0 /\ Head(pending) # active
           /\ \A i \in DOMAIN pending' : pending'[i] # Head(pending) /\ called[pending'[i]] = 0
           /\ \A i \in DOMAIN pending' : pending'[i] # active
           /\ \A i, j \in DOMAIN pending' : pending'[i] = pending'[j] => i = j
<1>1. pending \in Seq(Ops)
  BY DEF TypeOK
<1>2. /\ Head(pending) \in Ops /\ Head(pending) = pending[1] /\ pending' \in Seq(Ops)
      /\ 1 \in DOMAIN pending /\ DOMAIN pending' = 1 .. Len(pending) - 1
      /\ \A i \in DOMAIN pending' : pending'[i] = pending[i + 1] /\ i + 1 \in DOMAIN pending
  BY <1>1, TailFacts
<1>3. Len(pending) \in Nat
  BY <1>1
<1>4. called[Head(pending)] = 0 /\ Head(pending) # active
  BY <1>2 DEF PlacesInv
<1>5. \A i \in DOMAIN pending' : i + 1 # 1
  BY <1>2, <1>3
<1>6. \A i \in DOMAIN pending' :
          pending'[i] # Head(pending) /\ called[pending'[i]] = 0 /\ pending'[i] # active
  BY <1>2, <1>5 DEF PlacesInv
<1>7. \A i, j \in DOMAIN pending' : i + 1 = j + 1 => i = j
  BY <1>2, <1>3
<1>8. \A i, j \in DOMAIN pending' : pending'[i] = pending'[j] => i = j
  BY <1>2, <1>7 DEF PlacesInv
<1> QED  BY <1>2, <1>4, <1>6, <1>8

\* Every step keeps each operation in one place.
LEMMA NextPlaces == Inv /\ Next => PlacesInv'
<1> SUFFICES ASSUME Inv, Next PROVE PlacesInv'
  OBVIOUS
<1> USE DEF Inv
<1>1. ASSUME Create PROVE PlacesInv'
  BY <1>1 DEF Create, PlacesInv
<1>2. ASSUME StartTimeout \/ Tick \/ Destroy \/ DestroyDone \/ Return PROVE PlacesInv'
  <2>1. UNCHANGED <<pending, active, called>>
    BY <1>2 DEF StartTimeout, Tick, Destroy, DestroyDone, Return, queue
  <2> QED  BY <2>1 DEF PlacesInv
<1>3. ASSUME TimeOut \/ DestroyCallActive \/ (Data /\ active # None) PROVE PlacesInv'
  <2>1. /\ active \in Ops /\ pending' = pending
        /\ \E r \in Result, by \in By : Call(active, r, by)
    BY <1>3 DEF TypeOK, TimeOut, DestroyCallActive, Data, Result, By
  <2>2. /\ called[active] = 0 /\ pending \in Seq(Ops)
        /\ \A i \in DOMAIN pending : pending[i] # active /\ called[pending[i]] = 0
        /\ \A i, j \in DOMAIN pending : pending[i] = pending[j] => i = j
    BY <2>1, NoneAssumption DEF TypeOK, PlacesInv
  <2> QED  BY <2>1, <2>2, CallPlaces
<1>4. ASSUME Data, active = None PROVE PlacesInv'
  BY <1>4 DEF Data, PlacesInv
<1>5. ASSUME Send PROVE PlacesInv'
  <2>1. pending # <<>> /\ pending' = Tail(pending) /\ active' = Head(pending) /\ called' = called
    BY <1>5 DEF Send, Begin
  <2> QED  BY <2>1, TailPlaces DEF PlacesInv
<1>6. ASSUME SendFails \/ DestroyCallPending PROVE PlacesInv'
  <2>1. /\ pending # <<>> /\ pending' = Tail(pending)
        /\ \E r \in Result, by \in By : Call(Head(pending), r, by)
    BY <1>6 DEF SendFails, Begin, DestroyCallPending, Result, By
  <2> QED  BY <2>1, TailPlaces, CallPlaces
<1>7. ASSUME NEW o \in Ops, Back(o) PROVE PlacesInv'
  <2>1. /\ pending' = Append(pending, o) /\ active' = active /\ called' = called
        /\ called[o] = 0 /\ o # active /\ \A i \in DOMAIN pending : pending[i] # o
        /\ pending \in Seq(Ops)
    BY <1>7 DEF Back, TypeOK
  <2>2. /\ DOMAIN pending' = 1 .. Len(pending) + 1 /\ DOMAIN pending = 1 .. Len(pending)
        /\ \A i \in 1 .. Len(pending) : pending'[i] = pending[i]
        /\ pending'[Len(pending) + 1] = o /\ Len(pending) \in Nat
    BY <2>1, AppendFacts
  <2>3. \A i \in DOMAIN pending' : i \in DOMAIN pending \/ i = Len(pending) + 1
    BY <2>2
  <2>4. \A i, j \in DOMAIN pending' : pending'[i] = pending'[j] => i = j
    BY <2>1, <2>2, <2>3 DEF PlacesInv
  <2>5. \A i \in DOMAIN pending' : pending'[i] # active /\ called[pending'[i]] = 0
    BY <2>1, <2>2, <2>3 DEF PlacesInv
  <2> QED  BY <2>1, <2>4, <2>5 DEF PlacesInv
<1> QED
  BY <1>1, <1>2, <1>3, <1>4, <1>5, <1>6, <1>7 DEF Next, Idle, Destruction

\* Every step keeps the invariant.
LEMMA NextInv == Inv /\ [Next]_vars => Inv'
<1> SUFFICES ASSUME Inv, [Next]_vars PROVE Inv'
  OBVIOUS
<1>1. CASE Next
  BY <1>1, NextType, NextBlock, NextClosed, NextPlaces DEF Inv, BlockInv
<1>2. CASE UNCHANGED vars
  <2>1. TypeOK'
    BY <1>2, Zenon DEF Inv, TypeOK, vars
  <2>2. BlockInv'
    BY <1>2, SameStack DEF Inv, vars
  <2>3. ClosedInv' /\ PlacesInv'
    BY <1>2 DEF Inv, ClosedInv, PlacesInv, InCallback, vars
  <2> QED  BY <2>1, <2>2, <2>3 DEF Inv
<1> QED  BY <1>1, <1>2

\* The invariant of the channel, for any operations, numbered or not, and
\* whether or not a callback may fail.
THEOREM Invariant == Spec => []Inv
BY InitInv, NextInv, PTL DEF Spec

----------------------------------------------------------------------------
(* What follows from the invariant.                                        *)

\* The variables keep to their types.
THEOREM TypeCorrect == Spec => []TypeOK
<1>1. Inv => TypeOK  BY DEF Inv
<1> QED  BY <1>1, Invariant, PTL

\* The block that share.c allocates is there while the list, the channel's
\* variable, share_destroy or a callback in progress may still look at it, and its
\* count of threads is the number of callbacks in progress.
THEOREM BlockKept == Spec => []BlockOK
<1>1. Inv => BlockOK  BY DEF Inv, BlockInv
<1> QED  BY <1>1, Invariant, PTL

\* An operation is in one place once.
LEMMA PlacesOnce == Inv => CalledOnce
<1> SUFFICES ASSUME Inv, NEW o \in Ops PROVE Places(o) <= 1
  BY DEF CalledOnce
<1> USE DEF Inv
<1> DEFINE W == {i \in DOMAIN pending : pending[i] = o}
<1>1. called[o] \in {0, 1}
  BY DEF TypeOK, PlacesInv
<1>2. CASE W = {}
  <2>1. Cardinality(W) = 0
    BY <1>2, FS_EmptySet
  <2>2. active = o => called[o] = 0
    BY NoneAssumption DEF PlacesInv
  <2> QED  BY <1>1, <2>1, <2>2 DEF Places
<1>3. CASE W # {}
  <2>1. PICK i \in DOMAIN pending : pending[i] = o
    BY <1>3
  <2>2. W = {i}
    BY <2>1 DEF PlacesInv
  <2>3. Cardinality(W) = 1
    BY <2>2, FS_Singleton
  <2>4. active # o /\ called[o] = 0
    BY <2>1 DEF PlacesInv
  <2> QED  BY <2>3, <2>4 DEF Places
<1> QED  BY <1>2, <1>3

\* Every operation that share_back accepts waits, is active or was called back,
\* in one of these places only and once only.
THEOREM EachCalledOnce == Spec => []CalledOnce
BY Invariant, PlacesOnce, PTL

\* When callbacks succeed, a channel that share_destroy has closed leaves neither
\* its block behind nor an operation that nobody will call back.
THEOREM ClosedEmpty ==
    ASSUME CallbackMayFail = FALSE
    PROVE  Spec => []ClosedOK
<1>1. Inv => ClosedOK
  BY DEF Inv, ClosedInv, ClosedOK, BlockInv, Quiescent
<1> QED  BY <1>1, Invariant, PTL

\* All of it together, as the run of the requests checks it.
THEOREM ShareSafe ==
    ASSUME CallbackMayFail = FALSE
    PROVE  Spec => []ShareOK
<1>1. TypeOK /\ BlockOK /\ ClosedOK /\ CalledOnce => ShareOK
  BY DEF ShareOK
<1> QED  BY <1>1, TypeCorrect, BlockKept, ClosedEmpty, EachCalledOnce, PTL

----------------------------------------------------------------------------
(* The numbers of the replies.  They only come round again after IdMax + 1 *)
(* operations, so that is how many there are here.                         *)

\* A step that starts nothing, and sends nothing, keeps the numbers; it may
\* forget requests, and the active operation may be called back.
LEMMA IdKept ==
    ASSUME IdInv, id' = id, Started' = Started, active' = active \/ active' = None,
           \A i \in DOMAIN wire' : \E j \in DOMAIN wire : wire'[i] = wire[j]
    PROVE  IdInv'
<1>1. PICK k \in 0 .. Cardinality(Started) : IdOf(k)
  BY DEF IdInv
<1>2. \A i \in DOMAIN wire' : \E b \in 1 .. k :
          wire'[i].id = Number(b) /\ (b = k /\ active' # None => wire'[i].op = active')
  BY <1>1 DEF IdOf
<1> QED  BY <1>1, <1>2 DEF IdInv, IdOf, Number

\* An operation more was called back, by share_destroy.
LEMMA IdClosed ==
    ASSUME IdInv, IsFiniteSet(Started), NEW o, Started' = Started \cup {o},
           id' = id, wire' = wire, active' = None
    PROVE  IdInv'
<1>1. Cardinality(Started) \in Nat /\ Cardinality(Started') \in Nat
      /\ Cardinality(Started) <= Cardinality(Started')
  BY FS_CardinalityType, FS_AddElement
<1>2. PICK k \in 0 .. Cardinality(Started) : IdOf(k)
  BY DEF IdInv
<1>3. k \in 0 .. Cardinality(Started')
  BY <1>1
<1> QED  BY <1>2, <1>3 DEF IdInv, IdOf, Number

\* An operation more was started, with the next number.
LEMMA IdStarted ==
    ASSUME IdInv, IsFiniteSet(Started), NEW o, o \notin Started,
           Started' = Started \cup {o}, Cardinality(Started') <= IdMax + 1,
           id' = NextId,
           \/ active' = None /\ wire' = wire
           \/ active' = o /\ wire' = Append(wire, [op |-> o, id |-> id']),
           wire \in Seq(Request), [op |-> o, id |-> id'] \in Request
    PROVE  IdInv'
<1>1. Cardinality(Started) \in Nat /\ Cardinality(Started') = Cardinality(Started) + 1
  BY FS_CardinalityType, FS_AddElement
<1>2. PICK k \in 0 .. Cardinality(Started) : IdOf(k)
  BY DEF IdInv
<1>3. /\ k \in Nat /\ k + 1 \in 0 .. Cardinality(Started') /\ k <= IdMax
  BY <1>1, IdAssumption
<1>4. id' = Number(k + 1)
  BY <1>2, <1>3, IdAssumption DEF IdOf, Number, NextId
<1>5. \A i \in DOMAIN wire : \E b \in 1 .. k + 1 : wire[i].id = Number(b) /\ b # k + 1
  <2> SUFFICES ASSUME NEW i \in DOMAIN wire
               PROVE  \E b \in 1 .. k + 1 : wire[i].id = Number(b) /\ b # k + 1
    OBVIOUS
  <2>1. PICK b \in 1 .. k : wire[i].id = Number(b)
    BY <1>2 DEF IdOf
  <2>2. b \in 1 .. k + 1 /\ b # k + 1
    BY <1>3
  <2> QED  BY <2>1, <2>2
<1>6. CASE active' = None /\ wire' = wire
  BY <1>3, <1>4, <1>5, <1>6 DEF IdInv, IdOf, Number
<1>7. CASE active' = o /\ wire' = Append(wire, [op |-> o, id |-> id'])
  <2>1. /\ DOMAIN wire' = 1 .. Len(wire) + 1 /\ DOMAIN wire = 1 .. Len(wire)
        /\ \A i \in 1 .. Len(wire) : wire'[i] = wire[i]
        /\ wire'[Len(wire) + 1] = [op |-> o, id |-> id'] /\ Len(wire) \in Nat
    BY <1>7, AppendFacts
  <2>2. \A i \in DOMAIN wire' : i \in DOMAIN wire \/ i = Len(wire) + 1
    BY <2>1
  <2>3. \A i \in DOMAIN wire' : \E b \in 1 .. k + 1 :
            wire'[i].id = Number(b) /\ (b = k + 1 => wire'[i].op = o)
    <3> SUFFICES ASSUME NEW i \in DOMAIN wire'
                 PROVE  \E b \in 1 .. k + 1 :
                            wire'[i].id = Number(b) /\ (b = k + 1 => wire'[i].op = o)
      OBVIOUS
    <3>1. CASE i \in DOMAIN wire
      BY <1>5, <2>1, <3>1
    <3>2. CASE i = Len(wire) + 1
      <4>1. wire'[i].id = Number(k + 1) /\ wire'[i].op = o
        BY <1>4, <2>1, <3>2
      <4>2. k + 1 \in 1 .. k + 1
        BY <1>3
      <4> QED  BY <4>1, <4>2
    <3> QED  BY <2>2, <3>1, <3>2
  <2> QED  BY <1>3, <1>4, <1>7, <2>3 DEF IdInv, IdOf, Number
<1> QED  BY <1>6, <1>7

\* Before the first event nothing is numbered.
LEMMA InitId == Init => IdInv
<1> SUFFICES ASSUME Init PROVE IdInv
  OBVIOUS
<1>1. Started = {}
  BY NoneAssumption DEF Init, Started
<1>2. Cardinality(Started) = 0
  BY <1>1, FS_EmptySet
<1>3. IdOf(0)
  BY IdAssumption DEF Init, IdOf, Number
<1> QED  BY <1>2, <1>3 DEF IdInv

\* Every step keeps the numbers in their order.
LEMMA NextIdInv ==
    ASSUME Inv, IdInv, Next, IsFiniteSet(Ops), Cardinality(Ops) <= IdMax + 1
    PROVE  IdInv'
<1> USE DEF Inv
<1>1. IsFiniteSet(Started) /\ Started' \in SUBSET Ops
  BY FS_Subset DEF Started
<1>2. Cardinality(Started') <= IdMax + 1
  <2>1. Cardinality(Started') <= Cardinality(Ops) /\ IsFiniteSet(Started')
    BY <1>1, FS_Subset
  <2>2. Cardinality(Started') \in Nat /\ Cardinality(Ops) \in Nat
    BY <2>1, FS_CardinalityType
  <2> QED  BY <2>1, <2>2, IdAssumption
<1>3. \A i \in DOMAIN wire : \E j \in DOMAIN wire : wire[i] = wire[j]
  OBVIOUS
<1>4. ASSUME Create PROVE IdInv'
  <2>1. /\ id' = id /\ wire' = wire /\ called' = called /\ active' = None /\ active = None
    BY <1>4 DEF Create, Quiescent, BlockInv, ClosedInv
  <2>2. Started' = Started
    BY <2>1 DEF Started
  <2> QED  BY <1>3, <2>1, <2>2, IdKept
<1>5. ASSUME StartTimeout \/ Tick \/ DestroyDone \/ Return \/ \E o \in Ops : Back(o)
      PROVE  IdInv'
  <2>1. UNCHANGED <<id, wire, called, active>>
    BY <1>5 DEF StartTimeout, Tick, DestroyDone, Return, Back, queue
  <2>2. Started' = Started
    BY <2>1 DEF Started
  <2> QED  BY <1>3, <2>1, <2>2, IdKept
<1>6. ASSUME Destroy PROVE IdInv'
  <2>1. UNCHANGED <<id, called, active>> /\ DOMAIN wire' = {}
    BY <1>6 DEF Destroy, queue
  <2>2. Started' = Started
    BY <2>1 DEF Started
  <2> QED  BY <2>1, <2>2, IdKept
<1>7. ASSUME TimeOut \/ DestroyCallActive \/ (Data /\ active # None) PROVE IdInv'
  <2>1. /\ active \in Ops /\ id' = id
        /\ \E r \in Result, by \in By : Call(active, r, by)
    BY <1>7 DEF TypeOK, TimeOut, DestroyCallActive, Data, Result, By
  <2>2. /\ active' = None
        /\ \A p \in Ops : called'[p] = IF p = active THEN called[p] + 1 ELSE called[p]
    BY <2>1, CallFacts
  <2>3. Started' = Started
    <3>1. \A p \in Ops : called[p] \in Nat
      BY DEF TypeOK
    <3> QED  BY <2>1, <2>2, <3>1, NoneAssumption DEF Started
  <2>4. \A i \in DOMAIN wire' : \E j \in DOMAIN wire : wire'[i] = wire[j]
    <3>1. CASE wire' = wire
      BY <3>1
    <3>2. CASE Data
      <4>1. wire \in Seq(Request) /\ wire # <<>> /\ wire' = Tail(wire)
        BY <3>2 DEF Data, TypeOK
      <4> QED  BY <4>1, TailFacts
    <3> QED  BY <1>7, <3>1, <3>2 DEF TimeOut, DestroyCallActive
  <2> QED  BY <2>1, <2>2, <2>3, <2>4, IdKept
<1>8. ASSUME Data, active = None PROVE IdInv'
  <2>1. /\ UNCHANGED <<id, called, active>> /\ wire \in Seq(Request) /\ wire # <<>>
        /\ wire' = Tail(wire)
    BY <1>8 DEF Data, TypeOK
  <2>2. \A i \in DOMAIN wire' : \E j \in DOMAIN wire : wire'[i] = wire[j]
    BY <2>1, TailFacts
  <2>3. Started' = Started
    BY <2>1 DEF Started
  <2> QED  BY <2>1, <2>2, <2>3, IdKept
<1>9. ASSUME pending # <<>>, active = None PROVE Head(pending) \in Ops \ Started
  <2>1. Head(pending) \in Ops /\ Head(pending) = pending[1] /\ 1 \in DOMAIN pending
    BY <1>9, TailFacts DEF TypeOK
  <2> QED  BY <1>9, <2>1, NoneAssumption DEF Started, PlacesInv
<1>10. ASSUME DestroyCallPending PROVE IdInv'
  <2>1. /\ Head(pending) \in Ops \ Started /\ id' = id /\ wire' = wire /\ active = None
        /\ Call(Head(pending), "closed", "destroy")
    BY <1>9, <1>10 DEF DestroyCallPending
  <2>2. "closed" \in Result /\ "destroy" \in By
    BY DEF Result, By
  <2>3. /\ active' = None
        /\ \A p \in Ops : called'[p] = IF p = Head(pending) THEN called[p] + 1 ELSE called[p]
    BY <2>1, <2>2, CallFacts
  <2>4. Started' = Started \cup {Head(pending)}
    <3>1. \A p \in Ops : called[p] \in Nat
      BY DEF TypeOK
    <3> QED  BY <2>1, <2>3, <3>1, NoneAssumption DEF Started
  <2> QED  BY <1>1, <2>1, <2>3, <2>4, IdClosed
<1>11. ASSUME Send PROVE IdInv'
  <2>1. /\ Head(pending) \in Ops \ Started /\ id' = NextId /\ active = None
        /\ active' = Head(pending) /\ called' = called /\ wire \in Seq(Request)
        /\ wire' = Append(wire, [op |-> Head(pending), id |-> id'])
    BY <1>9, <1>11 DEF Send, Begin, TypeOK
  <2>2. Started' = Started \cup {Head(pending)}
    BY <2>1, NoneAssumption DEF Started
  <2>3. [op |-> Head(pending), id |-> id'] \in Request
    BY <2>1, IdAssumption DEF Request, NextId, TypeOK
  <2> QED  BY <1>1, <1>2, <2>1, <2>2, <2>3, IdStarted
<1>12. ASSUME SendFails PROVE IdInv'
  <2>1. /\ Head(pending) \in Ops \ Started /\ id' = NextId /\ active = None
        /\ wire' = wire /\ wire \in Seq(Request)
        /\ Call(Head(pending), "send", "idle")
    BY <1>9, <1>12 DEF SendFails, Begin, TypeOK
  <2>2. "send" \in Result /\ "idle" \in By
    BY DEF Result, By
  <2>3. /\ active' = None
        /\ \A p \in Ops : called'[p] = IF p = Head(pending) THEN called[p] + 1 ELSE called[p]
    BY <2>1, <2>2, CallFacts
  <2>4. Started' = Started \cup {Head(pending)}
    <3>1. \A p \in Ops : called[p] \in Nat
      BY DEF TypeOK
    <3> QED  BY <2>1, <2>3, <3>1, NoneAssumption DEF Started
  <2>5. [op |-> Head(pending), id |-> id'] \in Request
    BY <2>1, IdAssumption DEF Request, NextId, TypeOK
  <2> QED  BY <1>1, <1>2, <2>1, <2>3, <2>4, <2>5, IdStarted
<1> QED
  BY <1>4, <1>5, <1>6, <1>7, <1>8, <1>10, <1>11, <1>12 DEF Next, Idle, Destruction

\* Numbers of no more than IdMax + 1 requests in a row differ.
LEMMA NumbersDiffer ==
    ASSUME NEW k \in 0 .. IdMax + 1, NEW b \in 1 .. k, Number(b) = Number(k)
    PROVE  b = k
BY IdAssumption DEF Number

\* Then no reply is accepted by another operation than its own.
LEMMA OwnStep ==
    ASSUME Inv, IdInv, Next, Numbered = TRUE, IsFiniteSet(Ops),
           Cardinality(Ops) <= IdMax + 1,
           NEW o \in Ops, result'[o] = "ok", result[o] # "ok"
    PROVE  Head(wire).op = o
<1> USE DEF Inv
<1>1. CASE Data /\ active # None
  <2>1. active \in Ops /\ wire \in Seq(Request) /\ wire # <<>>
    BY <1>1 DEF Data, TypeOK
  <2>2. PICK r \in {"ok", "reply"} :
            Call(active, r, "data") /\ (r = "ok" <=> Accepts(Head(wire)))
    BY <1>1 DEF Data
  <2>3. r \in Result /\ "data" \in By
    BY DEF Result, By
  <2>4. result'[o] = IF o = active THEN r ELSE result[o]
    BY <2>1, <2>2, <2>3, CallFacts
  <2>5. o = active /\ r = "ok"
    BY <2>4
  <2>6. Head(wire).id = id /\ Head(wire) = wire[1] /\ 1 \in DOMAIN wire
    BY <2>1, <2>2, <2>5, TailFacts DEF Accepts
  <2>7. PICK k \in 0 .. Cardinality(Started) : IdOf(k)
    BY DEF IdInv
  <2>8. k \in 0 .. IdMax + 1
    <3>1. Cardinality(Started) <= Cardinality(Ops) /\ IsFiniteSet(Started)
      BY FS_Subset DEF Started
    <3>2. Cardinality(Started) \in Nat /\ Cardinality(Ops) \in Nat
      BY <3>1, FS_CardinalityType
    <3> QED  BY <2>7, <3>1, <3>2, IdAssumption
  <2>9. PICK b \in 1 .. k : /\ wire[1].id = Number(b)
                            /\ b = k /\ active # None => wire[1].op = active
    BY <2>6, <2>7 DEF IdOf
  <2>10. b = k
    BY <2>6, <2>7, <2>8, <2>9, NumbersDiffer DEF IdOf
  <2> QED  BY <1>1, <2>5, <2>6, <2>9, <2>10
<1>2. CASE TimeOut \/ DestroyCallActive
  <2>1. /\ active \in Ops
        /\ \E r \in {"timeout", "closed"}, by \in By : Call(active, r, by)
    BY <1>2 DEF TypeOK, TimeOut, DestroyCallActive, By
  <2>2. PICK r \in {"timeout", "closed"}, by \in By : Call(active, r, by)
    BY <2>1
  <2>3. r \in Result
    BY DEF Result
  <2>4. result'[o] = IF o = active THEN r ELSE result[o]
    BY <2>1, <2>2, <2>3, CallFacts
  <2> QED  BY <2>4
<1>3. CASE SendFails \/ DestroyCallPending
  <2>1. /\ Head(pending) \in Ops
        /\ \E r \in {"send", "closed"}, by \in By : Call(Head(pending), r, by)
    BY <1>3, TailFacts DEF TypeOK, SendFails, Begin, DestroyCallPending, By
  <2>2. PICK r \in {"send", "closed"}, by \in By : Call(Head(pending), r, by)
    BY <2>1
  <2>3. r \in Result
    BY DEF Result
  <2>4. result'[o] = IF o = Head(pending) THEN r ELSE result[o]
    BY <2>1, <2>2, <2>3, CallFacts
  <2> QED  BY <2>4
<1>4. CASE result' = result
  BY <1>4
<1> QED
  BY <1>1, <1>2, <1>3, <1>4
  DEF Next, Idle, Destruction, Create, StartTimeout, Send, Data, Destroy, DestroyDone,
      Back, Return, Tick

\* With numbered replies, as in rfsv32.c, an operation only succeeds with the
\* reply to its own request, although the replies to those that timed out may
\* still arrive: for any operations no more than there are numbers.
THEOREM RepliesMatch ==
    ASSUME Numbered = TRUE, IsFiniteSet(Ops), Cardinality(Ops) <= IdMax + 1
    PROVE  Spec => OwnReply
<1> DEFINE Own == \A o \in Ops :
               result'[o] = "ok" /\ result[o] # "ok" => Head(wire).op = o
<1>1. Init => Inv /\ IdInv
  BY InitInv, InitId
<1>2. Inv /\ IdInv /\ [Next]_vars => Inv' /\ IdInv'
  <2>1. ASSUME Inv, IdInv, UNCHANGED vars PROVE IdInv'
    <3>1. UNCHANGED <<id, wire, called, active>>
      BY <2>1 DEF vars
    <3> QED  BY <2>1, <3>1, IdKept DEF Started
  <2> QED  BY <2>1, NextInv, NextIdInv
<1>3. Inv /\ IdInv /\ [Next]_vars => [Own]_vars
  BY OwnStep
<1>4. Spec => [][Own]_vars
  BY <1>1, <1>2, <1>3, PTL DEF Spec
<1> QED  BY <1>4 DEF OwnReply

-----------------------------------------------------------------------------
(* Unified.                                                                *)

Requests ==
    Commands \cup {Nothing, "volume", "unique id", "open dir", "read dir", "close", "machine type",
                   "machine info", "query drive", "running", "exec", "set time"}
Errors ==
    {Nothing, "lost", "failed", "empty", "not supported", "eof", "many", "bad name", "bad op",
     "no server"}
Contents == Seq(Nat) \cup {Sorted(list) : list \in Seq(Nat)}
Op == [cmd : Commands \cup {Nothing}, size : Nat, asked : Requests, index : Nat, delay : BOOLEAN,
       timeout : Nat, list : Contents, err : Errors, called : Nat, result : Errors]
Timer == [id : Ids, left : Nat]
Server == [up : BOOLEAN, dirs : SUBSET Ids, at : [Ids -> Nat], asked : [Ids -> SUBSET Nat],
           running : SUBSET Ids, faults : Nat]
Answered == [err : Errors, entries : Seq(Nat), running : BOOLEAN]

Live(op) == op.cmd # Nothing /\ op.called = 0

\* It waits for a reply or for a timer, and only for a timer that it has set.
Waits(op, call, timed) ==
    /\ op.called \in {0, 1}
    /\ op.called = 0 => op.result = Nothing
    /\ Live(op) => (call <=> ~timed)
    /\ ~Live(op) => ~call /\ ~timed
    /\ timed => op.cmd \in {"stop", "start"} /\ op.delay

\* The directory that is open for it is being read or closed; what was read of it
\* is its beginning, and all of it when it is closed without an error.
Directory == {"open dir", "read dir", "close"}
Lists(op, dir, at) ==
    /\ dir => Live(op) /\ op.asked \in {"read dir", "close"}
    /\ Live(op) => (op.cmd = "list" <=> op.asked \in Directory)
    /\ op.cmd = "list" /\ Live(op) =>
         /\ op.asked # "close" => op.err = Nothing
         /\ op.asked = "open dir" => op.list = <<>>
         /\ op.asked = "read dir" => at <= Len(Entries) /\ op.list = SubSeq(Entries, 1, at)
         /\ op.asked = "close" =>
              /\ op.err = Nothing => op.list = Entries
              /\ op.err = "many" => Len(Entries) > op.size
    /\ op.cmd = "list" /\ op.called = 1 =>
         /\ op.result = Nothing => op.list = Sorted(Entries)
         /\ op.result = "many" => Len(Entries) > op.size

\* All drives up to the one that it is at were asked.
Asks(op, asked) ==
    /\ op.cmd = "tasks" /\ Live(op) =>
         /\ op.index \in 1 .. Drives /\ (Era => op.index = 1)
         /\ op.asked = "query drive" /\ asked = 1 .. op.index - 1
    /\ op.cmd = "tasks" /\ op.called = 1 /\ op.result = Nothing =>
         asked = 1 .. (IF Era THEN 1 ELSE Drives)

Stops(op, run) ==
    op.cmd = "stop" /\ op.called = 1 /\ op.result = Nothing => ~run \/ op.timeout = 0

Fits(op, call, timed, dir, at, asked, run) ==
    /\ op \in Op
    /\ Waits(op, call, timed) /\ Lists(op, dir, at) /\ Asks(op, asked) /\ Stops(op, run)

-----------------------------------------------------------------------------
(* The list of timers *)

Timed(list) == {list[n].id : n \in 1 .. Len(list)}
Unique(list) == \A m, n \in 1 .. Len(list) : list[m].id = list[n].id => m = n
Timers(list) == list \in Seq(Timer) /\ Unique(list)

\* A new timer is one more.
LEMMA SetFacts ==
    ASSUME NEW list, Timers(list), NEW who \in Ids, who \notin Timed(list), NEW time \in Nat
    PROVE  Timers(Set(list, who, time)) /\ Timed(Set(list, who, time)) = Timed(list) \cup {who}
<1> DEFINE t == [id |-> who, left |-> time]
           s == Set(list, who, time)
<1>1. list \in Seq(Timer) /\ t \in Timer /\ Len(list) \in Nat
  BY DEF Timers, Timer
<1>2. s \in Seq(Timer) /\ Len(s) = Len(list) + 1
  BY <1>1 DEF Set
<1>3. s[1] = t
  BY <1>1 DEF Set
<1>4. \A n \in 2 .. Len(s) : s[n] = list[n - 1] /\ n - 1 \in 1 .. Len(list)
  BY <1>1, <1>2 DEF Set
<1>5. \A n \in 1 .. Len(list) : s[n + 1] = list[n] /\ n + 1 \in 1 .. Len(s)
  BY <1>1, <1>2, <1>4
<1>6. t.id = who
  OBVIOUS
<1> HIDE DEF t, s
<1>7. Unique(s)
  <2> SUFFICES ASSUME NEW m \in 1 .. Len(s), NEW n \in 1 .. Len(s), s[m].id = s[n].id PROVE m = n
    BY DEF Unique
  <2>1. CASE m = 1 /\ n = 1
    BY <2>1
  <2>2. CASE m = 1 /\ n # 1
    BY <1>2, <1>3, <1>4, <1>6, <2>2 DEF Timed
  <2>3. CASE m # 1 /\ n = 1
    BY <1>2, <1>3, <1>4, <1>6, <2>3 DEF Timed
  <2>4. CASE m # 1 /\ n # 1
    <3>1. m \in 2 .. Len(s) /\ n \in 2 .. Len(s)
      BY <1>2, <2>4
    <3>2. list[m - 1].id = list[n - 1].id
      BY <1>4, <3>1
    <3>3. m - 1 = n - 1
      BY <1>4, <3>1, <3>2 DEF Timers, Unique
    <3> QED  BY <3>1, <3>3
  <2> QED  BY <2>1, <2>2, <2>3, <2>4
<1>8. Timed(s) = Timed(list) \cup {who}
  <2>1. \A n \in 1 .. Len(s) : s[n].id \in Timed(list) \cup {who}
    <3> SUFFICES ASSUME NEW n \in 1 .. Len(s) PROVE s[n].id \in Timed(list) \cup {who}
      OBVIOUS
    <3>1. CASE n = 1
      BY <1>3, <1>6, <3>1
    <3>2. CASE n # 1
      <4>1. n \in 2 .. Len(s)
        BY <1>2, <3>2
      <4> QED  BY <1>4, <4>1 DEF Timed
    <3> QED  BY <3>1, <3>2
  <2>2. \A n \in 1 .. Len(list) : list[n].id \in Timed(s)
    BY <1>5 DEF Timed
  <2>3. who \in Timed(s)
    <3>1. 1 \in 1 .. Len(s)
      BY <1>1, <1>2
    <3> QED  BY <1>3, <1>6, <3>1 DEF Timed
  <2> QED  BY <2>1, <2>2, <2>3 DEF Timed
<1> QED  BY <1>2, <1>7, <1>8 DEF Timers, s

\* The timers that are due are taken away.
LEMMA DropFacts ==
    ASSUME NEW list, Timers(list), NEW last \in 0 .. Len(list)
    PROVE  /\ Timers(SubSeq(list, last + 1, Len(list)))
           /\ Timed(SubSeq(list, last + 1, Len(list))) = Timed(list) \ {list[n].id : n \in 1 .. last}
<1> DEFINE s == SubSeq(list, last + 1, Len(list))
           gone == {list[n].id : n \in 1 .. last}
<1>1. list \in Seq(Timer) /\ Len(list) \in Nat /\ last \in Nat /\ last <= Len(list)
  BY DEF Timers
<1>2. s \in Seq(Timer) /\ Len(s) = Len(list) - last
  BY <1>1
<1>3. \A n \in 1 .. Len(s) : s[n] = list[n + last] /\ n + last \in 1 .. Len(list)
  BY <1>1, <1>2
<1>4. \A n \in 1 .. Len(list) : n > last => n - last \in 1 .. Len(s) /\ s[n - last] = list[n]
  BY <1>1, <1>2, <1>3
<1> HIDE DEF s
<1>5. Unique(s)
  <2> SUFFICES ASSUME NEW m \in 1 .. Len(s), NEW n \in 1 .. Len(s), s[m].id = s[n].id PROVE m = n
    BY DEF Unique
  <2>1. m + last = n + last
    BY <1>3 DEF Timers, Unique
  <2> QED  BY <1>1, <1>2, <2>1
<1>6. \A n \in 1 .. Len(s) : s[n].id \in Timed(list) /\ s[n].id \notin gone
  <2> SUFFICES ASSUME NEW n \in 1 .. Len(s) PROVE s[n].id \in Timed(list) /\ s[n].id \notin gone
    OBVIOUS
  <2>1. s[n].id \in Timed(list)
    BY <1>3 DEF Timed
  <2>2. ASSUME NEW m \in 1 .. last, list[m].id = s[n].id PROVE FALSE
    <3>1. m \in 1 .. Len(list)
      BY <1>1
    <3>2. m = n + last
      BY <1>3, <2>2, <3>1 DEF Timers, Unique
    <3> QED  BY <1>1, <1>2, <3>2
  <2> QED  BY <2>1, <2>2
<1>7. ASSUME NEW x \in Timed(list), x \notin gone PROVE x \in Timed(s)
  <2>1. PICK n \in 1 .. Len(list) : x = list[n].id
    BY DEF Timed
  <2>2. n > last
    BY <1>1, <1>7, <2>1
  <2> QED  BY <1>4, <2>1, <2>2 DEF Timed
<1>8. Timed(s) = Timed(list) \ gone
  BY <1>6, <1>7 DEF Timed
<1> QED  BY <1>2, <1>5, <1>8 DEF Timers, s

\* Time changes nothing but what is left of each.
LEMMA PassFacts ==
    ASSUME NEW list, Timers(list), NEW s \in Seq(Timer), Len(s) = Len(list),
           \A n \in 1 .. Len(list) : s[n].id = list[n].id
    PROVE  Timers(s) /\ Timed(s) = Timed(list)
BY DEF Timers, Unique, Timed

\* As many timers are due as the list has, at most.
LEMMA ExpiredFacts ==
    ASSUME NEW list, Timers(list)
    PROVE  Expired(list) \in 0 .. Len(list)
<1> DEFINE due == {n \in 1 .. Len(list) : \A m \in 1 .. n : list[m].left = 0}
<1>1. Len(list) \in Nat
  BY DEF Timers
<1>2. IsFiniteSet(1 .. Len(list)) /\ Cardinality(1 .. Len(list)) = Len(list)
  <2> DEFINE len == Len(list)
  <2> HIDE DEF len
  <2>1. len \in Nat
    BY <1>1 DEF len
  <2>2. IsFiniteSet(1 .. len) /\ Cardinality(1 .. len) = len
    BY <2>1, FS_Interval
  <2> QED  BY <2>2 DEF len
<1>3. due \subseteq 1 .. Len(list)
  OBVIOUS
<1> HIDE DEF due
<1>4. IsFiniteSet(due) /\ Cardinality(due) <= Len(list)
  BY <1>2, <1>3, FS_Subset
<1>5. Cardinality(due) \in Nat
  BY <1>4, FS_CardinalityType
<1> QED  BY <1>1, <1>4, <1>5 DEF Expired, due

-----------------------------------------------------------------------------
(* What a handler does next *)

\* k is the operation that k.op has become, with what was done for it.
Moves(k, dir, at, asked, run) ==
    /\ k.ask \in BOOLEAN /\ k.timer \in Nat
    /\ Fits(k.op, k.ask, k.timer > 0, dir, at, asked, run)

\* k has the fields of op but for those that a request, a timer or the end sets.
Fields(k, op, asked, delay, count, outcome) ==
    /\ k \in Op
    /\ k.cmd = op.cmd /\ k.size = op.size /\ k.index = op.index /\ k.timeout = op.timeout
    /\ k.list = op.list /\ k.err = op.err
    /\ k.asked = asked /\ (k.delay <=> delay) /\ k.called = count /\ k.result = outcome

\* What the three of them set
LEMMA StepFacts ==
    ASSUME NEW op \in Op
    PROVE  /\ \A r \in Requests :
                /\ Fields(Ask(op, r).op, op, r, op.delay, op.called, op.result)
                /\ Ask(op, r).ask = TRUE /\ Ask(op, r).timer = 0
           /\ \A t \in Nat :
                /\ Fields(Delay(op, t).op, op, op.asked, TRUE, op.called, op.result)
                /\ Delay(op, t).ask = FALSE /\ Delay(op, t).timer = t
           /\ \A e \in Errors :
                /\ Fields(Done(op, e).op, op, op.asked, op.delay, op.called + 1, e)
                /\ Done(op, e).ask = FALSE /\ Done(op, e).timer = 0
<1>1. ASSUME NEW r \in Requests
      PROVE  /\ Fields(Ask(op, r).op, op, r, op.delay, op.called, op.result)
             /\ Ask(op, r).ask = TRUE /\ Ask(op, r).timer = 0
  <2> DEFINE k == [op EXCEPT !.asked = r]
  <2>1. Ask(op, r).op = k /\ Ask(op, r).ask = TRUE /\ Ask(op, r).timer = 0
    BY DEF Ask, Step
  <2>2. Fields(k, op, r, op.delay, op.called, op.result)
    BY DEF Op, Fields
  <2> QED  BY <2>1, <2>2
<1>2. ASSUME NEW t \in Nat
      PROVE  /\ Fields(Delay(op, t).op, op, op.asked, TRUE, op.called, op.result)
             /\ Delay(op, t).ask = FALSE /\ Delay(op, t).timer = t
  <2> DEFINE k == [op EXCEPT !.delay = TRUE]
  <2>1. Delay(op, t).op = k /\ Delay(op, t).ask = FALSE /\ Delay(op, t).timer = t
    BY DEF Delay, Step
  <2>2. Fields(k, op, op.asked, TRUE, op.called, op.result)
    BY DEF Op, Fields
  <2> QED  BY <2>1, <2>2
<1>3. ASSUME NEW e \in Errors
      PROVE  /\ Fields(Done(op, e).op, op, op.asked, op.delay, op.called + 1, e)
             /\ Done(op, e).ask = FALSE /\ Done(op, e).timer = 0
  <2> DEFINE k == [op EXCEPT !.called = op.called + 1, !.result = e]
  <2>1. Done(op, e).op = k /\ Done(op, e).ask = FALSE /\ Done(op, e).timer = 0
    BY DEF Done, Step
  <2>2. Fields(k, op, op.asked, op.delay, op.called + 1, e)
    <3>1. op.called + 1 \in Nat
      BY DEF Op
    <3>2. k \in Op
      BY <3>1 DEF Op
    <3> QED  BY <3>2 DEF Op, Fields
  <2> QED  BY <2>1, <2>2
<1> QED  BY <1>1, <1>2, <1>3

\* Operations that neither list nor ask for tasks: an operation that is under way
\* asks, waits for a timer or ends.
Plain(op) ==
    /\ op \in Op /\ op.cmd \in Commands \ {"list", "tasks"}
    /\ op.called = 0 /\ op.result = Nothing

\* No operation is no operation.
LEMMA CommandFacts == Nothing \notin Commands
BY DEF Nothing, Commands, EraOnly

\* It asks.
LEMMA AskPlain ==
    ASSUME NEW op, Plain(op), NEW r \in Requests, r \notin Directory, NEW at, NEW asked, NEW run
    PROVE  Moves(Ask(op, r), FALSE, at, asked, run)
<1> DEFINE k == Ask(op, r)
           o == k.op
<1>1. Fields(o, op, r, op.delay, op.called, op.result) /\ k.ask = TRUE /\ k.timer = 0
  BY StepFacts DEF Plain
<1> HIDE DEF k, o
<1>2. /\ o \in Op /\ o.cmd # Nothing /\ o.cmd # "list" /\ o.cmd # "tasks"
      /\ o.called = 0 /\ o.result = Nothing /\ o.asked = r
  BY <1>1, CommandFacts DEF Plain, Fields
<1>3. Waits(o, TRUE, FALSE)
  BY <1>2 DEF Waits, Live
<1>4. Lists(o, FALSE, at) /\ Asks(o, asked) /\ Stops(o, run)
  <2>1. o.called # 1
    BY <1>2
  <2>2. Lists(o, FALSE, at)
    BY <1>2, <2>1, Zenon DEF Lists
  <2>3. Asks(o, asked)
    BY <1>2, Zenon DEF Asks
  <2>4. Stops(o, run)
    BY <2>1, Zenon DEF Stops
  <2> QED  BY <2>2, <2>3, <2>4
<1>5. (k.timer > 0) = FALSE /\ k.timer \in Nat
  BY <1>1
<1>6. Fits(o, TRUE, FALSE, FALSE, at, asked, run)
  BY <1>2, <1>3, <1>4 DEF Fits
<1> QED  BY <1>1, <1>5, <1>6, Zenon DEF Moves, o, k

\* It waits for a timer.
LEMMA DelayPlain ==
    ASSUME NEW op, Plain(op), op.cmd \in {"stop", "start"}, op.asked \notin Directory,
           NEW time \in Nat \ {0}, NEW at, NEW asked, NEW run
    PROVE  Moves(Delay(op, time), FALSE, at, asked, run)
<1> DEFINE k == Delay(op, time)
           o == k.op
<1>1. Fields(o, op, op.asked, TRUE, op.called, op.result) /\ k.ask = FALSE /\ k.timer = time
  BY StepFacts DEF Plain
<1> HIDE DEF k, o
<1>2. /\ o \in Op /\ o.cmd # Nothing /\ o.cmd # "list" /\ o.cmd # "tasks"
      /\ o.cmd \in {"stop", "start"} /\ o.called = 0 /\ o.result = Nothing
      /\ o.asked \notin Directory /\ o.delay
  BY <1>1, CommandFacts DEF Plain, Fields
<1>3. Waits(o, FALSE, TRUE)
  BY <1>2 DEF Waits, Live
<1>4. Lists(o, FALSE, at) /\ Asks(o, asked) /\ Stops(o, run)
  <2>1. o.called # 1
    BY <1>2
  <2>2. Lists(o, FALSE, at)
    BY <1>2, <2>1, Zenon DEF Lists
  <2>3. Asks(o, asked)
    BY <1>2, Zenon DEF Asks
  <2>4. Stops(o, run)
    BY <2>1, Zenon DEF Stops
  <2> QED  BY <2>2, <2>3, <2>4
<1>5. (k.timer > 0) = TRUE /\ k.timer \in Nat
  BY <1>1
<1>6. Fits(o, FALSE, TRUE, FALSE, at, asked, run)
  BY <1>2, <1>3, <1>4 DEF Fits
<1> QED  BY <1>1, <1>5, <1>6, Zenon DEF Moves, o, k

\* It ends.
LEMMA DonePlain ==
    ASSUME NEW op, Plain(op), NEW err \in Errors, NEW at, NEW asked, NEW run,
           op.cmd = "stop" /\ err = Nothing => ~run \/ op.timeout = 0
    PROVE  Moves(Done(op, err), FALSE, at, asked, run)
<1> DEFINE k == Done(op, err)
           o == k.op
<1>1. Fields(o, op, op.asked, op.delay, op.called + 1, err) /\ k.ask = FALSE /\ k.timer = 0
  BY StepFacts DEF Plain
<1> HIDE DEF k, o
<1>2. /\ o \in Op /\ o.cmd = op.cmd /\ o.cmd \in Commands \ {"list", "tasks"}
      /\ o.result = err /\ o.timeout = op.timeout
  BY <1>1 DEF Plain, Fields
<1>3. o.called = 1
  BY <1>1 DEF Plain, Fields
<1>4. Waits(o, FALSE, FALSE)
  BY <1>3 DEF Waits, Live
<1>5. Lists(o, FALSE, at) /\ Asks(o, asked) /\ Stops(o, run)
  BY <1>2, <1>3 DEF Lists, Asks, Stops, Live
<1>6. (k.timer > 0) = FALSE /\ k.timer \in Nat
  BY <1>1
<1>7. Fits(o, FALSE, FALSE, FALSE, at, asked, run)
  BY <1>2, <1>4, <1>5 DEF Fits
<1> QED  BY <1>1, <1>6, <1>7, Zenon DEF Moves, o, k

\* A reply that says what is so of the operation: the directory ends when all of
\* it was read, there is no room when it is larger than the buffer, and otherwise
\* the next entries come.
Good(op, at, run, reply) ==
    /\ reply \in Answered
    /\ reply.running <=> run
    /\ reply.err # Nothing => reply.entries = <<>>
    /\ reply.err = "eof" => op.asked = "read dir" /\ at = Len(Entries)
    /\ reply.err = "many" => op.asked = "read dir" /\ Len(Entries) > op.size
    /\ op.asked = "read dir" /\ reply.err = Nothing =>
         /\ at + Len(reply.entries) <= Len(Entries)
         /\ reply.entries = SubSeq(Entries, at + 1, at + Len(reply.entries))

\* An operation that waits for a reply has not been called back.
LEMMA Waiting ==
    ASSUME NEW op, NEW dir, NEW at, NEW asked, NEW run, Fits(op, TRUE, FALSE, dir, at, asked, run)
    PROVE  /\ op \in Op /\ op.cmd \in Commands /\ Live(op)
           /\ op.called = 0 /\ op.result = Nothing
<1>1. op \in Op /\ Live(op)
  BY DEF Fits, Waits
<1> QED  BY <1>1 DEF Fits, Waits, Live, Op

\* The replies to operations that neither list nor ask for tasks
LEMMA PlainCallback ==
    ASSUME UnifiedParameters,
           NEW op, NEW dir, NEW at, NEW asked, NEW run, Fits(op, TRUE, FALSE, dir, at, asked, run),
           op.cmd # "list", op.cmd # "tasks",
           NEW reply \in Answered, reply.running <=> run
    PROVE  /\ ~dir /\ op.asked \notin Directory
           /\ \A at2, asked2 : Moves(Callback(op, reply), FALSE, at2, asked2, run)
<1>1. op \in Op /\ op.cmd \in Commands /\ Live(op) /\ op.called = 0 /\ op.result = Nothing
  BY Waiting
<1>2. ~dir /\ op.asked \notin Directory
  BY <1>1 DEF Fits, Lists, Directory
<1>3. Plain(op)
  BY <1>1 DEF Plain
<1>4. reply.err \in Errors
  BY DEF Answered
<1> SUFFICES ASSUME NEW at2, NEW asked2 PROVE Moves(Callback(op, reply), FALSE, at2, asked2, run)
  BY <1>2
<1>5. CASE op.cmd = "drive"
  <2> DEFINE o == [op EXCEPT !.index = 1]
  <2>1. Plain(o)
    BY <1>1, <1>5 DEF Op, Plain
  <2>2. Moves(Ask(o, "unique id"), FALSE, at2, asked2, run)
    BY <2>1, AskPlain DEF Directory, Requests
  <2>3. \A e \in Errors : Moves(Done(op, e), FALSE, at2, asked2, run)
    BY <1>3, <1>5, DonePlain
  <2>4. Nothing \in Errors
    BY DEF Errors
  <2>5. Callback(op, reply) = DriveReply(op, reply.err)
    BY <1>5 DEF Callback
  <2>6. DriveReply(op, reply.err) \in {Ask(o, "unique id"), Done(op, Nothing), Done(op, reply.err)}
    BY DEF DriveReply
  <2> QED  BY <1>4, <2>2, <2>3, <2>4, <2>5, <2>6
<1>6. CASE op.cmd = "machine"
  <2>1. Moves(Ask(op, "machine info"), FALSE, at2, asked2, run)
    BY <1>3, AskPlain DEF Directory, Requests
  <2>2. Moves(Done(op, reply.err), FALSE, at2, asked2, run)
    BY <1>3, <1>4, <1>6, DonePlain
  <2>3. Callback(op, reply) = MachineReply(op, reply.err)
    BY <1>6 DEF Callback
  <2>4. MachineReply(op, reply.err) \in {Ask(op, "machine info"), Done(op, reply.err)}
    BY DEF MachineReply
  <2> QED  BY <2>1, <2>2, <2>3, <2>4
<1>7. CASE op.cmd = "stop"
  <2> DEFINE o == [op EXCEPT !.delay = FALSE]
  <2>1. Plain(o)
    BY <1>1, <1>7 DEF Op, Plain
  <2>2. Moves(Ask(o, "running"), FALSE, at2, asked2, run)
    BY <2>1, AskPlain DEF Directory, Requests
  <2>3. Moves(Delay(op, StopDelay), FALSE, at2, asked2, run)
    BY <1>2, <1>3, <1>7, DelayPlain DEF UnifiedParameters
  <2>4. Callback(op, reply) = StopReply(op, reply.err, reply.running)
    BY <1>7 DEF Callback
  <2>5. CASE reply.err = Nothing /\ op.timeout > 0 /\ op.delay
    BY <2>2, <2>4, <2>5 DEF StopReply
  <2>6. CASE reply.err = Nothing /\ op.timeout > 0 /\ ~op.delay /\ reply.running
    BY <2>3, <2>4, <2>6 DEF StopReply
  <2>7. CASE ~(reply.err = Nothing /\ op.timeout > 0) \/ (~op.delay /\ ~reply.running)
    <3>1. Callback(op, reply) = Done(op, reply.err)
      BY <2>4, <2>7 DEF StopReply
    <3>2. op.timeout \in Nat
      BY <1>1 DEF Op
    <3>3. reply.err = Nothing => ~run \/ op.timeout = 0
      <4>1. CASE ~op.delay /\ ~reply.running
        BY <4>1
      <4>2. CASE ~(reply.err = Nothing /\ op.timeout > 0)
        BY <3>2, <4>2
      <4> QED  BY <2>7, <4>1, <4>2
    <3> QED  BY <1>3, <1>4, <3>1, <3>3, DonePlain
  <2> QED  BY <2>5, <2>6, <2>7
<1>8. CASE op.cmd = "start"
  <2>1. Moves(Delay(op, StartDelay), FALSE, at2, asked2, run)
    BY <1>2, <1>3, <1>8, DelayPlain DEF UnifiedParameters
  <2>2. Moves(Done(op, reply.err), FALSE, at2, asked2, run)
    BY <1>3, <1>4, <1>8, DonePlain
  <2>3. Callback(op, reply) = StartReply(op, reply.err)
    BY <1>8 DEF Callback
  <2>4. StartReply(op, reply.err) \in {Delay(op, StartDelay), Done(op, reply.err)}
    BY DEF StartReply
  <2> QED  BY <2>1, <2>2, <2>3, <2>4
<1>9. CASE op.cmd = "wtime"
  <2>1. Moves(Ask(op, "set time"), FALSE, at2, asked2, run)
    BY <1>3, AskPlain DEF Directory, Requests
  <2>2. Moves(Done(op, reply.err), FALSE, at2, asked2, run)
    BY <1>3, <1>4, <1>9, DonePlain
  <2>3. Callback(op, reply) = WTimeReply(op, reply.err)
    BY <1>9 DEF Callback
  <2>4. WTimeReply(op, reply.err) \in {Ask(op, "set time"), Done(op, reply.err)}
    BY DEF WTimeReply
  <2> QED  BY <2>1, <2>2, <2>3, <2>4
<1>10. CASE op.cmd \notin {"drive", "machine", "stop", "start", "wtime"}
  <2>1. Callback(op, reply) = Done(op, reply.err)
    BY <1>10 DEF Callback
  <2> QED  BY <1>3, <1>4, <1>10, <2>1, DonePlain
<1> QED  BY <1>5, <1>6, <1>7, <1>8, <1>9, <1>10

-----------------------------------------------------------------------------
(* Asking for tasks *)

\* The next drive is asked, when all before it were.
LEMMA AskTasks ==
    ASSUME NEW op \in Op, op.cmd = "tasks", op.called = 0, op.result = Nothing,
           op.index \in 1 .. Drives, Era => op.index = 1,
           NEW at, NEW asked, asked = 1 .. op.index - 1, NEW run
    PROVE  Moves(Ask(op, "query drive"), FALSE, at, asked, run)
<1> DEFINE r == "query drive"
           k == Ask(op, r)
           o == k.op
<1>1. r \in Requests /\ r \notin Directory /\ r # "read dir" /\ r # "close"
  BY DEF Requests, Directory
<1>2. Fields(o, op, r, op.delay, op.called, op.result) /\ k.ask = TRUE /\ k.timer = 0
  BY <1>1, StepFacts
<1> HIDE DEF k, o, r
<1>3. /\ o \in Op /\ o.cmd = "tasks" /\ o.called = 0 /\ o.result = Nothing /\ o.asked = r
      /\ o.index = op.index
  BY <1>2 DEF Fields
<1>4. o.cmd # Nothing /\ o.cmd # "list" /\ o.cmd # "stop" /\ o.called # 1
  <2>1. o.called # 1
    BY <1>3
  <2>2. o.cmd = "tasks"
    BY <1>3
  <2> QED  BY <2>1, <2>2 DEF Nothing
<1>5. Waits(o, TRUE, FALSE)
  BY <1>3, <1>4 DEF Waits, Live
<1>6. Lists(o, FALSE, at) /\ Stops(o, run)
  BY <1>1, <1>3, <1>4, Zenon DEF Lists, Stops
<1>7. Asks(o, asked)
  BY <1>3, <1>4 DEF Asks, r
<1>8. (k.timer > 0) = FALSE /\ k.timer \in Nat
  BY <1>2
<1>9. Fits(o, TRUE, FALSE, FALSE, at, asked, run)
  BY <1>3, <1>5, <1>6, <1>7 DEF Fits
<1> QED  BY <1>2, <1>8, <1>9, Zenon DEF Moves, o, k, r

\* It ends when all drives were asked, or with an error.
LEMMA DoneTasks ==
    ASSUME NEW op \in Op, op.cmd = "tasks", op.called = 0, NEW err \in Errors,
           NEW at, NEW asked, err = Nothing => asked = 1 .. (IF Era THEN 1 ELSE Drives), NEW run
    PROVE  Moves(Done(op, err), FALSE, at, asked, run)
<1> DEFINE k == Done(op, err)
           o == k.op
<1>1. Fields(o, op, op.asked, op.delay, op.called + 1, err) /\ k.ask = FALSE /\ k.timer = 0
  BY StepFacts
<1> HIDE DEF k, o
<1>2. o \in Op /\ o.cmd = "tasks" /\ o.result = err
  BY <1>1 DEF Fields
<1>3. o.called = 1 /\ o.called # 0
  BY <1>1 DEF Fields
<1>4. o.cmd # "list" /\ o.cmd # "stop"
  BY <1>2
<1>5. ~Live(o)
  BY <1>3 DEF Live
<1>6. Waits(o, FALSE, FALSE)
  BY <1>3, <1>5 DEF Waits
<1>7. Lists(o, FALSE, at) /\ Stops(o, run)
  BY <1>4, <1>5, Zenon DEF Lists, Stops
<1>8. Asks(o, asked)
  BY <1>2, <1>5, Zenon DEF Asks
<1>9. (k.timer > 0) = FALSE /\ k.timer \in Nat
  BY <1>1
<1>10. Fits(o, FALSE, FALSE, FALSE, at, asked, run)
  BY <1>2, <1>6, <1>7, <1>8 DEF Fits
<1> QED  BY <1>1, <1>9, <1>10, Zenon DEF Moves, o, k

\* The reply of a drive
LEMMA TasksCallback ==
    ASSUME UnifiedParameters,
           NEW op, NEW dir, NEW at, NEW asked, NEW run, Fits(op, TRUE, FALSE, dir, at, asked, run),
           op.cmd = "tasks", NEW reply \in Answered
    PROVE  /\ ~dir /\ op.asked = "query drive"
           /\ \A at2 : Moves(Callback(op, reply), FALSE, at2,
                             IF reply.err = Nothing THEN asked \cup {op.index} ELSE asked, run)
<1>1. op \in Op /\ Live(op) /\ op.called = 0 /\ op.result = Nothing
  BY Waiting
<1>2. /\ op.asked = "query drive" /\ op.index \in 1 .. Drives /\ (Era => op.index = 1)
      /\ asked = 1 .. op.index - 1
  BY <1>1 DEF Fits, Asks
<1>3. ~dir
  BY <1>2 DEF Fits, Lists
<1>4. reply.err \in Errors /\ Drives \in Nat \ {0}
  BY DEF Answered, UnifiedParameters
<1> DEFINE i == op.index
<1>8. i \in Nat \ {0} /\ i <= Drives
  <2>1. op.index \in 1 .. Drives
    BY <1>2
  <2>2. Drives \in Nat
    BY <1>4
  <2> QED  BY <2>1, <2>2
<1>9. asked = 1 .. i - 1
  BY <1>2
<1> SUFFICES ASSUME NEW at2
             PROVE Moves(Callback(op, reply), FALSE, at2,
                         IF reply.err = Nothing THEN asked \cup {op.index} ELSE asked, run)
  BY <1>2, <1>3
<1>5. Callback(op, reply) = TasksReply(op, reply.err)
  BY DEF Callback
<1>6. CASE reply.err # Nothing
  <2>1. TasksReply(op, reply.err) = Done(op, reply.err)
    BY <1>6 DEF TasksReply
  <2>2. Moves(Done(op, reply.err), FALSE, at2, asked, run)
    BY <1>1, <1>4, <1>6, DoneTasks
  <2> QED  BY <1>5, <1>6, <2>1, <2>2
<1>7. CASE reply.err = Nothing
  <2>1. asked \cup {op.index} = 1 .. op.index
    <3> HIDE DEF i
    <3>1. asked \cup {i} = 1 .. i
      BY <1>8, <1>9
    <3> QED  BY <3>1 DEF i
  <2>2. CASE ~Era /\ op.index < Drives
    <3> DEFINE o == [op EXCEPT !.index = op.index + 1]
               k == Ask(o, "query drive")
    <3>1. TasksReply(op, reply.err) = k
      BY <1>7, <2>2 DEF TasksReply
    <3>2. op.index + 1 \in Nat
      BY <1>8
    <3>3. o \in Op /\ o.cmd = "tasks" /\ o.called = 0 /\ o.result = Nothing /\ o.index = op.index + 1
      BY <1>1, <3>2 DEF Op
    <3> HIDE DEF o
    <3>4. o.index \in 1 .. Drives /\ (Era => o.index = 1) /\ 1 .. op.index = 1 .. o.index - 1
      <4>1. o.index = i + 1 /\ ~Era /\ i < Drives
        BY <2>2, <3>3
      <4>2. o.index \in 1 .. Drives /\ o.index - 1 = i
        BY <1>4, <1>8, <4>1
      <4> QED  BY <4>1, <4>2
    <3>5. Moves(k, FALSE, at2, 1 .. op.index, run)
      BY <3>3, <3>4, AskTasks
    <3> QED  BY <1>5, <1>7, <2>1, <3>1, <3>5
  <2>3. CASE Era \/ ~(op.index < Drives)
    <3>1. TasksReply(op, reply.err) = Done(op, reply.err)
      BY <2>3 DEF TasksReply
    <3>2. 1 .. op.index = 1 .. (IF Era THEN 1 ELSE Drives)
      <4>1. CASE Era
        BY <1>2, <4>1
      <4>2. CASE ~Era
        <5>1. i = Drives
          BY <1>4, <1>8, <2>3, <4>2
        <5> QED  BY <4>2, <5>1
      <4> QED  BY <4>1, <4>2
    <3>3. Moves(Done(op, reply.err), FALSE, at2, 1 .. op.index, run)
      BY <1>1, <1>4, <3>2, DoneTasks
    <3> QED  BY <1>5, <1>7, <2>1, <3>1, <3>3
  <2> QED  BY <2>2, <2>3
<1> QED  BY <1>6, <1>7

-----------------------------------------------------------------------------
(* Listing a directory *)

\* The beginning of the directory and what follows make a longer beginning.
LEMMA Beginning ==
    ASSUME Entries \in Seq(Nat), NEW a \in Nat, NEW b \in Nat, a <= b, b <= Len(Entries)
    PROVE  SubSeq(Entries, 1, a) \o SubSeq(Entries, a + 1, b) = SubSeq(Entries, 1, b)
BY ConcatAdjacentSubSeq

\* What lies between two places of the directory
LEMMA Between ==
    ASSUME Entries \in Seq(Nat), NEW a \in Nat, NEW b \in Nat, a <= b, b <= Len(Entries)
    PROVE  SubSeq(Entries, a + 1, b) \in Seq(Nat) /\ Len(SubSeq(Entries, a + 1, b)) = b - a
<1>1. \A i \in a + 1 .. b : Entries[i] \in Nat
  OBVIOUS
<1> QED  BY <1>1, SubSeqProperties

\* All of it is the whole directory, and nothing its beginning.
LEMMA WholeBeginning ==
    ASSUME Entries \in Seq(Nat)
    PROVE  SubSeq(Entries, 1, Len(Entries)) = Entries /\ SubSeq(Entries, 1, 0) = <<>>
BY SubSeqFull

\* What is translated of a reply is a listing.
LEMMA TranslatedFacts ==
    ASSUME NEW list \in Seq(Nat)
    PROVE  Translated(list) \in Seq(Nat)
<1> DEFINE bad == {n \in 1 .. Len(list) : list[n] \in BadNames}
           First(n) == n \in bad /\ \A m \in bad : n <= m
           first == CHOOSE n \in bad : \A m \in bad : n <= m
<1>1. CASE bad = {}
  BY <1>1 DEF Translated
<1>2. CASE bad # {}
  <2>1. bad \in SUBSET Nat
    OBVIOUS
  <2>2. \E n \in bad : \A m \in bad : n <= m
    <3> HIDE DEF bad
    <3> QED  BY <1>2, <2>1, Least
  <2>3. first \in bad
    <3> HIDE DEF bad
    <3> QED  BY <2>2
  <2>4. first \in 1 .. Len(list)
    <3> HIDE DEF first
    <3> QED  BY <2>3
  <2>5. Translated(list) = SubSeq(list, 1, first - 1)
    BY <1>2 DEF Translated
  <2> HIDE DEF first
  <2> QED  BY <2>4, <2>5
<1> QED  BY <1>1, <1>2

\* The next request for a directory
Progress(o, r, dir, at) ==
    /\ r \in Directory
    /\ dir => r \in {"read dir", "close"}
    /\ r # "close" => o.err = Nothing
    /\ r = "open dir" => o.list = <<>>
    /\ r = "read dir" => at <= Len(Entries) /\ o.list = SubSeq(Entries, 1, at)
    /\ r = "close" =>
         /\ o.err = Nothing => o.list = Entries
         /\ o.err = "many" => Len(Entries) > o.size

\* The listing goes on with that request.
LEMMA AskList ==
    ASSUME NEW op \in Op, op.cmd = "list", op.called = 0, op.result = Nothing,
           NEW r, NEW dir, NEW at, Progress(op, r, dir, at),
           NEW asked, NEW run
    PROVE  Moves(Ask(op, r), dir, at, asked, run)
<1> DEFINE k == Ask(op, r)
           o == k.op
<1>1. r \in Requests
  BY DEF Requests, Directory, Progress
<1>2. Fields(o, op, r, op.delay, op.called, op.result) /\ k.ask = TRUE /\ k.timer = 0
  BY <1>1, StepFacts
<1> HIDE DEF k, o
<1>3. /\ o \in Op /\ o.cmd = "list" /\ o.called = 0 /\ o.result = Nothing /\ o.asked = r
      /\ o.list = op.list /\ o.err = op.err /\ o.size = op.size
  BY <1>2 DEF Fields
<1>4. o.called # 1
  BY <1>3
<1>5. o.cmd # Nothing /\ o.cmd # "tasks" /\ o.cmd # "stop"
  BY <1>3, Zenon DEF Nothing
<1>6. Live(o)
  BY <1>3, <1>5 DEF Live
<1>7. Waits(o, TRUE, FALSE)
  BY <1>3, <1>6 DEF Waits
<1>8. Asks(o, asked) /\ Stops(o, run)
  BY <1>5, Zenon DEF Asks, Stops
<1>9. Lists(o, dir, at)
  BY <1>3, <1>4, <1>6, Zenon DEF Lists, Progress
<1>10. (k.timer > 0) = FALSE /\ k.timer \in Nat
  BY <1>2
<1>11. Fits(o, TRUE, FALSE, dir, at, asked, run)
  BY <1>3, <1>7, <1>8, <1>9 DEF Fits
<1> QED  BY <1>2, <1>10, <1>11, Zenon DEF Moves, o, k

\* The end of a listing
LEMMA DoneList ==
    ASSUME NEW op \in Op, op.cmd = "list", op.called = 0, NEW err \in Errors,
           err = Nothing => op.list = Sorted(Entries), err = "many" => Len(Entries) > op.size,
           NEW at, NEW asked, NEW run
    PROVE  Moves(Done(op, err), FALSE, at, asked, run)
<1> DEFINE k == Done(op, err)
           o == k.op
<1>1. Fields(o, op, op.asked, op.delay, op.called + 1, err) /\ k.ask = FALSE /\ k.timer = 0
  BY StepFacts
<1> HIDE DEF k, o
<1>2. o \in Op /\ o.cmd = "list" /\ o.result = err /\ o.list = op.list /\ o.size = op.size
  BY <1>1 DEF Fields
<1>3. o.called = 1 /\ o.called # 0
  BY <1>1 DEF Fields
<1>4. o.cmd # "tasks" /\ o.cmd # "stop"
  BY <1>2
<1>5. ~Live(o)
  BY <1>3 DEF Live
<1>6. Waits(o, FALSE, FALSE)
  BY <1>3, <1>5 DEF Waits
<1>7. Asks(o, asked) /\ Stops(o, run)
  BY <1>4, Zenon DEF Asks, Stops
<1>8. Lists(o, FALSE, at)
  BY <1>2, <1>5, Zenon DEF Lists
<1>9. (k.timer > 0) = FALSE /\ k.timer \in Nat
  BY <1>1
<1>10. Fits(o, FALSE, FALSE, FALSE, at, asked, run)
  BY <1>2, <1>6, <1>7, <1>8 DEF Fits
<1> QED  BY <1>1, <1>9, <1>10, Zenon DEF Moves, o, k

\* The directory is closed when all of it was read or something is wrong, which
\* is remembered.
LEMMA CloseList ==
    ASSUME NEW op \in Op, op.cmd = "list", op.called = 0, op.result = Nothing,
           NEW err \in Errors, err # Nothing, err = "eof" => op.list = Entries,
           err = "many" => Len(Entries) > op.size,
           NEW dir, NEW at, NEW asked, NEW run
    PROVE  Moves(CloseDir(op, err), dir, at, asked, run)
<1> DEFINE e == IF err = "eof" THEN Nothing ELSE err
           o == [op EXCEPT !.err = e]
           r == "close"
<1>1. e \in Errors
  BY DEF Errors
<1>2. (e = Nothing => err = "eof") /\ (e = "many" => err = "many")
  BY DEF Nothing
<1> HIDE DEF e
<1>3. o \in Op
  BY <1>1 DEF Op
<1>4. /\ o.cmd = "list" /\ o.called = 0 /\ o.result = Nothing /\ o.err = e
      /\ o.list = op.list /\ o.size = op.size
  BY DEF Op
<1>5. CloseDir(op, err) = Ask(o, r)
  BY DEF CloseDir, e
<1> HIDE DEF o
<1>6. Progress(o, r, dir, at)
  BY <1>2, <1>4 DEF Progress, Directory
<1>7. Moves(Ask(o, r), dir, at, asked, run)
  <2> HIDE DEF r
  <2> QED  BY <1>3, <1>4, <1>6, AskList
<1> QED  BY <1>5, <1>7

\* The state of the directory after a reply
DirAfter(op, reply, dir) ==
    CASE op.asked = "open dir" -> dir \/ reply.err = Nothing
      [] op.asked = "close" -> FALSE
      [] OTHER -> dir
AtAfter(op, reply, at) ==
    CASE op.asked = "open dir" -> IF reply.err = Nothing THEN 0 ELSE at
      [] op.asked = "read dir" -> at + Len(reply.entries)
      [] OTHER -> at

\* The replies while a directory is listed
LEMMA ListCallback ==
    ASSUME UnifiedParameters,
           NEW op, NEW dir, NEW at \in Nat, NEW asked, NEW run, Fits(op, TRUE, FALSE, dir, at, asked, run),
           op.cmd = "list", NEW reply, Good(op, at, run, reply)
    PROVE  /\ op.asked \in Directory
           /\ Moves(Callback(op, reply), DirAfter(op, reply, dir), AtAfter(op, reply, at), asked, run)
<1>1. op \in Op /\ Live(op) /\ op.called = 0 /\ op.result = Nothing
  BY Waiting
<1>2. /\ op.asked \in Directory
      /\ dir => op.asked \in {"read dir", "close"}
      /\ op.asked # "close" => op.err = Nothing
      /\ op.asked = "open dir" => op.list = <<>>
      /\ op.asked = "read dir" => at <= Len(Entries) /\ op.list = SubSeq(Entries, 1, at)
      /\ op.asked = "close" =>
           /\ op.err = Nothing => op.list = Entries
           /\ op.err = "many" => Len(Entries) > op.size
  BY <1>1 DEF Fits, Lists
<1>3. reply.err \in Errors /\ reply.entries \in Seq(Nat)
  BY DEF Good, Answered
<1>4. Entries \in Seq(Nat)
  BY DEF UnifiedParameters
<1> DEFINE err == reply.err
           k == Callback(op, reply)
<1>5. k = ListReply(op, err, reply.entries)
  BY DEF Callback
<1>6. err = "eof" \/ err = "many" => op.asked = "read dir"
  BY DEF Good
<1>7. CASE op.asked = "open dir"
  <2>1. CASE err = Nothing
    <3>1. k = Ask(op, "read dir")
      BY <1>5, <1>7, <2>1 DEF ListReply
    <3>2. Progress(op, "read dir", TRUE, 0)
      <4>1. op.list = <<>> /\ op.err = Nothing
        BY <1>2, <1>7
      <4>2. op.list = SubSeq(Entries, 1, 0)
        BY <1>4, <4>1, WholeBeginning
      <4>3. 0 <= Len(Entries)
        BY <1>4
      <4> QED  BY <4>1, <4>2, <4>3 DEF Progress, Directory
    <3>3. Moves(k, TRUE, 0, asked, run)
      BY <1>1, <3>1, <3>2, AskList
    <3>4. AtAfter(op, reply, at) = 0
      BY <1>7, <2>1 DEF AtAfter
    <3>5. DirAfter(op, reply, dir) = TRUE
      BY <1>7, <2>1 DEF DirAfter
    <3> QED  BY <1>2, <3>3, <3>4, <3>5
  <2>2. CASE err # Nothing
    <3>1. k = Done(op, err)
      BY <1>5, <1>7, <2>2 DEF ListReply
    <3>2. err # "many"
      BY <1>6, <1>7
    <3>3. Moves(k, FALSE, at, asked, run)
      BY <1>1, <1>3, <2>2, <3>1, <3>2, DoneList
    <3>4. AtAfter(op, reply, at) = at
      BY <1>7, <2>2 DEF AtAfter
    <3>5. DirAfter(op, reply, dir) = FALSE
      BY <1>2, <1>7, <2>2 DEF DirAfter
    <3> QED  BY <1>2, <3>3, <3>4, <3>5
  <2> QED  BY <2>1, <2>2
<1>8. CASE op.asked = "read dir"
  <2> DEFINE n == Len(reply.entries)
             d2 == DirAfter(op, reply, dir)
  <2>1. AtAfter(op, reply, at) = at + n
    BY <1>8 DEF AtAfter
  <2>2. k = ReadDirReply(op, err, reply.entries)
    BY <1>5, <1>8 DEF ListReply
  <2>3. at <= Len(Entries) /\ op.list = SubSeq(Entries, 1, at) /\ op.err = Nothing
    BY <1>2, <1>8
  <2>4. CASE err # Nothing
    <3>1. k = CloseDir(op, err)
      BY <2>2, <2>4 DEF ReadDirReply
    <3>2. err = "eof" => op.list = Entries
      <4> SUFFICES ASSUME err = "eof" PROVE op.list = Entries
        OBVIOUS
      <4>1. at = Len(Entries)
        BY DEF Good
      <4> QED  BY <1>4, <2>3, <4>1, WholeBeginning
    <3>3. err = "many" => Len(Entries) > op.size
      BY DEF Good
    <3>4. Moves(k, d2, at + n, asked, run)
      <4> HIDE DEF k, n, d2
      <4> QED  BY <1>1, <1>3, <2>4, <3>1, <3>2, <3>3, CloseList
    <3> QED  BY <1>2, <2>1, <3>4
  <2>5. CASE err = Nothing
    <3> DEFINE t == Translated(reply.entries)
               got == [op EXCEPT !.list = op.list \o t]
    <3>1. t \in Seq(Nat)
      BY <1>3, TranslatedFacts
    <3>2. op.list \in Seq(Nat)
      BY <1>4, <2>3
    <3>3. op.list \o t \in Seq(Nat)
      BY <3>1, <3>2, ConcatProperties
    <3> HIDE DEF t
    <3>4. got \in Op
      <4>1. op.list \o t \in Contents
        BY <3>3 DEF Contents
      <4> QED  BY <1>1, <4>1 DEF Op
    <3>5. /\ got.cmd = "list" /\ got.called = 0 /\ got.result = Nothing /\ got.err = Nothing
          /\ got.list = op.list \o t /\ got.size = op.size
      BY <1>1, <2>3 DEF Op
    <3>6. CASE t # reply.entries
      <4>1. k = CloseDir(got, "bad name")
        BY <2>2, <2>5, <3>6 DEF ReadDirReply, t
      <4>2. "bad name" \in Errors /\ "bad name" # Nothing
        BY DEF Errors, Nothing
      <4>3. Moves(k, d2, at + n, asked, run)
        <5> HIDE DEF k, n, d2, got
        <5> QED  BY <3>4, <3>5, <4>1, <4>2, CloseList
      <4> QED  BY <1>2, <2>1, <4>3
    <3>7. CASE t = reply.entries
      <4>1. k = Ask(got, "read dir")
        BY <2>2, <2>5, <3>7 DEF ReadDirReply, t
      <4>2. n \in Nat /\ at + n <= Len(Entries) /\ t = SubSeq(Entries, at + 1, at + n)
        <5>1. n \in Nat
          BY <1>3
        <5>2. at + n <= Len(Entries) /\ reply.entries = SubSeq(Entries, at + 1, at + n)
          BY <1>8, <2>5 DEF Good
        <5> QED  BY <3>7, <5>1, <5>2
      <4>3. got.list = SubSeq(Entries, 1, at + n)
        <5> HIDE DEF n, got
        <5>1. at + n \in Nat /\ at <= at + n
          BY <4>2
        <5> QED  BY <1>4, <2>3, <3>5, <4>2, <5>1, Beginning
      <4>4. Progress(got, "read dir", d2, at + n)
        <5> HIDE DEF n, got, d2
        <5> QED  BY <3>5, <4>2, <4>3 DEF Progress, Directory
      <4>5. Moves(k, d2, at + n, asked, run)
        <5> HIDE DEF k, n, got, d2
        <5> QED  BY <3>4, <3>5, <4>1, <4>4, AskList
      <4> QED  BY <1>2, <2>1, <4>5
    <3> QED  BY <3>6, <3>7
  <2> QED  BY <2>4, <2>5
<1>9. CASE op.asked = "close"
  <2>1. AtAfter(op, reply, at) = at
    BY <1>9 DEF AtAfter
  <2>2. DirAfter(op, reply, dir) = FALSE
    BY <1>9 DEF DirAfter
  <2>3. CASE err = Nothing
    <3> DEFINE o == IF op.err = Nothing THEN [op EXCEPT !.list = Sorted(op.list)] ELSE op
    <3>1. k = Done(o, op.err)
      BY <1>5, <1>9, <2>3 DEF ListReply
    <3>2. /\ o \in Op /\ o.cmd = "list" /\ o.called = 0 /\ o.size = op.size
          /\ op.err = Nothing => o.list = Sorted(Entries)
      <4>1. CASE op.err = Nothing
        <5>1. op.list = Entries
          BY <1>2, <1>9, <4>1
        <5>2. Sorted(op.list) \in Contents
          BY <1>4, <5>1 DEF Contents
        <5> QED  BY <1>1, <4>1, <5>1, <5>2 DEF Op
      <4>2. CASE op.err # Nothing
        BY <1>1, <4>2
      <4> QED  BY <4>1, <4>2
    <3>3. op.err \in Errors /\ (op.err = "many" => Len(Entries) > o.size)
      <4> HIDE DEF o
      <4> QED  BY <1>1, <1>2, <1>9, <3>2 DEF Op
    <3>4. Moves(k, FALSE, at, asked, run)
      <4> HIDE DEF k, o
      <4> QED  BY <3>1, <3>2, <3>3, DoneList
    <3> QED  BY <1>2, <2>1, <2>2, <3>4
  <2>4. CASE err # Nothing
    <3>1. k = Done(op, err)
      BY <1>5, <1>9, <2>4 DEF ListReply
    <3>2. err # "many"
      BY <1>6, <1>9
    <3>3. Moves(k, FALSE, at, asked, run)
      BY <1>1, <1>3, <2>4, <3>1, <3>2, DoneList
    <3> QED  BY <1>2, <2>1, <2>2, <3>3
  <2> QED  BY <2>3, <2>4
<1> QED  BY <1>2, <1>7, <1>8, <1>9 DEF Directory
-----------------------------------------------------------------------------
(* Every reply, and the first request *)

AskedAfter(op, reply, asked) ==
    IF op.asked = "query drive" /\ reply.err = Nothing THEN asked \cup {op.index} ELSE asked

\* Whatever a reply says, the operation goes on as it should, with what the server
\* knows of it after that reply.
LEMMA CallbackFacts ==
    ASSUME UnifiedParameters,
           NEW op, NEW dir \in BOOLEAN, NEW at \in Nat, NEW asked, NEW run \in BOOLEAN,
           Fits(op, TRUE, FALSE, dir, at, asked, run), NEW reply, Good(op, at, run, reply)
    PROVE  Moves(Callback(op, reply), DirAfter(op, reply, dir), AtAfter(op, reply, at),
                 AskedAfter(op, reply, asked), run)
<1>1. reply \in Answered /\ (reply.running <=> run)
  BY DEF Good
<1>2. CASE op.cmd = "list"
  <2>1. op.asked \in Directory
    BY <1>2, ListCallback
  <2>2. AskedAfter(op, reply, asked) = asked
    BY <2>1 DEF AskedAfter, Directory
  <2> QED  BY <1>2, <2>2, ListCallback
<1>3. CASE op.cmd = "tasks"
  <2>1. ~dir /\ op.asked = "query drive"
    BY <1>1, <1>3, TasksCallback
  <2>2. DirAfter(op, reply, dir) = FALSE
    BY <2>1, Zenon DEF DirAfter
  <2>3. AskedAfter(op, reply, asked) = IF reply.err = Nothing THEN asked \cup {op.index} ELSE asked
    BY <2>1 DEF AskedAfter
  <2>4. \A at2 : Moves(Callback(op, reply), FALSE, at2,
                        IF reply.err = Nothing THEN asked \cup {op.index} ELSE asked, run)
    BY <1>1, <1>3, TasksCallback
  <2>5. Moves(Callback(op, reply), FALSE, AtAfter(op, reply, at),
              IF reply.err = Nothing THEN asked \cup {op.index} ELSE asked, run)
    BY <2>4, Zenon
  <2> QED  BY <2>2, <2>3, <2>5, Zenon
<1>4. CASE op.cmd # "list" /\ op.cmd # "tasks"
  <2>1. ~dir /\ op.asked \notin Directory
    BY <1>1, <1>4, PlainCallback
  <2>2. DirAfter(op, reply, dir) = FALSE
    <3>1. op.asked # "open dir" /\ op.asked # "close"
      BY <2>1 DEF Directory
    <3> QED  BY <2>1, <3>1 DEF DirAfter
  <2> QED  BY <1>1, <1>4, <2>2, PlainCallback
<1> QED  BY <1>2, <1>3, <1>4

\* An operation begins with a request to the right server, or ends at once: when
\* no server is there, or when it is one for the other machines.
LEMMA FirstFacts ==
    ASSUME UnifiedParameters, NEW cmd \in Commands, NEW size \in Nat,
           NEW op, op = [Unused EXCEPT !.cmd = cmd, !.size = size], NEW at, NEW run
    PROVE  /\ Moves(FirstRequest(op), FALSE, at, {}, run)
           /\ Moves(Done(op, "no server"), FALSE, at, {}, run)
<1>1. /\ op \in Op /\ op.cmd = cmd /\ op.called = 0 /\ op.result = Nothing /\ op.err = Nothing
      /\ op.list = <<>>
  <2>1. <<>> \in Contents
    BY DEF Contents
  <2>2. Nothing \in Requests /\ Nothing \in Errors
    BY DEF Requests, Errors
  <2> QED  BY <2>1, <2>2 DEF Unused, Op
<1>2. "no server" \in Errors /\ "no server" # Nothing /\ "no server" # "many"
  BY DEF Errors, Nothing
<1>3. CASE cmd = "list"
  <2>1. FirstRequest(op) = Ask(op, "open dir")
    BY <1>1, <1>3 DEF FirstRequest, EraOnly
  <2>2. Progress(op, "open dir", FALSE, at)
    BY <1>1 DEF Progress, Directory
  <2>3. Moves(Ask(op, "open dir"), FALSE, at, {}, run)
    BY <1>1, <1>3, <2>2, AskList
  <2>4. Moves(Done(op, "no server"), FALSE, at, {}, run)
    BY <1>1, <1>2, <1>3, DoneList
  <2> QED  BY <2>1, <2>3, <2>4
<1>4. CASE cmd = "tasks"
  <2> DEFINE o == [op EXCEPT !.index = 1]
  <2>1. FirstRequest(op) = Ask(o, "query drive")
    BY <1>1, <1>4 DEF FirstRequest, EraOnly
  <2>2. o \in Op /\ o.cmd = "tasks" /\ o.called = 0 /\ o.result = Nothing /\ o.index = 1
    BY <1>1, <1>4 DEF Op
  <2> HIDE DEF o
  <2>3. o.index \in 1 .. Drives
    BY <2>2 DEF UnifiedParameters
  <2>4. {} = 1 .. o.index - 1
    BY <2>2
  <2>5. Moves(Ask(o, "query drive"), FALSE, at, {}, run)
    BY <2>2, <2>3, <2>4, AskTasks
  <2>6. Moves(Done(op, "no server"), FALSE, at, {}, run)
    BY <1>1, <1>2, <1>4, DoneTasks
  <2> QED  BY <2>1, <2>5, <2>6
<1>5. CASE cmd # "list" /\ cmd # "tasks"
  <2>1. Plain(op)
    BY <1>1, <1>5 DEF Plain
  <2>2. Moves(Done(op, "no server"), FALSE, at, {}, run)
    BY <1>2, <2>1, DonePlain
  <2>3. \A r \in {"volume", "machine type", "exec", "machine info", cmd} :
          Moves(Ask(op, r), FALSE, at, {}, run)
    <3> SUFFICES ASSUME NEW r \in {"volume", "machine type", "exec", "machine info", cmd}
                 PROVE  Moves(Ask(op, r), FALSE, at, {}, run)
      OBVIOUS
    <3>1. r \in Requests /\ r \notin Directory
      BY <1>5 DEF Requests, Directory, Commands, EraOnly
    <3> QED  BY <2>1, <3>1, AskPlain
  <2>4. CASE cmd = "stop"
    <3> DEFINE o == [op EXCEPT !.delay = TRUE, !.timeout = StopTime]
    <3>1. FirstRequest(op) = Ask(o, "stop")
      BY <1>1, <2>4 DEF FirstRequest, EraOnly
    <3>2. Plain(o)
      <4>1. StopTime \in Nat
        BY DEF UnifiedParameters
      <4>2. o \in Op
        BY <1>1, <4>1 DEF Op
      <4>3. o.cmd = "stop" /\ o.called = 0 /\ o.result = Nothing
        BY <1>1, <2>4 DEF Op
      <4> HIDE DEF o
      <4>4. "stop" \in Commands \ {"list", "tasks"}
        BY DEF Commands
      <4> QED  BY <4>2, <4>3, <4>4 DEF Plain
    <3>3. Moves(Ask(o, "stop"), FALSE, at, {}, run)
      <4> HIDE DEF o
      <4> QED  BY <3>2, AskPlain DEF Requests, Directory, Commands
    <3> QED  BY <2>2, <3>1, <3>3
  <2>5. CASE cmd # "stop"
    <3>1. Moves(Done(op, "bad op"), FALSE, at, {}, run)
      <4>1. "bad op" \in Errors
        BY DEF Errors
      <4> QED  BY <1>1, <2>1, <2>5, <4>1, DonePlain
    <3>2. FirstRequest(op) \in {Ask(op, r) : r \in {"volume", "machine type", "exec", "machine info", cmd}}
                               \cup {Done(op, "bad op")}
      BY <1>1, <1>5, <2>5 DEF FirstRequest
    <3> QED  BY <2>2, <2>3, <3>1, <3>2
  <2> QED  BY <2>4, <2>5
<1> QED  BY <1>3, <1>4, <1>5

\* A timer that expires belongs to a STOP or START that waits for it; it then asks
\* again or ends, and sets no other timer.
LEMMA TimerFacts ==
    ASSUME UnifiedParameters,
           NEW op, NEW dir, NEW at, NEW asked, NEW run, Fits(op, FALSE, TRUE, dir, at, asked, run),
           NEW reply, reply.err = Nothing
    PROVE  /\ ~dir /\ Callback(op, reply).timer = 0 /\ Callback(op, reply).ask \in BOOLEAN
           /\ Fits(Callback(op, reply).op, Callback(op, reply).ask, FALSE, FALSE, at, asked, run)
<1> DEFINE k == Callback(op, reply)
<1>1. /\ op \in Op /\ op.cmd \in {"stop", "start"} /\ op.delay /\ Live(op)
      /\ op.called = 0 /\ op.result = Nothing
  BY DEF Fits, Waits, Live
<1>2. ~dir
  BY <1>1 DEF Fits, Lists, Directory
<1>3. Plain(op)
  BY <1>1 DEF Plain, Commands
<1>4. Nothing \in Errors /\ op.timeout \in Nat
  BY <1>1 DEF Errors, Op
<1>5. Moves(k, FALSE, at, asked, run) /\ k.timer = 0
  <2>1. CASE op.cmd = "start"
    <3>1. k = Done(op, Nothing)
      BY <1>1, <2>1 DEF Callback, StartReply
    <3>2. Moves(Done(op, Nothing), FALSE, at, asked, run)
      BY <1>3, <1>4, <2>1, DonePlain
    <3>3. Done(op, Nothing).timer = 0
      BY <1>1, <1>4, StepFacts
    <3> QED  BY <3>1, <3>2, <3>3
  <2>2. CASE op.cmd = "stop" /\ op.timeout > 0
    <3> DEFINE o == [op EXCEPT !.delay = FALSE]
    <3>1. k = Ask(o, "running")
      BY <1>1, <2>2 DEF Callback, StopReply
    <3>2. o \in Op /\ Plain(o)
      BY <1>1, <2>2 DEF Op, Plain, Commands
    <3> HIDE DEF o
    <3>3. "running" \in Requests /\ "running" \notin Directory
      BY DEF Requests, Directory
    <3>4. Moves(Ask(o, "running"), FALSE, at, asked, run)
      BY <3>2, <3>3, AskPlain
    <3>5. Ask(o, "running").timer = 0
      BY <3>2, <3>3, StepFacts
    <3> QED  BY <3>1, <3>4, <3>5
  <2>3. CASE op.cmd = "stop" /\ ~(op.timeout > 0)
    <3>1. k = Done(op, Nothing)
      BY <1>1, <2>3 DEF Callback, StopReply
    <3>2. op.timeout = 0
      BY <1>4, <2>3
    <3>3. Moves(Done(op, Nothing), FALSE, at, asked, run)
      BY <1>3, <1>4, <3>2, DonePlain
    <3>4. Done(op, Nothing).timer = 0
      BY <1>1, <1>4, StepFacts
    <3> QED  BY <3>1, <3>3, <3>4
  <2> QED  BY <1>1, <2>1, <2>2, <2>3
<1> HIDE DEF k
<1>6. (k.timer > 0) = FALSE
  BY <1>5
<1>7. k.ask \in BOOLEAN /\ Fits(k.op, k.ask, k.timer > 0, FALSE, at, asked, run)
  BY <1>5, Zenon DEF Moves
<1>8. Fits(k.op, k.ask, FALSE, FALSE, at, asked, run)
  BY <1>6, <1>7, Zenon
<1> QED  BY <1>2, <1>5, <1>7, <1>8 DEF k
-----------------------------------------------------------------------------
(* The invariant *)

Types ==
    /\ ops \in [Ids -> Op] /\ requests \in SUBSET Ids
    /\ Timers(timers) /\ server \in Server

\* Each operation fits what the server and the timers know of it.
FitsAll ==
    \A who \in Ids :
        Fits(ops[who], who \in requests, who \in Timed(timers), who \in server.dirs, server.at[who],
             server.asked[who], who \in server.running)
UnifiedInv == Types /\ FitsAll

\* An operation that has a request out has no timer, and the reverse; neither is
\* there of one that has ended.
LEMMA WaitingFacts ==
    ASSUME UnifiedInv, NEW who \in Ids
    PROVE  /\ who \in requests => (who \in Timed(timers)) = FALSE /\ (who \in requests) = TRUE
           /\ who \in Timed(timers) => (who \in requests) = FALSE /\ (who \in Timed(timers)) = TRUE
           /\ ~Running(who) => who \notin requests /\ who \notin Timed(timers) /\ who \notin server.dirs
           /\ who \in Timed(timers) => Live(ops[who])
<1>1. Fits(ops[who], who \in requests, who \in Timed(timers), who \in server.dirs, server.at[who],
           server.asked[who], who \in server.running)
  BY DEF UnifiedInv, FitsAll
<1>2. Waits(ops[who], who \in requests, who \in Timed(timers))
  BY <1>1, Zenon DEF Fits
<1>3. Lists(ops[who], who \in server.dirs, server.at[who])
  BY <1>1, Zenon DEF Fits
<1>4. /\ Live(ops[who]) => (who \in requests <=> who \notin Timed(timers))
      /\ ~Live(ops[who]) => who \notin requests /\ who \notin Timed(timers)
  BY <1>2, Zenon DEF Waits
<1>5. who \in server.dirs => Live(ops[who])
  BY <1>3, Zenon DEF Lists
<1>6. Running(who) <=> Live(ops[who])
  BY DEF Running, Live
<1> QED  BY <1>4, <1>5, <1>6

\* An action that moves one operation and leaves what is known of the others keeps
\* the invariant.
LEMMA OneMoves ==
    ASSUME UnifiedInv, NEW who \in Ids, NEW k, Become(who, k),
           Timers(timers'), server' \in Server,
           Moves(k, who \in server'.dirs, server'.at[who], server'.asked[who], who \in server'.running),
           who \notin Timed(timers),
           Timed(timers') = IF k.timer > 0 THEN Timed(timers) \cup {who} ELSE Timed(timers),
           \A x \in Ids \ {who} :
               /\ (x \in server'.dirs) = (x \in server.dirs)
               /\ (x \in server'.running) = (x \in server.running)
               /\ server'.at[x] = server.at[x] /\ server'.asked[x] = server.asked[x]
    PROVE  UnifiedInv'
<1>1. /\ ops \in [Ids -> Op] /\ requests \in SUBSET Ids
      /\ ops' = [ops EXCEPT ![who] = k.op]
      /\ requests' = IF k.ask THEN requests \cup {who} ELSE requests \ {who}
  BY DEF UnifiedInv, Types, Become
<1>2. k.ask \in BOOLEAN /\ Fits(k.op, k.ask, k.timer > 0, who \in server'.dirs, server'.at[who],
                                server'.asked[who], who \in server'.running)
  BY Zenon DEF Moves
<1>3. k.op \in Op
  BY <1>2, Zenon DEF Fits
<1>4. ops' \in [Ids -> Op] /\ requests' \in SUBSET Ids
  BY <1>1, <1>3
<1>5. Fits(ops'[who], who \in requests', who \in Timed(timers'), who \in server'.dirs, server'.at[who],
           server'.asked[who], who \in server'.running)
  <2>1. ops'[who] = k.op
    BY <1>1
  <2>2. (who \in requests') = k.ask
    BY <1>1, <1>2
  <2>3. (who \in Timed(timers')) = (k.timer > 0)
    OBVIOUS
  <2> QED  BY <1>2, <2>1, <2>2, <2>3, Zenon
<1>6. ASSUME NEW x \in Ids, x # who
      PROVE  Fits(ops'[x], x \in requests', x \in Timed(timers'), x \in server'.dirs, server'.at[x],
                  server'.asked[x], x \in server'.running)
  <2>1. Fits(ops[x], x \in requests, x \in Timed(timers), x \in server.dirs, server.at[x],
             server.asked[x], x \in server.running)
    BY DEF UnifiedInv, FitsAll
  <2>2. ops'[x] = ops[x]
    BY <1>1, <1>6
  <2>3. (x \in requests') = (x \in requests)
    BY <1>1, <1>6
  <2>4. (x \in Timed(timers')) = (x \in Timed(timers))
    BY <1>6
  <2>5. /\ (x \in server'.dirs) = (x \in server.dirs)
        /\ (x \in server'.running) = (x \in server.running)
        /\ server'.at[x] = server.at[x] /\ server'.asked[x] = server.asked[x]
    BY <1>6, Zenon
  <2> QED  BY <2>1, <2>2, <2>3, <2>4, <2>5, Zenon
<1> QED  BY <1>4, <1>5, <1>6, Zenon DEF UnifiedInv, Types, FitsAll

-----------------------------------------------------------------------------
(* The actions *)

\* An operation begins.
LEMMA BackKeeps ==
    ASSUME UnifiedParameters, UnifiedInv, NEW who \in Ids, UnifiedBack(who)
    PROVE  UnifiedInv'
<1>1. PICK cmd \in Commands, size \in Sizes \cup {0} :
        Become(who, IF server.up THEN FirstRequest([Unused EXCEPT !.cmd = cmd, !.size = size])
                   ELSE Done([Unused EXCEPT !.cmd = cmd, !.size = size], "no server"))
  BY DEF UnifiedBack
<1> DEFINE op == [Unused EXCEPT !.cmd = cmd, !.size = size]
           k == IF server.up THEN FirstRequest(op) ELSE Done(op, "no server")
<1>2. /\ ~Running(who) /\ timers' = timers
      /\ server' = [server EXCEPT !.asked[who] = {}, !.running = server.running \cup {who}, !.at[who] = 0]
  BY DEF UnifiedBack
<1>3. server \in Server /\ Timers(timers)
  BY DEF UnifiedInv, Types
<1>4. who \notin Timed(timers) /\ who \notin server.dirs
  BY <1>2, WaitingFacts
<1>5. /\ server' \in Server /\ server'.dirs = server.dirs /\ server'.at[who] = 0
      /\ server'.asked[who] = {} /\ server'.running = server.running \cup {who}
      /\ \A x \in Ids \ {who} : server'.at[x] = server.at[x] /\ server'.asked[x] = server.asked[x]
  BY <1>2, <1>3 DEF Server
<1>6. Become(who, k)
  BY <1>1
<1>7. size \in Nat
  BY DEF UnifiedParameters
<1>8. k.timer = 0
  BY DEF FirstRequest, Ask, Done, Step
<1>9. ASSUME NEW at, NEW run PROVE Moves(k, FALSE, at, {}, run)
  <2>1. Moves(FirstRequest(op), FALSE, at, {}, run) /\ Moves(Done(op, "no server"), FALSE, at, {}, run)
    <3>1. op = [Unused EXCEPT !.cmd = cmd, !.size = size]
      OBVIOUS
    <3> HIDE DEF op
    <3> QED  BY <1>7, <3>1, FirstFacts
  <2> HIDE DEF op
  <2> QED  BY <2>1
<1> HIDE DEF k
<1>10. Moves(k, who \in server'.dirs, server'.at[who], server'.asked[who], who \in server'.running)
  <2>1. (who \in server'.dirs) = FALSE
    BY <1>4, <1>5
  <2>2. Moves(k, FALSE, server'.at[who], {}, who \in server'.running)
    BY <1>9, Zenon
  <2> QED  BY <1>5, <2>1, <2>2, Zenon
<1>11. (k.timer > 0) = FALSE /\ Timed(timers') = Timed(timers) /\ Timers(timers')
  BY <1>2, <1>3, <1>8
<1>12. \A x \in Ids \ {who} :
           /\ (x \in server'.dirs) = (x \in server.dirs)
           /\ (x \in server'.running) = (x \in server.running)
           /\ server'.at[x] = server.at[x] /\ server'.asked[x] = server.asked[x]
  BY <1>5
<1> QED  BY <1>4, <1>5, <1>6, <1>10, <1>11, <1>12, OneMoves

\* What is in a reply
LEMMA ReplyFields ==
    ASSUME NEW who, NEW err \in Errors, NEW entries \in Seq(Nat)
    PROVE  /\ Reply(who, err, entries).err = err
           /\ Reply(who, err, entries).entries = entries
BY DEF Reply

\* It is a reply, and says whether the task runs.
LEMMA ReplyFacts ==
    ASSUME NEW who, NEW err \in Errors, NEW entries \in Seq(Nat)
    PROVE  /\ Reply(who, err, entries) \in Answered
           /\ Reply(who, err, entries).running = (who \in server.running)
<1> DEFINE run == who \in server.running
           r == [err |-> err, entries |-> entries, running |-> run]
<1>1. run \in BOOLEAN
  OBVIOUS
<1>2. Reply(who, err, entries) = r
  BY DEF Reply
<1>3. r \in Answered /\ r.running = run
  <2> HIDE DEF run
  <2> QED  BY <1>1 DEF Answered
<1> QED  BY <1>2, <1>3

\* What the servers reply is so of the operation that asked.
LEMMA RepliesFacts ==
    ASSUME UnifiedParameters, UnifiedInv, NEW who \in Ids, who \in requests, NEW reply \in Replies(who)
    PROVE  Good(ops[who], server.at[who], who \in server.running, reply)
<1> DEFINE op == ops[who]
           at == server.at[who]
           asked == op.asked
<1>1. op \in Op /\ server \in Server /\ at \in Nat
  BY DEF UnifiedInv, Types, Server
<1>2. Fits(op, TRUE, FALSE, who \in server.dirs, at, server.asked[who], who \in server.running)
  <2>1. Fits(ops[who], who \in requests, who \in Timed(timers), who \in server.dirs, server.at[who],
             server.asked[who], who \in server.running)
    BY DEF UnifiedInv, FitsAll
  <2> QED  BY <2>1, WaitingFacts, Zenon
<1>3. op.cmd \in Commands /\ Live(op)
  BY <1>2, Waiting
<1>4. ASSUME NEW err \in Errors, err # "eof", err # "many", err = Nothing => asked # "read dir"
      PROVE  Good(op, at, who \in server.running, Reply(who, err, <<>>))
  <2> DEFINE r == Reply(who, err, <<>>)
  <2>1. r.err = err /\ r.entries = <<>> /\ r.running = (who \in server.running) /\ r \in Answered
    <3>1. <<>> \in Seq(Nat)
      OBVIOUS
    <3>2. r.err = err /\ r.entries = <<>>
      BY <1>4, <3>1, ReplyFields
    <3>3. r.running = (who \in server.running) /\ r \in Answered
      BY <1>4, <3>1, ReplyFacts
    <3> QED  BY <3>2, <3>3
  <2> HIDE DEF r
  <2>2. /\ r.err # "eof" /\ r.err # "many"
        /\ ~(asked = "read dir" /\ r.err = Nothing)
    BY <1>4, <2>1
  <2>3. Good(op, at, who \in server.running, r)
    BY <2>1, <2>2, Zenon DEF Good
  <2> QED  BY <2>3 DEF r
<1>5. ASSUME asked = "read dir" PROVE Good(op, at, who \in server.running, Listed(who))
  <2> DEFINE last == IF at + Block < Len(Entries) THEN at + Block ELSE Len(Entries)
             next == SubSeq(Entries, at + 1, last)
             room == op.size - Len(op.list)
  <2>1. Entries \in Seq(Nat) /\ Len(Entries) \in Nat /\ Block \in Nat \ {0} /\ op.size \in Nat
    BY <1>1 DEF UnifiedParameters, Op
  <2>2. op.cmd = "list"
    BY <1>2, <1>3, <1>5, Zenon DEF Fits, Lists, Directory
  <2>3. at <= Len(Entries) /\ op.list = SubSeq(Entries, 1, at)
    <3>1. op.cmd = "list" /\ Live(op) =>
            (asked = "read dir" => at <= Len(Entries) /\ op.list = SubSeq(Entries, 1, at))
      BY <1>2, Zenon DEF Fits, Lists
    <3> QED  BY <1>3, <1>5, <2>2, <3>1
  <2>4. Len(op.list) = at
    BY <1>1, <2>1, <2>3
  <2>5. /\ last \in Nat /\ at <= last /\ last <= Len(Entries) /\ (last = at => at = Len(Entries))
        /\ next \in Seq(Nat) /\ Len(next) = last - at
    <3>1. last \in Nat /\ at <= last /\ last <= Len(Entries) /\ (last = at => at = Len(Entries))
      BY <1>1, <2>1, <2>3
    <3> HIDE DEF last
    <3> QED  BY <1>1, <2>1, <3>1, Between
  <2>6. next = <<>> => at = Len(Entries)
    <3> HIDE DEF last, next
    <3>1. next = <<>> => Len(next) = 0
      OBVIOUS
    <3> QED  BY <1>1, <2>5, <3>1
  <2> HIDE DEF last
  <2>7. CASE next = <<>>
    <3>1. Listed(who) = Reply(who, "eof", <<>>)
      BY <2>7 DEF Listed, last
    <3> DEFINE r == Listed(who)
    <3>2. /\ r.err = "eof" /\ r.entries = <<>> /\ r.running = (who \in server.running)
          /\ r \in Answered
      <4>1. <<>> \in Seq(Nat) /\ "eof" \in Errors /\ "many" \in Errors
        BY DEF Errors
      <4>2. Listed(who).err = "eof" /\ Listed(who).entries = <<>>
        BY <3>1 DEF Reply
      <4>3. Listed(who) \in Answered /\ Listed(who).running = (who \in server.running)
        <5> HIDE DEF r
        <5> QED  BY <3>1, <4>1, ReplyFacts
      <4> QED  BY <4>2, <4>3, Zenon
    <3> HIDE DEF r
    <3>3. Good(op, at, who \in server.running, r)
      BY <1>5, <2>6, <2>7, <3>2 DEF Good, Nothing
    <3> QED  BY <3>3 DEF r
  <2>8. CASE next # <<>> /\ Len(next) > room
    <3>1. Listed(who) = Reply(who, "many", <<>>)
      BY <2>8 DEF Listed, last
    <3>2. Len(Entries) > op.size
      <4> DEFINE len == Len(op.list)
                 more == Len(next)
                 all == Len(Entries)
      <4>1. len = at /\ more = last - at /\ last \in Nat /\ last <= all /\ more > op.size - len
        BY <2>4, <2>5, <2>8
      <4>2. all \in Nat /\ op.size \in Nat /\ at \in Nat
        BY <1>1, <2>1
      <4> HIDE DEF len, more, all, op, at
      <4>3. all > op.size
        BY <4>1, <4>2
      <4> QED  BY <4>3 DEF all
    <3> DEFINE r == Listed(who)
    <3>3. /\ r.err = "many" /\ r.entries = <<>> /\ r.running = (who \in server.running)
          /\ r \in Answered
      <4>1. <<>> \in Seq(Nat) /\ "eof" \in Errors /\ "many" \in Errors
        BY DEF Errors
      <4>2. Listed(who).err = "many" /\ Listed(who).entries = <<>>
        BY <3>1 DEF Reply
      <4>3. Listed(who) \in Answered /\ Listed(who).running = (who \in server.running)
        <5> HIDE DEF r
        <5> QED  BY <3>1, <4>1, ReplyFacts
      <4> QED  BY <4>2, <4>3, Zenon
    <3> HIDE DEF r
    <3>4. Good(op, at, who \in server.running, r)
      BY <1>5, <3>2, <3>3 DEF Good, Nothing
    <3> QED  BY <3>4 DEF r
  <2>9. CASE next # <<>> /\ ~(Len(next) > room)
    <3>1. Listed(who) = Reply(who, Nothing, next)
      BY <2>9 DEF Listed, last
    <3>2. at + Len(next) = last
      BY <1>1, <2>5
    <3> DEFINE r == Listed(who)
    <3>3. /\ r.err = Nothing /\ r.entries = next /\ r.running = (who \in server.running)
          /\ r \in Answered
      <4>1. Nothing \in Errors
        BY DEF Errors
      <4>2. Listed(who).err = Nothing /\ Listed(who).entries = next
        <5>1. next \in Seq(Nat)
          BY <2>5
        <5> HIDE DEF r, next
        <5> QED  BY <3>1, <4>1, <5>1, ReplyFields
      <4>3. Listed(who) \in Answered /\ Listed(who).running = (who \in server.running)
        <5>1. next \in Seq(Nat)
          BY <2>5
        <5> HIDE DEF r, next
        <5> QED  BY <3>1, <4>1, <5>1, ReplyFacts
      <4> QED  BY <4>2, <4>3, Zenon
    <3>4. r.entries = SubSeq(Entries, at + 1, at + Len(r.entries)) /\ at + Len(r.entries) <= Len(Entries)
      BY <2>5, <3>2, <3>3
    <3>5. r.err # "eof" /\ r.err # "many"
      BY <3>3 DEF Nothing
    <3> HIDE DEF r
    <3>6. Good(op, at, who \in server.running, r)
      BY <3>3, <3>4, <3>5, Zenon DEF Good
    <3> QED  BY <3>6 DEF r
  <2> QED  BY <2>7, <2>8, <2>9
<1>6. \/ asked = "read dir" /\ reply = Listed(who)
      \/ \E err \in {"lost", "failed", "empty", "not supported", Nothing} :
            reply = Reply(who, err, <<>>) /\ (err = Nothing => asked # "read dir")
  BY DEF Replies, Nothing
<1>7. {"lost", "failed", "empty", "not supported", Nothing} \subseteq Errors \ {"eof", "many"}
  BY DEF Errors, Nothing
<1> QED  BY <1>4, <1>5, <1>6, <1>7
\* What a request does to the server is what the reply to it says.
LEMMA ServedFacts ==
    ASSUME UnifiedInv, NEW who \in Ids, NEW reply \in Answered
    PROVE  LET s == Served(who, reply)
               op == ops[who]
           IN /\ s \in Server
              /\ s.at[who] = AtAfter(op, reply, server.at[who])
              /\ s.asked[who] = AskedAfter(op, reply, server.asked[who])
              /\ s.running = server.running
              /\ (who \in s.dirs) = DirAfter(op, reply, who \in server.dirs)
              /\ \A x \in Ids \ {who} :
                     /\ (x \in s.dirs) = (x \in server.dirs)
                     /\ s.at[x] = server.at[x] /\ s.asked[x] = server.asked[x]
<1> DEFINE s == Served(who, reply)
           op == ops[who]
           f == Fault(reply.err = "failed", server)
           was == who \in server.dirs
<1>1. server \in Server /\ op \in Op /\ op.index \in Nat /\ Len(reply.entries) \in Nat
  BY DEF UnifiedInv, Types, Op, Answered
<1>2. /\ f \in Server /\ f.dirs = server.dirs /\ f.at = server.at /\ f.asked = server.asked
      /\ f.running = server.running
  <2> DEFINE n == IF reply.err = "failed" THEN server.faults + 1 ELSE server.faults
  <2>1. n \in Nat
    BY <1>1 DEF Server
  <2>2. f = [server EXCEPT !.faults = n]
    BY DEF Fault
  <2> HIDE DEF n, f
  <2>3. f \in Server
    BY <1>1, <2>1, <2>2 DEF Server
  <2>4. f.dirs = server.dirs /\ f.at = server.at /\ f.asked = server.asked
        /\ f.running = server.running
    BY <1>1, <2>2 DEF Server
  <2> QED  BY <2>3, <2>4
<1> HIDE DEF f
<1>0. server.at \in [Ids -> Nat] /\ server.asked \in [Ids -> SUBSET Nat] /\ server.dirs \in SUBSET Ids
  BY <1>1 DEF Server
<1>3. CASE op.asked = "open dir" /\ reply.err = Nothing
  <2> DEFINE at2 == [server.at EXCEPT ![who] = 0]
             dirs2 == server.dirs \cup {who}
  <2>1. s = [f EXCEPT !.dirs = dirs2, !.at = at2]
    BY <1>2, <1>3 DEF Served, f
  <2>5. at2 \in [Ids -> Nat] /\ dirs2 \in SUBSET Ids
    BY <1>0
  <2>2. /\ s \in Server /\ s.dirs = dirs2 /\ s.asked = server.asked
        /\ s.running = server.running /\ s.at = at2
    <3> HIDE DEF at2, dirs2, s
    <3> QED  BY <1>2, <2>1, <2>5 DEF Server
  <2>3. /\ AtAfter(op, reply, server.at[who]) = 0
        /\ AskedAfter(op, reply, server.asked[who]) = server.asked[who]
    BY <1>3 DEF AtAfter, AskedAfter
  <2>4. DirAfter(op, reply, was) = TRUE /\ (who \in s.dirs) = TRUE
    BY <1>3, <2>2 DEF DirAfter
  <2>6. \A x \in Ids \ {who} :
            (x \in s.dirs) = (x \in server.dirs) /\ s.at[x] = server.at[x] /\ s.asked[x] = server.asked[x]
    BY <1>0, <2>2
  <2>7. s.at[who] = 0 /\ s.asked[who] = server.asked[who]
    BY <1>0, <2>2
  <2> QED  BY <2>2, <2>3, <2>4, <2>6, <2>7
<1>4. CASE op.asked = "read dir"
  <2> DEFINE at2 == [server.at EXCEPT ![who] = server.at[who] + Len(reply.entries)]
  <2>1. s = [f EXCEPT !.at = at2]
    BY <1>2, <1>4 DEF Served, f
  <2>2. server.at[who] + Len(reply.entries) \in Nat
    BY <1>1 DEF Server
  <2>3. /\ s \in Server /\ s.dirs = server.dirs /\ s.asked = server.asked
        /\ s.running = server.running
        /\ s.at = at2
    <3>1. at2 \in [Ids -> Nat]
      BY <1>0, <2>2
    <3> HIDE DEF at2, s
    <3> QED  BY <1>2, <2>1, <3>1 DEF Server
  <2>4. /\ AtAfter(op, reply, server.at[who]) = server.at[who] + Len(reply.entries)
        /\ AskedAfter(op, reply, server.asked[who]) = server.asked[who]
    BY <1>4 DEF AtAfter, AskedAfter
  <2>5. DirAfter(op, reply, was) = was
    BY <1>4 DEF DirAfter
  <2> QED  BY <1>1, <2>3, <2>4, <2>5 DEF Server
<1>5. CASE op.asked = "close"
  <2>1. s = [f EXCEPT !.dirs = server.dirs \ {who}]
    BY <1>2, <1>5 DEF Served, f
  <2>2. /\ s \in Server /\ s.dirs = server.dirs \ {who} /\ s.asked = server.asked
        /\ s.running = server.running /\ s.at = server.at
    BY <1>1, <1>2, <2>1 DEF Server
  <2>3. /\ AtAfter(op, reply, server.at[who]) = server.at[who]
        /\ AskedAfter(op, reply, server.asked[who]) = server.asked[who]
    BY <1>5 DEF AtAfter, AskedAfter
  <2>4. DirAfter(op, reply, was) = FALSE /\ (who \in s.dirs) = FALSE
    BY <1>5, <2>2 DEF DirAfter
  <2>5. \A x \in Ids \ {who} : (x \in s.dirs) = (x \in server.dirs)
    BY <2>2
  <2> QED  BY <2>2, <2>3, <2>4, <2>5
<1>6. CASE op.asked = "query drive" /\ reply.err = Nothing
  <2> DEFINE asked2 == [server.asked EXCEPT ![who] = server.asked[who] \cup {op.index}]
  <2>1. s = [f EXCEPT !.asked = asked2]
    BY <1>2, <1>6 DEF Served, f
  <2>2. server.asked[who] \cup {op.index} \in SUBSET Nat
    BY <1>1 DEF Server
  <2>3. /\ s \in Server /\ s.dirs = server.dirs /\ s.at = server.at
        /\ s.running = server.running
        /\ s.asked = asked2
    <3>1. asked2 \in [Ids -> SUBSET Nat]
      BY <1>0, <2>2
    <3> HIDE DEF asked2, s
    <3> QED  BY <1>2, <2>1, <3>1 DEF Server
  <2>4. /\ AtAfter(op, reply, server.at[who]) = server.at[who]
        /\ AskedAfter(op, reply, server.asked[who]) = server.asked[who] \cup {op.index}
    BY <1>6 DEF AtAfter, AskedAfter
  <2>5. DirAfter(op, reply, was) = was
    BY <1>6 DEF DirAfter
  <2> QED  BY <1>1, <2>3, <2>4, <2>5 DEF Server
<1>7. CASE /\ ~(op.asked = "open dir" /\ reply.err = Nothing) /\ op.asked # "read dir"
           /\ op.asked # "close" /\ ~(op.asked = "query drive" /\ reply.err = Nothing)
  <2>1. s = f
    BY <1>7 DEF Served, f
  <2>2. /\ AtAfter(op, reply, server.at[who]) = server.at[who]
        /\ AskedAfter(op, reply, server.asked[who]) = server.asked[who]
    BY <1>7 DEF AtAfter, AskedAfter
  <2>3. DirAfter(op, reply, was) = was
    <3>1. was \in BOOLEAN
      OBVIOUS
    <3> HIDE DEF was
    <3>2. CASE op.asked = "open dir"
      BY <1>7, <3>1, <3>2 DEF DirAfter
    <3>3. CASE op.asked # "open dir"
      BY <1>7, <3>3 DEF DirAfter
    <3> QED  BY <3>2, <3>3
  <2> QED  BY <1>2, <2>1, <2>2, <2>3
<1> QED  BY <1>3, <1>4, <1>5, <1>6, <1>7

\* A request is answered.
LEMMA AnswerKeeps ==
    ASSUME UnifiedParameters, UnifiedInv, NEW who \in Ids, Answer(who)
    PROVE  UnifiedInv'
<1>1. /\ who \in requests
      /\ \E reply \in Replies(who) :
           /\ Become(who, Callback(ops[who], reply))
           /\ timers' = IF Callback(ops[who], reply).timer > 0
                        THEN Set(timers, who, Callback(ops[who], reply).timer) ELSE timers
           /\ server' = Served(who, reply)
  BY DEF Answer
<1>2. PICK reply \in Replies(who) :
           /\ Become(who, Callback(ops[who], reply))
           /\ timers' = IF Callback(ops[who], reply).timer > 0
                        THEN Set(timers, who, Callback(ops[who], reply).timer) ELSE timers
           /\ server' = Served(who, reply)
  BY <1>1
<1> DEFINE op == ops[who]
           k == Callback(op, reply)
           at == server.at[who]
           asked == server.asked[who]
           run == who \in server.running
           dir == who \in server.dirs
<1>3. Good(op, at, run, reply)
  BY <1>1, RepliesFacts
<1>4. reply \in Answered
  BY <1>3 DEF Good
<1>5. who \notin Timed(timers) /\ Fits(op, TRUE, FALSE, dir, at, asked, run)
  <2>1. Fits(ops[who], who \in requests, who \in Timed(timers), who \in server.dirs, server.at[who],
             server.asked[who], who \in server.running)
    BY DEF UnifiedInv, FitsAll
  <2>2. (who \in Timed(timers)) = FALSE /\ (who \in requests) = TRUE
    BY <1>1, WaitingFacts
  <2> QED  BY <2>1, <2>2, Zenon
<1>6. at \in Nat /\ dir \in BOOLEAN /\ run \in BOOLEAN
  BY DEF UnifiedInv, Types, Server
<1>7. Moves(k, DirAfter(op, reply, dir), AtAfter(op, reply, at), AskedAfter(op, reply, asked), run)
  <2> HIDE DEF op, at, dir, run, asked
  <2> QED  BY <1>3, <1>5, <1>6, CallbackFacts
<1>8. /\ server' \in Server
      /\ server'.at[who] = AtAfter(op, reply, at)
      /\ server'.asked[who] = AskedAfter(op, reply, asked)
      /\ server'.running = server.running
      /\ (who \in server'.dirs) = DirAfter(op, reply, dir)
      /\ \A x \in Ids \ {who} :
             /\ (x \in server'.dirs) = (x \in server.dirs)
             /\ server'.at[x] = server.at[x] /\ server'.asked[x] = server.asked[x]
  <2>1. server' = Served(who, reply)
    BY <1>2
  <2> QED  BY <1>4, <2>1, ServedFacts, Zenon
<1>9. Moves(k, who \in server'.dirs, server'.at[who], server'.asked[who], who \in server'.running)
  BY <1>7, <1>8, Zenon
<1>10. k.timer \in Nat
  BY <1>9, Zenon DEF Moves
<1>11. Timers(timers')
       /\ Timed(timers') = IF k.timer > 0 THEN Timed(timers) \cup {who} ELSE Timed(timers)
  <2>1. Timers(timers) /\ timers' = IF k.timer > 0 THEN Set(timers, who, k.timer) ELSE timers
    BY <1>2 DEF UnifiedInv, Types
  <2> HIDE DEF k
  <2> QED  BY <1>5, <1>10, <2>1, SetFacts
<1>12. \A x \in Ids \ {who} :
           /\ (x \in server'.dirs) = (x \in server.dirs)
           /\ (x \in server'.running) = (x \in server.running)
           /\ server'.at[x] = server.at[x] /\ server'.asked[x] = server.asked[x]
  BY <1>8, Zenon
<1>13. Become(who, k)
  BY <1>2
<1> HIDE DEF k
<1> QED  BY <1>5, <1>8, <1>9, <1>11, <1>12, <1>13, OneMoves
\* The timers that are due expire.
LEMMA ExpireKeeps ==
    ASSUME UnifiedParameters, UnifiedInv, Expire
    PROVE  UnifiedInv'
<1> DEFINE last == IF server.up THEN Expired(timers) ELSE Len(timers)
           due == {timers[n].id : n \in 1 .. last}
           K(who) == Callback(ops[who], Reply(who, Nothing, <<>>))
           next == [who \in due |-> K(who)]
<1>1. /\ ops' = [who \in Ids |-> IF who \in due THEN next[who].op ELSE ops[who]]
      /\ requests' = requests \cup {who \in due : next[who].ask}
      /\ timers' = SubSeq(timers, last + 1, Len(timers))
      /\ server' = server
  BY DEF Expire
<1>2. /\ ops \in [Ids -> Op] /\ requests \in SUBSET Ids /\ Timers(timers) /\ server \in Server
      /\ Len(timers) \in Nat
  BY DEF UnifiedInv, Types, Timers
<1>3. last \in 0 .. Len(timers)
  BY <1>2, ExpiredFacts
<1> HIDE DEF last
<1>4. Timers(timers') /\ Timed(timers') = Timed(timers) \ due
  BY <1>1, <1>2, <1>3, DropFacts
<1>5. due \subseteq Timed(timers) /\ due \subseteq Ids
  <2> SUFFICES ASSUME NEW n \in 1 .. last PROVE timers[n].id \in Timed(timers) /\ timers[n].id \in Ids
    OBVIOUS
  <2>1. n \in 1 .. Len(timers)
    BY <1>2, <1>3
  <2>2. timers[n] \in Timer
    BY <1>2, <2>1 DEF Timers
  <2> QED  BY <2>1, <2>2 DEF Timed, Timer
<1> HIDE DEF due
<1>6. ASSUME NEW who \in due
      PROVE  /\ (who \in server.dirs) = FALSE /\ K(who).ask \in BOOLEAN /\ who \notin requests
             /\ Fits(K(who).op, K(who).ask, FALSE, FALSE, server.at[who], server.asked[who],
                     who \in server.running)
  <2>1. who \in Ids /\ who \in Timed(timers)
    BY <1>5, <1>6
  <2>2. (who \in requests) = FALSE /\ (who \in Timed(timers)) = TRUE
    BY <2>1, WaitingFacts
  <2>3. Fits(ops[who], who \in requests, who \in Timed(timers), who \in server.dirs, server.at[who],
             server.asked[who], who \in server.running)
    BY <2>1 DEF UnifiedInv, FitsAll
  <2>4. Fits(ops[who], FALSE, TRUE, who \in server.dirs, server.at[who], server.asked[who],
             who \in server.running)
    BY <2>2, <2>3, Zenon
  <2>5. Reply(who, Nothing, <<>>).err = Nothing
    BY DEF Reply
  <2> DEFINE r == Reply(who, Nothing, <<>>)
             at == server.at[who]
             asked == server.asked[who]
             dir == who \in server.dirs
             run == who \in server.running
             op == ops[who]
  <2>6. /\ ~dir /\ Callback(op, r).ask \in BOOLEAN
        /\ Fits(Callback(op, r).op, Callback(op, r).ask, FALSE, FALSE, at, asked, run)
    <3> HIDE DEF r, at, asked, dir, run, op
    <3>1. Fits(op, FALSE, TRUE, dir, at, asked, run) /\ r.err = Nothing
      BY <2>4, <2>5 DEF r, at, asked, dir, run, op
    <3> QED  BY <3>1, TimerFacts
  <2>7. (who \in server.dirs) = FALSE /\ who \notin requests
    BY <2>2, <2>6
  <2> QED  BY <2>6, <2>7, Zenon
<1>7. \A who \in due : next[who] = K(who)
  OBVIOUS
<1> HIDE DEF K, next
<1>8. ASSUME NEW who \in Ids
      PROVE  Fits(ops'[who], who \in requests', who \in Timed(timers'), who \in server'.dirs,
                  server'.at[who], server'.asked[who], who \in server'.running)
  <2>1. CASE who \in due
    <3>1. ops'[who] = K(who).op
      BY <1>1, <1>7, <2>1
    <3>2. (who \in requests') = K(who).ask
      <4>1. K(who).ask \in BOOLEAN /\ who \notin requests
        BY <1>6, <2>1
      <4>2. who \in requests' <=> next[who].ask
        BY <1>1, <2>1, <4>1
      <4>3. next[who].ask = K(who).ask
        BY <1>7, <2>1
      <4> QED  BY <4>1, <4>2, <4>3
    <3>3. (who \in Timed(timers')) = FALSE /\ (who \in server'.dirs) = FALSE
      <4>1. (who \in Timed(timers')) = FALSE
        BY <1>4, <2>1
      <4>2. (who \in server.dirs) = FALSE
        BY <1>6, <2>1, Zenon
      <4> QED  BY <1>1, <4>1, <4>2, Zenon
    <3>4. Fits(K(who).op, K(who).ask, FALSE, FALSE, server.at[who], server.asked[who],
               who \in server.running)
      BY <1>6, <2>1, Zenon
    <3> QED  BY <1>1, <3>1, <3>2, <3>3, <3>4, Zenon
  <2>2. CASE who \notin due
    <3>1. ops'[who] = ops[who] /\ (who \in requests') = (who \in requests)
      BY <1>1, <2>2
    <3>2. (who \in Timed(timers')) = (who \in Timed(timers))
      BY <1>4, <2>2
    <3>3. Fits(ops[who], who \in requests, who \in Timed(timers), who \in server.dirs, server.at[who],
               server.asked[who], who \in server.running)
      BY DEF UnifiedInv, FitsAll
    <3> QED  BY <1>1, <3>1, <3>2, <3>3, Zenon
  <2> QED  BY <2>1, <2>2
<1>9. ops' \in [Ids -> Op] /\ requests' \in SUBSET Ids
  <2>1. \A who \in due : K(who).op \in Op
    BY <1>6, Zenon DEF Fits
  <2>2. \A who \in Ids : (IF who \in due THEN next[who].op ELSE ops[who]) \in Op
    BY <1>2, <1>7, <2>1
  <2> QED  BY <1>1, <1>2, <1>5, <2>2
<1>10. server' \in Server
  BY <1>1, <1>2
<1> QED  BY <1>4, <1>8, <1>9, <1>10, Zenon DEF UnifiedInv, Types, FitsAll

\* Time passes: what an operation waits for and has come to stays.
LEMMA TimePassesKeeps ==
    ASSUME UnifiedInv, TimePasses
    PROVE  UnifiedInv'
<1> DEFINE O(who) == IF Running(who) /\ ops[who].timeout > 0
                    THEN [ops[who] EXCEPT !.timeout = ops[who].timeout - 1] ELSE ops[who]
           T(n) == IF timers[n].left > 0 THEN [timers[n] EXCEPT !.left = timers[n].left - 1] ELSE timers[n]
<1>1. /\ ops' = [who \in Ids |-> O(who)] /\ timers' = [n \in 1 .. Len(timers) |-> T(n)]
      /\ requests' = requests /\ server' = server
  BY DEF TimePasses
<1>2. /\ ops \in [Ids -> Op] /\ requests \in SUBSET Ids /\ Timers(timers) /\ server \in Server
      /\ timers \in Seq(Timer) /\ Len(timers) \in Nat
  BY DEF UnifiedInv, Types, Timers
<1>3. \A n \in 1 .. Len(timers) : T(n) \in Timer /\ T(n).id = timers[n].id
  <2> SUFFICES ASSUME NEW n \in 1 .. Len(timers) PROVE T(n) \in Timer /\ T(n).id = timers[n].id
    OBVIOUS
  <2> DEFINE t == timers[n]
  <2>1. t \in Timer
    BY <1>2
  <2> HIDE DEF t
  <2>2. IF t.left > 0 THEN t.left - 1 \in Nat ELSE TRUE
    BY <2>1 DEF Timer
  <2>3. /\ (IF t.left > 0 THEN [t EXCEPT !.left = t.left - 1] ELSE t) \in Timer
        /\ (IF t.left > 0 THEN [t EXCEPT !.left = t.left - 1] ELSE t).id = t.id
    BY <2>1, <2>2 DEF Timer
  <2> QED  BY <2>3 DEF t
<1> HIDE DEF T
<1>4. Timers(timers') /\ Timed(timers') = Timed(timers)
  <2>1. timers' \in Seq(Timer) /\ Len(timers') = Len(timers)
    BY <1>1, <1>2, <1>3
  <2>2. \A n \in 1 .. Len(timers) : timers'[n].id = timers[n].id
    BY <1>1, <1>3
  <2> QED  BY <1>2, <2>1, <2>2, PassFacts
<1>5. ASSUME NEW who \in Ids
      PROVE  Fits(ops'[who], who \in requests', who \in Timed(timers'), who \in server'.dirs,
                  server'.at[who], server'.asked[who], who \in server'.running)
  <2>1. Fits(ops[who], who \in requests, who \in Timed(timers), who \in server.dirs, server.at[who],
             server.asked[who], who \in server.running)
    BY DEF UnifiedInv, FitsAll
  <2> DEFINE op == ops[who]
             o == O(who)
  <2>2. Fits(o, who \in requests, who \in Timed(timers), who \in server.dirs, server.at[who],
             server.asked[who], who \in server.running)
    <3>1. CASE Running(who) /\ op.timeout > 0
      <4>1. op \in Op /\ op.called = 0
        BY <1>2, <3>1 DEF Running
      <4>2. o = [op EXCEPT !.timeout = op.timeout - 1] /\ op.timeout - 1 \in Nat
        BY <3>1, <4>1 DEF Op
      <4>3. /\ o \in Op /\ o.cmd = op.cmd /\ o.size = op.size /\ o.asked = op.asked
            /\ o.index = op.index /\ o.delay = op.delay /\ o.list = op.list /\ o.err = op.err
            /\ o.called = op.called /\ o.result = op.result /\ o.called # 1
        BY <4>1, <4>2 DEF Op
      <4> HIDE DEF o
      <4>4. Live(o) <=> Live(op)
        BY <4>3 DEF Live
      <4>5. /\ Waits(op, who \in requests, who \in Timed(timers))
            /\ Lists(op, who \in server.dirs, server.at[who]) /\ Asks(op, server.asked[who])
        BY <2>1, Zenon DEF Fits
      <4>6. Waits(o, who \in requests, who \in Timed(timers))
        BY <4>3, <4>4, <4>5, Zenon DEF Waits
      <4>7. Lists(o, who \in server.dirs, server.at[who])
        BY <4>3, <4>4, <4>5, Zenon DEF Lists
      <4>8. Asks(o, server.asked[who])
        BY <4>3, <4>4, <4>5, Zenon DEF Asks
      <4>9. Stops(o, who \in server.running)
        BY <4>3, Zenon DEF Stops
      <4> QED  BY <4>3, <4>6, <4>7, <4>8, <4>9, Zenon DEF Fits
    <3>2. CASE ~(Running(who) /\ op.timeout > 0)
      <4>1. o = op
        BY <3>2
      <4> QED  BY <2>1, <4>1
    <3> QED  BY <3>1, <3>2
  <2>3. ops'[who] = o
    BY <1>1
  <2> HIDE DEF o
  <2> QED  BY <1>1, <1>4, <2>2, <2>3, Zenon
<1>6. ops' \in [Ids -> Op]
  <2>1. \A who \in Ids : ops'[who] \in Op
    BY <1>5, Zenon DEF Fits
  <2> HIDE DEF O
  <2> QED  BY <1>1, <2>1
<1> QED  BY <1>1, <1>2, <1>4, <1>5, <1>6, Zenon DEF UnifiedInv, Types, FitsAll
\* A task stops: fewer tasks run, and none that was reported as running still.
LEMMA TaskStopsKeeps ==
    ASSUME UnifiedInv, NEW who \in Ids, TaskStops(who)
    PROVE  UnifiedInv'
<1>1. /\ ops' = ops /\ requests' = requests /\ timers' = timers
      /\ server' = [server EXCEPT !.running = server.running \ {who}]
  BY DEF TaskStops
<1>2. Types
  BY DEF UnifiedInv
<1>3. /\ server' \in Server /\ server'.dirs = server.dirs /\ server'.at = server.at
      /\ server'.asked = server.asked /\ server'.running = server.running \ {who}
  BY <1>1, <1>2 DEF Types, Server
<1>4. ASSUME NEW x \in Ids
      PROVE  Fits(ops[x], x \in requests, x \in Timed(timers), x \in server.dirs, server.at[x],
                  server.asked[x], x \in server'.running)
  <2>1. Fits(ops[x], x \in requests, x \in Timed(timers), x \in server.dirs, server.at[x],
             server.asked[x], x \in server.running)
    BY DEF UnifiedInv, FitsAll
  <2>2. x \in server'.running => x \in server.running
    BY <1>3
  <2> QED  BY <2>1, <2>2, Zenon DEF Fits, Stops
<1> QED  BY <1>1, <1>2, <1>3, <1>4, Zenon DEF UnifiedInv, Types, FitsAll

\* The connection is lost, and no directory is open any more, or is made.
LEMMA ConnectionKeeps ==
    ASSUME UnifiedInv, Lose \/ Connect
    PROVE  UnifiedInv'
<1>1. ops' = ops /\ requests' = requests /\ timers' = timers
  BY DEF Lose, Connect
<1>2. Types
  BY DEF UnifiedInv
<1>3. /\ server' \in Server /\ server'.at = server.at /\ server'.asked = server.asked
      /\ server'.running = server.running /\ server'.dirs \in {server.dirs, {}}
  <2>1. CASE Lose
    <3>1. server' = [server EXCEPT !.up = FALSE, !.dirs = {}, !.faults = server.faults + 1]
      BY <1>2, <2>1 DEF Lose, Fault, Types, Server
    <3>2. server \in Server /\ server.faults + 1 \in Nat
      BY <1>2 DEF Types, Server
    <3>3. server' \in Server
      BY <3>1, <3>2 DEF Server
    <3>4. /\ server'.at = server.at /\ server'.asked = server.asked /\ server'.dirs = {}
          /\ server'.running = server.running
      BY <3>1, <3>2 DEF Server
    <3> QED  BY <3>3, <3>4
  <2>2. CASE Connect
    <3>1. server' = [server EXCEPT !.up = TRUE]
      BY <2>2 DEF Connect
    <3>2. server \in Server
      BY <1>2 DEF Types
    <3>3. server' \in Server
      BY <3>1, <3>2 DEF Server
    <3>4. /\ server'.at = server.at /\ server'.asked = server.asked /\ server'.dirs = server.dirs
          /\ server'.running = server.running
      BY <3>1, <3>2 DEF Server
    <3> QED  BY <3>3, <3>4
  <2> QED  BY <2>1, <2>2
<1>4. ASSUME NEW x \in Ids
      PROVE  Fits(ops[x], x \in requests, x \in Timed(timers), x \in server'.dirs, server.at[x],
                  server.asked[x], x \in server.running)
  <2>1. Fits(ops[x], x \in requests, x \in Timed(timers), x \in server.dirs, server.at[x],
             server.asked[x], x \in server.running)
    BY DEF UnifiedInv, FitsAll
  <2>2. x \in server'.dirs => x \in server.dirs
    BY <1>3
  <2> QED  BY <2>1, <2>2, Zenon DEF Fits, Lists
<1> QED  BY <1>1, <1>2, <1>3, <1>4, Zenon DEF UnifiedInv, Types, FitsAll

\* At first nothing runs.
LEMMA InitFits ==
    ASSUME UnifiedParameters, UnifiedInit
    PROVE  UnifiedInv
<1>1. /\ Unused \in Op /\ Unused.cmd = Nothing /\ Unused.called = 0 /\ Unused.result = Nothing
  <2>1. <<>> \in Contents
    BY DEF Contents
  <2>2. Nothing \in Requests /\ Nothing \in Errors
    BY DEF Requests, Errors
  <2> QED  BY <2>1, <2>2 DEF Unused, Op
<1>2. /\ ops \in [Ids -> Op] /\ requests = {} /\ timers = <<>> /\ server \in Server
      /\ server.dirs = {} /\ \A who \in Ids : ops[who] = Unused
  BY <1>1 DEF UnifiedInit, Server
<1>3. Timers(timers) /\ Timed(timers) = {}
  BY <1>2 DEF Timers, Timed, Unique
<1>4. ASSUME NEW at, NEW asked, NEW run PROVE Fits(Unused, FALSE, FALSE, FALSE, at, asked, run)
  <2>1. Nothing \notin {"list", "tasks", "stop", "start"} /\ Unused.called # 1
    BY <1>1 DEF Nothing
  <2>2. Waits(Unused, FALSE, FALSE)
    BY <1>1 DEF Waits, Live
  <2>3. Lists(Unused, FALSE, at) /\ Asks(Unused, asked) /\ Stops(Unused, run)
    BY <1>1, <2>1 DEF Lists, Asks, Stops, Live
  <2> QED  BY <1>1, <2>2, <2>3 DEF Fits
<1>5. ASSUME NEW who \in Ids
      PROVE  Fits(ops[who], who \in requests, who \in Timed(timers), who \in server.dirs, server.at[who],
                  server.asked[who], who \in server.running)
  <2>1. /\ ops[who] = Unused /\ (who \in requests) = FALSE /\ (who \in Timed(timers)) = FALSE
        /\ (who \in server.dirs) = FALSE
    BY <1>2, <1>3
  <2>2. Fits(Unused, FALSE, FALSE, FALSE, server.at[who], server.asked[who], who \in server.running)
    BY <1>4, Zenon
  <2> QED  BY <2>1, <2>2, Zenon
<1>6. requests \in SUBSET Ids
  BY <1>2
<1> QED  BY <1>2, <1>3, <1>5, <1>6, Zenon DEF UnifiedInv, Types, FitsAll

\* The invariant says that an operation waits for one thing and is called back
\* once, with no directory left open.
LEMMA InvOnce ==
    ASSUME UnifiedInv
    PROVE  OnceAndClean
<1> SUFFICES ASSUME NEW who \in Ids
             PROVE  LET waiting == {n \in 1 .. Len(timers) : timers[n].id = who} IN
                    /\ ops[who].called <= 1
                    /\ Running(who) => (who \in requests <=> waiting = {}) /\ \A m, n \in waiting : m = n
                    /\ ~Running(who) => who \notin requests \cup server.dirs /\ waiting = {}
  BY DEF OnceAndClean
<1> DEFINE waiting == {n \in 1 .. Len(timers) : timers[n].id = who}
<1>1. waiting = {} <=> who \notin Timed(timers)
  BY DEF Timed
<1>2. \A m, n \in waiting : m = n
  BY DEF UnifiedInv, Types, Timers, Unique
<1>3. Fits(ops[who], who \in requests, who \in Timed(timers), who \in server.dirs, server.at[who],
           server.asked[who], who \in server.running)
  BY DEF UnifiedInv, FitsAll
<1>4. Waits(ops[who], who \in requests, who \in Timed(timers))
  BY <1>3, Zenon DEF Fits
<1>5. ops[who].called \in {0, 1} /\ (Live(ops[who]) => (who \in requests <=> who \notin Timed(timers)))
  BY <1>4, Zenon DEF Waits
<1>6. Running(who) <=> Live(ops[who])
  BY DEF Running, Live
<1>7. ops[who].called <= 1
  BY <1>5
<1>8. ~Running(who) => who \notin requests /\ who \notin Timed(timers) /\ who \notin server.dirs
  BY WaitingFacts
<1> HIDE DEF waiting
<1>9. Running(who) => (who \in requests <=> waiting = {})
  BY <1>1, <1>5, <1>6, Zenon
<1> QED  BY <1>1, <1>2, <1>7, <1>8, <1>9 DEF waiting

\* It says that what an operation reports is so.
LEMMA InvReports ==
    ASSUME UnifiedInv
    PROVE  Reports
<1> SUFFICES ASSUME NEW who \in Ids
             PROVE  LET op == ops[who] IN
                    /\ op.cmd = "list" /\ op.result = Nothing /\ op.called = 1 => op.list = Sorted(Entries)
                    /\ op.cmd = "list" /\ op.result = "many" => Len(Entries) > op.size
                    /\ op.cmd = "tasks" /\ op.result = Nothing /\ op.called = 1 =>
                         server.asked[who] = 1 .. (IF Era THEN 1 ELSE Drives)
                    /\ op.cmd = "stop" /\ op.result = Nothing /\ op.called = 1 =>
                         who \notin server.running \/ op.timeout = 0
  BY DEF Reports
<1>1. Fits(ops[who], who \in requests, who \in Timed(timers), who \in server.dirs, server.at[who],
           server.asked[who], who \in server.running)
  BY DEF UnifiedInv, FitsAll
<1>2. /\ Lists(ops[who], who \in server.dirs, server.at[who]) /\ Asks(ops[who], server.asked[who])
      /\ Stops(ops[who], who \in server.running)
      /\ Waits(ops[who], who \in requests, who \in Timed(timers))
  BY <1>1, Zenon DEF Fits
<1>3. ops[who].cmd = "tasks" /\ ops[who].result = Nothing /\ ops[who].called = 1 =>
        server.asked[who] = 1 .. (IF Era THEN 1 ELSE Drives)
  BY <1>2, Zenon DEF Asks
<1>4. ops[who].cmd = "stop" /\ ops[who].result = Nothing /\ ops[who].called = 1 =>
        who \notin server.running \/ ops[who].timeout = 0
  BY <1>2, Zenon DEF Stops
<1>5. ops[who].cmd = "list" /\ ops[who].result = Nothing /\ ops[who].called = 1 =>
        ops[who].list = Sorted(Entries)
  BY <1>2, Zenon DEF Lists
<1>6. ops[who].cmd = "list" /\ ops[who].result = "many" => Len(Entries) > ops[who].size
  <2>1. ops[who].result = "many" => ops[who].called = 1
    <3>1. ops[who].called \in {0, 1} /\ (ops[who].called = 0 => ops[who].result = Nothing)
      BY <1>2, Zenon DEF Waits
    <3> QED  BY <3>1 DEF Nothing
  <2>2. ops[who].cmd = "list" /\ ops[who].called = 1 /\ ops[who].result = "many" =>
          Len(Entries) > ops[who].size
    BY <1>2, Zenon DEF Lists
  <2> QED  BY <2>1, <2>2
<1> QED  BY <1>3, <1>4, <1>5, <1>6

-----------------------------------------------------------------------------
(* The theorems *)

\* What each operation of unified.c waits for and how far it has come fits what the
\* servers and the timers know of it, through every interleaving of operations,
\* replies, errors, timers and losses of the connection.
THEOREM UnifiedInvariant ==
    ASSUME UnifiedParameters
    PROVE  UnifiedSpec => []UnifiedInv
<1>1. UnifiedInit => UnifiedInv
  BY InitFits
<1>2. UnifiedInv /\ [UnifiedNext]_uvars => UnifiedInv'
  <2> SUFFICES ASSUME UnifiedInv, [UnifiedNext]_uvars PROVE UnifiedInv'
    OBVIOUS
  <2>1. CASE \E who \in Ids : UnifiedBack(who)
    BY <2>1, BackKeeps
  <2>2. CASE \E who \in Ids : Answer(who)
    BY <2>2, AnswerKeeps
  <2>3. CASE \E who \in Ids : TaskStops(who)
    BY <2>3, TaskStopsKeeps
  <2>4. CASE Expire
    BY <2>4, ExpireKeeps
  <2>5. CASE TimePasses
    BY <2>5, TimePassesKeeps
  <2>6. CASE Lose \/ Connect
    BY <2>6, ConnectionKeeps
  <2>7. CASE UNCHANGED uvars
    <3>1. ops' = ops /\ requests' = requests /\ timers' = timers /\ server' = server
      BY <2>7 DEF uvars
    <3> QED  BY <3>1 DEF UnifiedInv, Types, FitsAll
  <2> QED  BY <2>1, <2>2, <2>3, <2>4, <2>5, <2>6, <2>7 DEF UnifiedNext
<1> QED  BY <1>1, <1>2, PTL DEF UnifiedSpec

\* Every operation of unified.c is called back at most once and waits for one reply
\* or one timer until then (unified_done, unified_callback); it leaves no directory
\* open and no timer behind; a listing without error is the directory, sorted; all
\* drives were asked for tasks; a task that was stopped is gone or its time is up.
THEOREM UnifiedSafe ==
    ASSUME UnifiedParameters
    PROVE  UnifiedSpec => []UnifiedOK
<1>1. UnifiedInv => UnifiedOK
  BY InvOnce, InvReports DEF UnifiedOK
<1> QED  BY <1>1, UnifiedInvariant, PTL
=============================================================================
