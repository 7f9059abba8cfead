------------------------------- MODULE Entry -------------------------------
(***************************************************************************)
(* The filing system entry points (fsentry.c), each a sequence of the      *)
(* foreground calls of fs.c, on the queue of the directory cache           *)
(* (cache_fore, cache_back and cache_process of cache.c).                  *)
(*                                                                         *)
(* fs.c has one static command block.  The queue holds pointers to it, and *)
(* cache_process looks at what the block says when it comes to an          *)
(* operation, not at what it said when the operation was queued.  A call   *)
(* that Escape ends leaves its operation in the queue.                     *)
(***************************************************************************)
EXTENDS Integers, Sequences, FiniteSets

CONSTANTS
    SearchLengths,  \* how many drives a search for a disc name tries
    EscapeMax,      \* bound of the Escapes
    OthersMax       \* bound of the operations that others have queued at a time

VARIABLES
    entry,          \* the entry point that runs, or NoEntry
    fore,           \* fs_cmd.op, cache_fore_done and cache_fore_err
    queue,          \* cache_pending_head to cache_pending_tail
    last,           \* what the last entry point reported, until the next starts
    escapes

evars == <<entry, fore, queue, last, escapes>>

EntryParameters == SearchLengths \subseteq Nat /\ EscapeMax \in Nat /\ OthersMax \in Nat

-----------------------------------------------------------------------------
(* What the entry points ask of the cache.  An error of a "must" ends the  *)
(* entry point, one of a "try" does not matter, and an "always" follows an *)
(* open file whatever happens.                                             *)

Must(op) == <<[op |-> op, kind |-> "must"]>>
Try(op) == <<[op |-> op, kind |-> "try"]>>
Always(op) == <<[op |-> op, kind |-> "always"]>>

\* fs_internal_drive with a disc name instead of a letter: drives to try.
Searches == {[i \in 1 .. n |-> Try("drive")[1]] : n \in SearchLengths}

\* fs_internal_name, with one directory to canonicalise, and
\* fs_internal_name_resolve, which then reads the object.
Drive == {Must("drive")} \cup Searches
Name == {d \o Must("info") : d \in Drive}
Resolve == {n \o Must("info") : n \in Name}

\* The plans p followed by each of the plans of q
Follow(p, q) == {a \o b : a \in p, b \in q}

\* What follows an object that was read as it was (found, buffered and so on)
OpenPlans == Follow(Resolve, {Must("open"), Must("open") \o Must("args")})
BytesPlans ==
    {Must("args") \o p : p \in
        {<<>>} \cup {Must(op) \o s : op \in {"read", "write"}, s \in {<<>>, Must("sequential")}}}
ArgsPlans ==
    {Must("args") \o p : p \in
        {<<>>, Must("sequential"), Must("extent"), Must("extent") \o Must("args"), Must("zero")}}
    \cup Follow({Must("args"), Must("args") \o Must("flush")}, Resolve)
ClosePlans == {Must("args") \o s \o Must("close") : s \in {<<>>, Must("stamp")}}
CreatePlans ==
    LET make(access) == Must("open") \o Must("stamp") \o Must("extent") \o access \o Always("close")
    IN {make(<<>>), Must("remove") \o make(Must("access"))}
FilePlans ==
    Follow(Resolve,
           {<<>>, Must("access"), Must("stamp"), Must("access") \o Must("stamp"), Must("remove"),
            Must("mkdir") \o Try("stamp")}
           \cup CreatePlans)
FuncPlans ==
    Follow(Resolve,
           Follow(Name, {Must("rename")}) \cup {Must("enumerate") \o Must("enumerate")}
           \cup {Must("drive"), Must("name")})
    \cup Follow(Drive, {Must("drive")})

EntryPlans ==
    OpenPlans \cup BytesPlans \cup ArgsPlans \cup ClosePlans \cup FilePlans \cup FuncPlans

-----------------------------------------------------------------------------
\* The plan; the step that is next; whether that step is waiting for its
\* operation (in cache_fore); the error; what was asked of the cache last and
\* what it did meanwhile; and whether an operation of an earlier entry point was
\* still queued at the start.
Unsent == "unsent"
NoOp == "none"

NoEntry == [plan |-> <<>>, at |-> 0, waiting |-> FALSE, error |-> FALSE,
            asked |-> NoOp, did |-> <<>>, clean |-> TRUE, escaped |-> FALSE]

\* An operation in the queue: is it cache_fore's, and what has been asked of the
\* remote for it.
Operation(mine) == [mine |-> mine, sent |-> Unsent]
Sent(o, op) == [o EXCEPT !.sent = IF o.mine THEN op ELSE "its own"]

EntryInit ==
    /\ entry = NoEntry
    /\ fore = [op |-> NoOp, done |-> FALSE, error |-> FALSE]
    /\ queue = <<>>
    /\ last = NoEntry
    /\ escapes = 0

\* Where cache_fore's operations are in a queue, and the n-th of some places
Mine(q) == {i \in 1 .. Len(q) : q[i].mine}
Nth(places, n) == CHOOSE i \in places : Cardinality(places \cap (1 .. i)) = n

\* The operations that the first k of a queue perform, when the command block
\* says op: what was asked of the remote has been done, and the rest is what
\* the block says now.
Performed(q, k, op) ==
    LET mine == Mine(q) \cap (1 .. k)
        does(i) == IF q[i].sent # Unsent THEN q[i].sent ELSE op
    IN [n \in 1 .. Cardinality(mine) |-> does(Nth(mine, n))]

\* cache_process: the first k operations of the queue end, and the next one
\* waits for the remote.  failed is whether the last of cache_fore's that ended
\* did so with an error: cache_fore_callback.
Process(q, f, k, failed) ==
    LET ended == Performed(q, k, f.op)
        rest == SubSeq(q, k + 1, Len(q))
    IN [queue |-> IF rest = <<>> \/ Head(rest).sent # Unsent THEN rest
                  ELSE <<Sent(Head(rest), f.op)>> \o Tail(rest),
        fore |-> IF ended = <<>> THEN f ELSE [f EXCEPT !.done = TRUE, !.error = failed],
        did |-> IF failed /\ ended # <<>> THEN SubSeq(ended, 1, Len(ended) - 1) ELSE ended]

\* How many operations may end now: none behind one that waits for the remote
\* (cache_pending_cmd) unless it is answered.
MayEnd(q, answered) == IF q # <<>> /\ Head(q).sent # Unsent /\ ~answered THEN {0} ELSE 0 .. Len(q)

\* An entry point starts (idle_start).
EnterCall(plan) ==
    /\ entry = NoEntry
    /\ entry' = [NoEntry EXCEPT !.plan = plan, !.at = 1,
                                !.clean = Mine(queue) = {}]
    /\ last' = NoEntry
    /\ UNCHANGED <<fore, queue, escapes>>

\* What was done is noted when no operation but the entry point's own does it.
Noted(e, did) == IF e.clean THEN [e EXCEPT !.did = @ \o did] ELSE e

ForeKeepsDone ==    \* mutant: cache_fore_done is not cleared
    /\ entry.at \in 1 .. Len(entry.plan) /\ ~entry.waiting
    /\ LET asked == [fore EXCEPT !.op = entry.plan[entry.at].op]
           q == Append(queue, Operation(TRUE))
       IN \E k \in MayEnd(q, FALSE), failed \in BOOLEAN :
            LET p == Process(q, asked, k, failed)
            IN /\ queue' = p.queue
               /\ fore' = p.fore
               /\ entry' = [Noted(entry, p.did) EXCEPT !.waiting = TRUE, !.asked = asked.op]
    /\ UNCHANGED <<last, escapes>>

\* cache_fore and cache_back: the block is filled in and the operation queued.
Fore ==
    /\ entry.at \in 1 .. Len(entry.plan) /\ ~entry.waiting
    /\ LET asked == [fore EXCEPT !.op = entry.plan[entry.at].op, !.done = FALSE]
           q == Append(queue, Operation(TRUE))
       IN \E k \in MayEnd(q, FALSE), failed \in BOOLEAN :
            LET p == Process(q, asked, k, failed)
            IN /\ queue' = p.queue
               /\ fore' = p.fore
               /\ entry' = [Noted(entry, p.did) EXCEPT !.waiting = TRUE, !.asked = asked.op]
    /\ UNCHANGED <<last, escapes>>

\* What is left to do of a plan after an error at a step: a file that was opened
\* before it is closed.
Remaining(plan, at) ==
    LET closes == {i \in at + 1 .. Len(plan) :
                     plan[i].kind = "always" /\ \E j \in 1 .. at - 1 : plan[j].op = "open"}
    IN IF closes = {} THEN Len(plan) + 1 ELSE CHOOSE i \in closes : TRUE

\* A call of cache_fore returns.
CallReturned(e, error) ==
    LET matters == error /\ e.plan[e.at].kind = "must"
    IN [e EXCEPT !.waiting = FALSE, !.error = @ \/ matters,
                 !.at = IF matters THEN Remaining(e.plan, e.at) ELSE @ + 1]

\* cache_fore's loop has nothing to wait for.
ForeReturns ==
    /\ entry.waiting /\ fore.done
    /\ entry' = CallReturned(entry, fore.error)
    /\ UNCHANGED <<fore, queue, last, escapes>>

\* link_poll in cache_fore's loop: an answer of the remote, and maybe Escape.
ForePolls(escape) ==
    /\ entry.waiting /\ ~fore.done
    /\ \E k \in MayEnd(queue, TRUE), failed \in BOOLEAN :
         LET p == Process(queue, fore, k, failed)
             e == Noted(entry, p.did)
         IN /\ k > 0 \/ escape
            /\ queue' = p.queue
            /\ fore' = p.fore
            /\ entry' = IF escape THEN [CallReturned(e, TRUE) EXCEPT !.escaped = TRUE] ELSE e
    /\ escapes' = IF escape THEN escapes + 1 ELSE escapes
    /\ UNCHANGED last

\* The entry point ends (idle_end).
EntryReturns ==
    /\ entry.at > Len(entry.plan)
    /\ last' = entry
    /\ entry' = NoEntry
    /\ UNCHANGED <<fore, queue, escapes>>

\* link_poll from the callback: what is left in the queue goes on.
CallbackPolls ==
    /\ entry = NoEntry
    /\ \E k \in MayEnd(queue, TRUE) \ {0}, failed \in BOOLEAN :
         LET p == Process(queue, fore, k, failed)
         IN queue' = p.queue /\ fore' = p.fore
    /\ UNCHANGED <<entry, last, escapes>>

\* cache_back for another part of the module, with a block of its own
OtherBack ==
    /\ Cardinality((1 .. Len(queue)) \ Mine(queue)) < OthersMax
    /\ queue' = Process(Append(queue, Operation(FALSE)), fore, 0, FALSE).queue
    /\ UNCHANGED <<entry, fore, last, escapes>>

EntryStep == Fore \/ ForeReturns \/ ForePolls(FALSE) \/ EntryReturns

EntryNext ==
    \/ \E plan \in EntryPlans : EnterCall(plan)
    \/ EntryStep
    \/ escapes < EscapeMax /\ ForePolls(TRUE)
    \/ CallbackPolls
    \/ OtherBack

EntrySpec == EntryInit /\ [][EntryNext]_evars

\* The remote answers, or the link ends, which is an error of the operation; the
\* entry point and the callback go on.
EntryFairness == WF_evars(EntryStep) /\ WF_evars(CallbackPolls)

-----------------------------------------------------------------------------
\* Steps of a plan that were done: all that must be, up to the step upto, each
\* once and in order.
DoneUpTo(e, upto) ==
    \E done \in SUBSET (1 .. upto) :
        /\ \A i \in 1 .. upto : e.plan[i].kind = "must" => i \in done
        /\ Len(e.did) = Cardinality(done)
        /\ \A i \in done : e.did[Cardinality(done \cap (1 .. i))] = e.plan[i].op

\* An entry point that begins when nothing of an earlier one is queued and that
\* is not ended by Escape has, when it reports success, had the cache do all of
\* its plan once and in order; and it closes a file that it opened only to
\* create it (cache_fore, fs.c, fsentry.c).
EntryOK ==
    (last.clean /\ ~last.escaped) =>
        /\ ~last.error => DoneUpTo(last, Len(last.plan))
        /\ \A i \in 1 .. Len(last.plan), k \in 1 .. Len(last.did) :
             last.plan[i].kind = "always" /\ last.did[k] = "open"
                => last.asked = "close"

Running == entry # NoEntry
LeftQueued == queue # <<>> /\ ~Running

\* An entry point ends, and so does what Escape left in the queue (cache_fore).
EntryEnds == (Running ~> ~Running) /\ (LeftQueued ~> ~LeftQueued)
=============================================================================
