------------------------------- MODULE Share -------------------------------
(***************************************************************************)
(* One server channel shared by any number of background operations,       *)
(* src/src/share.c, with the channel handler that owns it (rfsv32.c, and   *)
(* rfsv16.c and ncp.c, whose replies carry no number).                     *)
(*                                                                         *)
(* All of it runs inside link_poll, one event of the multiplexor at a      *)
(* time, but the callback of an operation is arbitrary code that runs in   *)
(* the middle of an event: it may queue another operation and may even     *)
(* close the channel it is called from.  calls is the stack of callbacks   *)
(* in progress, and an event goes on when its callback returns.  The       *)
(* remote server answers requests in order, at any time or never.          *)
(*                                                                         *)
(* share_fore is left out: nothing in the module calls it.                 *)
(***************************************************************************)
EXTENDS Naturals, Sequences, FiniteSets

CONSTANTS
    Ops,        \* the operations, each queued once
    IdMax,      \* RFSV32_MAX_ID, 16r ffff in the code
    Numbered,   \* do replies carry the number of the request: not in rfsv16.c
                \* and ncp.c
    CallbackMayFail,  \* may a callback return an error
    None        \* no operation

ASSUME NoneAssumption == None \notin Ops
ASSUME IdAssumption == IdMax \in Nat
ASSUME OptionsAssumption == Numbered \in BOOLEAN /\ CallbackMayFail \in BOOLEAN

VARIABLES
    linked,     \* the block is on share_handle_list
    handle,     \* the channel's variable holds the block
    allocated,  \* the block has not been returned by MEM_FREE
    threads,    \* handle->threads
    pending,    \* handle->pending
    active,     \* handle->active
    timer,      \* handle->timeout_started, and whether the timeout passed
    closing,    \* share_destroy is in its loop
    calls,      \* the callbacks in progress, innermost last
    result,     \* what each operation's callback was last given
    called,     \* how often its callback was called
    id,         \* rfsv32_id
    wire        \* the requests the server has not answered, oldest first

queue == <<pending, active, timer>>
block == <<linked, handle, allocated>>
vars == <<linked, handle, allocated, threads, pending, active, timer, closing,
          calls, result, called, id, wire>>

Result == {"none", "ok", "send", "timeout", "reply", "closed"}
By == {"idle", "data", "destroy"}
Request == [op : Ops, id : 0 .. IdMax]

TypeOK ==
    /\ linked \in BOOLEAN /\ handle \in BOOLEAN /\ allocated \in BOOLEAN
    /\ threads \in Nat
    /\ pending \in Seq(Ops)
    /\ active \in Ops \cup {None}
    /\ timer \in {"off", "running", "due"}
    /\ closing \in BOOLEAN
    /\ calls \in Seq([op : Ops, by : By])
    /\ result \in [Ops -> Result]
    /\ called \in [Ops -> Nat]
    /\ id \in 0 .. IdMax
    /\ wire \in Seq(Request)

Init ==
    /\ linked = FALSE /\ handle = FALSE /\ allocated = FALSE /\ threads = 0
    /\ pending = <<>> /\ active = None /\ timer = "off" /\ closing = FALSE
    /\ calls = <<>>
    /\ result = [o \in Ops |-> "none"] /\ called = [o \in Ops |-> 0]
    /\ id = 0 /\ wire = <<>>

Top == calls[Len(calls)]
InCallback == calls # <<>>

\* Between events nothing is on the stack; in one, a callback has control
\* unless it is waiting for the share_destroy it called.
Quiescent == ~InCallback /\ ~closing
HasControl == InCallback /\ (closing => Top.by = "destroy")

NextIdLate == IF id <= IdMax THEN id + 1 ELSE 0              \* mutant
NextId == IF id < IdMax THEN id + 1 ELSE 0

----------------------------------------------------------------------------
(* share_call_callback, up to the call, and what follows its return.       *)

CallKeepsActive(o, r, by) ==                                 \* mutant
    /\ threads' = threads + 1
    /\ active' = o
    /\ calls' = Append(calls, [op |-> o, by |-> by])
    /\ result' = [result EXCEPT ![o] = r]
    /\ called' = [called EXCEPT ![o] = @ + 1]

Call(o, r, by) ==
    /\ threads' = threads + 1
    /\ active' = None
    /\ calls' = Append(calls, [op |-> o, by |-> by])
    /\ result' = [result EXCEPT ![o] = r]
    /\ called' = [called EXCEPT ![o] = @ + 1]

\* share_tidy: only a block that is off the list and not in use is freed.
TidyCalled == allocated' = (allocated /\ linked)           \* mutant
Tidy == allocated' = (allocated /\ (linked \/ threads' # 0))

----------------------------------------------------------------------------
(* The events of the multiplexor.                                          *)

\* MUX_EVENT_SERVER_CONNECTED: share_create.
Create ==
    /\ Quiescent /\ ~handle
    /\ linked' = TRUE /\ handle' = TRUE /\ allocated' = TRUE
    /\ threads' = 0 /\ pending' = <<>> /\ active' = None
    /\ UNCHANGED <<timer, closing, calls, result, called, id, wire>>

\* The first part of share_poll_idle: time out the active operation.
StartTimeout ==
    /\ Quiescent /\ linked /\ active # None /\ timer = "off"
    /\ timer' = "running"
    /\ UNCHANGED <<block, threads, pending, active, closing, calls, result,
                   called, id, wire>>

TimeOut ==
    /\ Quiescent /\ linked /\ active # None /\ timer = "due"
    /\ Call(active, "timeout", "idle")
    /\ UNCHANGED <<block, pending, timer, closing, id, wire>>

\* The second part: start the next operation.  rfsv32_send takes a number
\* before it can fail.
Begin ==
    /\ Quiescent /\ linked /\ active = None /\ pending # <<>>
    /\ pending' = Tail(pending)
    /\ timer' = "off"
    /\ id' = NextId

Send ==
    /\ Begin
    /\ active' = Head(pending)
    /\ wire' = Append(wire, [op |-> Head(pending), id |-> id'])
    /\ UNCHANGED <<block, threads, closing, calls, result, called>>

SendFails ==
    /\ Begin
    /\ Call(Head(pending), "send", "idle")
    /\ UNCHANGED <<block, closing, wire>>

\* MUX_EVENT_SERVER_DATA: share_poll_data gives the reply to the active
\* operation, whichever it is; rfsv32_receive turns away a reply whose
\* number is not the last one sent.
AcceptsAny(reply) == TRUE                                    \* mutant
Accepts(reply) == Numbered => reply.id = id

Data ==
    /\ Quiescent /\ linked /\ wire # <<>>
    /\ wire' = Tail(wire)
    /\ IF active = None
       THEN UNCHANGED <<threads, active, calls, result, called>>
       ELSE Call(active, IF Accepts(Head(wire)) THEN "ok" ELSE "reply", "data")
    /\ UNCHANGED <<block, pending, timer, closing, id>>

\* The channel closes, in an event or from inside a callback, and
\* share_destroy runs.  The requests not answered yet never will be.
Destroy ==
    /\ Quiescent \/ HasControl
    /\ linked
    /\ linked' = FALSE /\ closing' = TRUE /\ wire' = <<>>
    /\ UNCHANGED <<handle, allocated, threads, queue, calls, result, called, id>>

\* The loop of share_destroy, and its end.
Destroying == closing /\ (InCallback => Top.by # "destroy")

DestroyCallActive ==
    /\ Destroying /\ active # None
    /\ Call(active, "closed", "destroy")
    /\ UNCHANGED <<block, pending, timer, closing, id, wire>>

DestroyCallPending ==
    /\ Destroying /\ active = None /\ pending # <<>>
    /\ pending' = Tail(pending)
    /\ Call(Head(pending), "closed", "destroy")
    /\ UNCHANGED <<block, timer, closing, id, wire>>

DestroyDoneEarly ==                                          \* mutant
    /\ Destroying /\ active = None
    /\ closing' = FALSE
    /\ UNCHANGED threads /\ Tidy
    /\ handle' = FALSE
    /\ UNCHANGED <<linked, queue, calls, result, called, id, wire>>

DestroyDone ==
    /\ Destroying /\ active = None /\ pending = <<>>
    /\ closing' = FALSE
    /\ UNCHANGED threads /\ Tidy
    /\ handle' = FALSE
    /\ UNCHANGED <<linked, queue, calls, result, called, id, wire>>

----------------------------------------------------------------------------
(* The users of the channel.                                               *)

\* share_back, from a callback or between events: the operation goes to the
\* end of the queue, or is refused when the block is not on the list.
Back(o) ==
    /\ Quiescent \/ HasControl
    /\ linked /\ result[o] = "none" /\ called[o] = 0
    /\ o # active /\ \A i \in DOMAIN pending : pending[i] # o
    /\ pending' = Append(pending, o)
    /\ UNCHANGED <<block, threads, active, timer, closing, calls, result,
                   called, id, wire>>

\* A callback returns, and with it the event it was called from.  The loop of
\* share_destroy goes on whatever is returned; the other events end with
\* share_tidy unless it is an error.
ReturnDestroyed ==
    /\ HasControl /\ Top.by = "destroy"
    /\ UNCHANGED allocated

ReturnUntidied ==                                            \* mutant
    /\ HasControl /\ Top.by # "destroy"
    /\ UNCHANGED allocated

ReturnPolled ==
    /\ HasControl /\ Top.by # "destroy"
    /\ Tidy \/ (CallbackMayFail /\ UNCHANGED allocated)

Return ==
    /\ calls' = SubSeq(calls, 1, Len(calls) - 1)
    /\ threads' = threads - 1
    /\ ReturnDestroyed \/ ReturnPolled
    /\ UNCHANGED <<linked, handle, queue, closing, result, called, id, wire>>

\* Thirty seconds pass.
Tick ==
    /\ Quiescent /\ linked /\ active # None /\ timer = "running"
    /\ timer' = "due"
    /\ UNCHANGED <<block, threads, pending, active, closing, calls, result,
                   called, id, wire>>

Idle == StartTimeout \/ TimeOut \/ Send \/ SendFails
Destruction == DestroyCallActive \/ DestroyCallPending \/ DestroyDone

Next ==
    \/ Create \/ Idle \/ Data \/ Destroy \/ Destruction
    \/ (\E o \in Ops : Back(o)) \/ Return \/ Tick

Spec == Init /\ [][Next]_vars

----------------------------------------------------------------------------
(* Safety.                                                                 *)

\* The block is there while anything may still look at it: while it is on
\* the list, while its channel's variable points to it, and until every
\* callback that was called through it has returned, even if one of them
\* closed the channel.
BlockOK ==
    /\ linked \/ handle \/ closing \/ InCallback => allocated
    /\ allocated => threads = Len(calls)

\* A closed channel leaves nothing behind: no block that nobody can free
\* (when callbacks succeed), and no operation that nobody will call back.
ClosedOK ==
    Quiescent /\ ~linked =>
        ~allocated /\ ~handle /\ active = None /\ pending = <<>>

\* Every operation accepted is in one place: waiting, active or called back,
\* and it is called back once only, whatever closes and times out meanwhile.
Places(o) ==
    Cardinality({i \in DOMAIN pending : pending[i] = o})
      + (IF active = o THEN 1 ELSE 0) + called[o]

CalledOnce == \A o \in Ops : Places(o) <= 1

\* What is so of the block, of its queue and of the operations at any time.
ShareOK == TypeOK /\ BlockOK /\ ClosedOK /\ CalledOnce

\* An operation only succeeds with the reply to its own request, although
\* the replies to those that timed out still arrive.
OwnReply ==
    [][\A o \in Ops :
         result'[o] = "ok" /\ result[o] # "ok" => Head(wire).op = o]_vars

----------------------------------------------------------------------------
(* Liveness.  link_poll runs again and again, and so does every part of an *)
(* event that has begun; callbacks return; time passes.  Nothing is asked  *)
(* of the server.                                                          *)

Fairness ==
    /\ WF_vars(StartTimeout) /\ WF_vars(TimeOut) /\ WF_vars(Send \/ SendFails)
    /\ WF_vars(Destruction) /\ WF_vars(Return) /\ WF_vars(Tick)

FairSpec == Spec /\ Fairness

\* Every operation that share_back accepts is called back in the end.
AllCalledBack ==
    \A o \in Ops : (Places(o) = 1) ~> (called[o] = 1)
=============================================================================
