------------------------------- MODULE Printing -------------------------------
(* Printing by remote applications: wprt.c asks the server of the channel for  *)
(* the next packet of a job, and printing.c keeps each page in a file until a  *)
(* client reads it.  The remote server prints one job after another; the first *)
(* page of each is a reset packet that is the same for all.                    *)
EXTENDS Integers, Sequences, SequencesExt

CONSTANTS
    Pieces,     \* packets that a page is sent in
    PageMax,    \* most pages of a job, after the reset
    JobMax,     \* bound of the jobs that the remote machine prints
    LapseMax,   \* bound of failures: local files, the connection, the version
    Rough       \* a client may cancel a job before it reads of it, and the remote
                \* server may cut the last packet of a cancelled job short

VARIABLES
    host,       \* wprt.c, printing.c and the files of the pages
    pipe,       \* messages of the channel on their way: out, in
    server,     \* the server on the remote machine
    upset       \* failures so far, whether one was of a local file, and whether a
                \* new job began while a cancellation was still to be sent

pvars == <<host, pipe, server, upset>>

PrintingParameters ==
    /\ Pieces \in Nat \ {0} /\ PageMax \in Nat /\ JobMax \in Nat /\ LapseMax \in Nat
    /\ Rough \in BOOLEAN

NoFile == -1

\* What wprt.c knows of a connection that has just been made
NewConnection(h) ==
    [h EXCEPT !.initPending = FALSE, !.initDone = FALSE, !.dataPending = FALSE,
              !.dataEnabled = TRUE, !.cancelRequired = FALSE, !.stopRequired = FALSE,
              !.busy = FALSE, !.remain = 0]

\* jobs has the newest first, as the list does; disk maps the number of a page to
\* the pieces in its file; kept is what clients have read of a job.
PrintingInit ==
    /\ host = [connected |-> FALSE, suppress |-> FALSE, pageLast |-> FALSE, jobs |-> <<>>,
               disk |-> <<>>, page |-> 1, handle |-> 1, initPending |-> FALSE, initDone |-> FALSE,
               dataPending |-> FALSE, dataEnabled |-> TRUE, cancelRequired |-> FALSE,
               stopRequired |-> FALSE, busy |-> FALSE, remain |-> 0]
    /\ pipe = [out |-> <<>>, in |-> <<>>]
    /\ server = [pages |-> <<>>, printing |-> FALSE, page |-> 1, piece |-> 1]
    /\ upset = [faults |-> 0, local |-> FALSE, crossed |-> FALSE]

PageFiles(job) ==
    (job.base + job.read) .. (job.base + job.received - (IF job.file = NoFile THEN 1 ELSE 0))
Wiped(h, pages) == [h EXCEPT !.disk = [p \in DOMAIN @ \ pages |-> @[p]]]

Results(h, error) == [h |-> h, error |-> error]

-----------------------------------------------------------------------------
(* printing.c *)

\* printing_new: at the head of the list
New(h) ==
    [h EXCEPT !.handle = @ + 1,
              !.jobs = <<[handle |-> h.handle, base |-> h.page, status |-> "idle", file |-> NoFile,
                          received |-> 0, read |-> 0, kept |-> <<>>]>> \o @]

\* printing_delete: when no job is left the whole directory goes.
Delete(h, i) ==
    LET left == [h EXCEPT !.jobs = RemoveAt(@, i)]
    IN Wiped(left, IF left.jobs = <<>> THEN DOMAIN h.disk ELSE PageFiles(h.jobs[i]))

\* printing_cancelled: the job at the head
Cancelled(h) ==
    IF h.jobs = <<>> THEN h
    ELSE IF h.jobs[1].status \in {"idle", "start"} THEN Delete(h, 1)
    ELSE [h EXCEPT !.jobs[1].status = "cancelled"]

\* wprt_cancel
Cancel(h) ==
    IF h.busy /\ ~h.suppress
    THEN Cancelled([h EXCEPT !.cancelRequired = TRUE, !.dataEnabled = TRUE, !.suppress = TRUE])
    ELSE h

\* printing_data: a new job, a new page, the data, and the end of the page.
Over(job) == job.status \in {"complete", "cancelled"}
OpenPage(h) ==
    IF h.jobs[1].file # NoFile THEN h
    ELSE [h EXCEPT !.jobs[1].file = h.page, !.page = @ + 1,
                   !.disk = [p \in DOMAIN @ \cup {h.page} |-> IF p = h.page THEN <<>> ELSE @[p]]]
EndPage(h, lastPage) ==
    LET job == h.jobs[1]
        status == IF lastPage THEN "complete" ELSE IF job.status = "idle" THEN "start" ELSE job.status
    IN [h EXCEPT !.jobs[1] = [job EXCEPT !.file = NoFile, !.received = @ + 1, !.status = status]]
WprtContinue(h) == IF h.jobs[1].status = "start" THEN h ELSE [h EXCEPT !.dataEnabled = TRUE]

Data(h, pieces, fails) ==
    LET job == IF h.jobs = <<>> \/ Over(h.jobs[1]) THEN New(h) ELSE h
        page == OpenPage(job)
        written == [page EXCEPT !.disk[page.jobs[1].file] = @ \o pieces]
        ended == IF h.remain = 0 THEN EndPage(written, h.pageLast) ELSE written
    IN CASE fails = "open" /\ job.jobs[1].file = NoFile ->
               Results(Cancel([job EXCEPT !.page = @ + 1]), TRUE)
         [] fails = "write" -> Results(Cancel(page), TRUE)
         [] OTHER -> Results(WprtContinue(ended), FALSE)

-----------------------------------------------------------------------------
(* wprt_receive *)

\* The start of a job in the middle of another: that one was cancelled remotely.
ResetUnnoticed(h, p) == h   \* mutant: the old job goes on
Reset(h, p) ==
    IF ~(p.reset /\ h.busy) THEN h
    ELSE LET ended == [h EXCEPT !.busy = FALSE, !.remain = 0]
         IN IF h.suppress THEN ended ELSE Cancelled(ended)

\* The fields that only the first packet of a page has.  Those of any other are
\* whatever its data is.
Headed(h, p) ==
    IF h.remain > 0 THEN {h}
    ELSE IF p.first THEN {[h EXCEPT !.pageLast = p.pageLast, !.remain = p.total]}
    ELSE {[h EXCEPT !.pageLast = any.last, !.remain = any.total]
              : any \in [last : BOOLEAN, total : {0, Len(p.data)}]}

\* The length does not fit, or the packet is for the layer above, unless its job
\* was cancelled here.
Taken(h, p, fails) ==
    LET rest == h.remain - Len(p.data)
        taken == [h EXCEPT !.remain = rest, !.busy = TRUE, !.suppress = @ /\ h.busy]
    IN IF rest < 0 \/ (p.last /\ rest > 0)
       THEN Results(IF h.busy THEN Cancelled(h) ELSE h, TRUE)
       ELSE IF taken.suppress THEN Results(taken, FALSE)
       ELSE Data([taken EXCEPT !.dataEnabled = FALSE], p.data, fails)

ReceiveData(h, p, fails) ==
    {LET o == Taken(headed, p, fails)
     IN IF o.error \/ p.last THEN [o.h EXCEPT !.busy = FALSE, !.remain = 0] ELSE o.h
     : headed \in Headed(Reset([h EXCEPT !.dataPending = FALSE], p), p)}

WprtReceive(h, p, fails) ==
    IF h.initPending
    THEN {[h EXCEPT !.initPending = FALSE, !.initDone = TRUE, !.stopRequired = @ \/ p.last]}
    ELSE IF h.dataPending THEN ReceiveData(h, p, fails)
    ELSE {h}

-----------------------------------------------------------------------------
(* Events of the channel (wprt_poll) *)

Unlucky == IF upset.faults < LapseMax THEN {"open", "write"} ELSE {}
Blame(fails, p) ==
    upset' = [faults |-> upset.faults + (IF fails = "none" THEN 0 ELSE 1),
              local |-> upset.local \/ fails # "none",
              crossed |-> upset.crossed \/ (p.reset /\ host.cancelRequired)]

ServerData ==
    /\ pipe.in # <<>>
    /\ \E fails \in {"none"} \cup Unlucky :
         host' \in WprtReceive(host, Head(pipe.in), fails) /\ Blame(fails, Head(pipe.in))
    /\ pipe' = [pipe EXCEPT !.in = Tail(@)]
    /\ UNCHANGED server

\* wprt_idle
WprtSends(h, message) == host' = h /\ pipe' = [pipe EXCEPT !.out = Append(@, message)]
WprtIdle ==
    /\ host.connected
    /\ \/ /\ host.stopRequired
          /\ WprtSends([host EXCEPT !.stopRequired = FALSE], "stop")
       \/ /\ ~host.stopRequired /\ ~host.initDone /\ ~host.initPending
          /\ WprtSends([host EXCEPT !.initPending = TRUE], "level")
       \/ /\ ~host.stopRequired /\ host.initDone /\ ~host.dataPending /\ host.dataEnabled
          /\ WprtSends([host EXCEPT !.dataPending = TRUE, !.cancelRequired = FALSE],
                   IF host.cancelRequired THEN "cancel" ELSE "data")
    /\ UNCHANGED <<server, upset>>

WprtConnected ==
    /\ ~host.connected
    /\ host' = [NewConnection(host) EXCEPT !.connected = TRUE]
    /\ UNCHANGED <<pipe, server, upset>>

\* What was on its way is lost, and so is the remote job.
Cut == pipe' = [out |-> <<>>, in |-> <<>>] /\ server' = [server EXCEPT !.printing = FALSE]
Lost(h) ==
    LET ended == [h EXCEPT !.connected = FALSE, !.initDone = FALSE]
    IN IF h.busy /\ ~h.suppress THEN Cancelled(ended) ELSE ended
WprtDisconnected ==
    /\ host.connected /\ upset.faults < LapseMax
    /\ host' = Lost(host) /\ Cut
    /\ upset' = [upset EXCEPT !.faults = @ + 1]

\* wprt_end: printing_end deletes every job before the channel goes.
DeleteAll(h) == [h EXCEPT !.jobs = <<>>, !.disk = <<>>]
End ==
    /\ host.connected /\ upset.faults < LapseMax
    /\ host' = Lost(DeleteAll(host)) /\ Cut
    /\ upset' = [upset EXCEPT !.faults = @ + 1]

-----------------------------------------------------------------------------
(* Clients *)

\* printing_read accepts the job, moves the page, and deletes a job that has
\* nothing more to come.  The page is still there when it cannot be moved.
Read(i, moves) ==
    LET job == host.jobs[i]
        from == job.base + job.read
        accepted == IF job.status # "start" THEN host
                    ELSE [host EXCEPT !.jobs[i].status = "receiving", !.dataEnabled = TRUE]
        page == [accepted.jobs[i] EXCEPT !.read = @ + 1, !.kept = Append(@, host.disk[from])]
        moved == Wiped([accepted EXCEPT !.jobs[i] = page], {from})
    IN /\ job.read # job.received
       /\ host' = IF ~moves THEN accepted
                  ELSE IF Over(job) /\ job.read + 1 = job.received THEN Delete(moved, i)
                  ELSE moved
       /\ upset' = [upset EXCEPT !.faults = @ + (IF moves THEN 0 ELSE 1)]
       /\ UNCHANGED <<pipe, server>>

\* printing_cancel.  For a job that has not been accepted wprt_cancel has
\* already freed it when it is deleted here.
CancelJob(i) ==
    LET told == IF Over(host.jobs[i]) THEN host ELSE Cancel(host)
    IN /\ Rough \/ host.jobs[i].status # "start"
       /\ host.jobs[i].status # "idle"
       /\ host' = IF Len(told.jobs) < Len(host.jobs) THEN told ELSE Delete(told, i)
       /\ UNCHANGED <<pipe, server, upset>>

-----------------------------------------------------------------------------
(* The server on the remote machine *)

Total == server.pages[Len(server.pages)] + 1    \* with the reset
Packet(data) ==
    [reset |-> server.page = 1, first |-> server.piece = 1, total |-> IF server.page = 1 THEN 1 ELSE Pieces,
     pageLast |-> server.page = Total, data |-> data, last |-> FALSE]
PieceAt(n) == <<Len(server.pages), server.page, n>>

RemotePrints(pages) ==
    /\ ~server.printing /\ Len(server.pages) < JobMax
    /\ server' = [pages |-> Append(server.pages, pages), printing |-> TRUE, page |-> 1, piece |-> 1]
    /\ UNCHANGED <<host, pipe, upset>>
Abandon ==
    /\ server.printing /\ server.page > 1
    /\ server' = [server EXCEPT !.printing = FALSE]
    /\ UNCHANGED <<host, pipe, upset>>

Replies(packet) == pipe' = [out |-> Tail(pipe.out), in |-> Append(pipe.in, packet)]
ServeData ==
    LET ends == server.page = 1 \/ server.piece = Pieces IN
    /\ pipe.out # <<>> /\ server.printing
    /\ Head(pipe.out) = "data" \/ (Head(pipe.out) = "cancel" /\ server.page = 1)
    /\ Replies([Packet(<<PieceAt(server.piece)>>) EXCEPT !.last = ends /\ server.page = Total])
    /\ server' = [server EXCEPT !.printing = ~(ends /\ server.page = Total),
                                !.page = IF ends THEN @ + 1 ELSE @,
                                !.piece = IF ends THEN 1 ELSE @ + 1]
    /\ UNCHANGED <<host, upset>>

\* The last packet of a cancelled job has the rest of the page, or the server
\* takes the cancellation for a request of the next job.
ServeCancel(short) ==
    LET rest == [n \in 1 .. Pieces + 1 - server.piece |-> PieceAt(server.piece + n - 1)] IN
    /\ pipe.out # <<>> /\ Head(pipe.out) = "cancel" /\ server.printing /\ server.page > 1
    /\ short => Rough
    /\ Replies([Packet(IF short THEN <<>> ELSE rest) EXCEPT !.last = TRUE])
    /\ server' = [server EXCEPT !.printing = FALSE]
    /\ UNCHANGED <<host, upset>>
CancelNext ==
    /\ pipe.out # <<>> /\ Head(pipe.out) = "cancel"
    /\ pipe' = [pipe EXCEPT !.out[1] = "data"]
    /\ server' = [server EXCEPT !.printing = @ /\ server.page = 1]
    /\ UNCHANGED <<host, upset>>

\* last stands for a version that does not fit.
ServeLevel(fits) ==
    /\ pipe.out # <<>> /\ Head(pipe.out) = "level"
    /\ fits \/ upset.faults < LapseMax
    /\ Replies([reset |-> FALSE, data |-> <<>>, last |-> ~fits])
    /\ upset' = [upset EXCEPT !.faults = @ + (IF fits THEN 0 ELSE 1)]
    /\ UNCHANGED <<host, server>>

PrintingNext ==
    \/ ServerData \/ WprtIdle \/ WprtConnected \/ WprtDisconnected \/ End
    \/ \E i \in 1 .. Len(host.jobs) :
         Read(i, TRUE) \/ (upset.faults < LapseMax /\ Read(i, FALSE)) \/ CancelJob(i)
    \/ \E pages \in 0 .. PageMax : RemotePrints(pages)
    \/ Abandon \/ ServeData \/ CancelNext
    \/ \E yes \in BOOLEAN : ServeCancel(yes) \/ ServeLevel(yes)

PrintingSpec == PrintingInit /\ [][PrintingNext]_pvars

-----------------------------------------------------------------------------
(* Properties *)

Page(s, n) == [k \in 1 .. IF n = 1 THEN 1 ELSE Pieces |-> <<s, n, k>>]
Held(job) == job.kept \o [k \in 1 .. job.received - job.read |-> host.disk[job.base + job.read + k - 1]]

\* A job has the pages of one remote job, whole and in order, and all of them
\* once it is complete.
PagesOK ==
    \A i \in 1 .. Len(host.jobs) :
        LET job == host.jobs[i] IN
        job.received > 0 =>
            \E s \in 1 .. Len(server.pages) :
                /\ Held(job) = [n \in 1 .. job.received |-> Page(s, n)]
                /\ job.status = "complete" => job.received = server.pages[s] + 1

\* The files are those of the jobs, and each is of one.
FilesOK ==
    /\ DOMAIN host.disk = UNION {PageFiles(host.jobs[i]) : i \in 1 .. Len(host.jobs)}
    /\ \A i, j \in 1 .. Len(host.jobs) :
         i # j => PageFiles(host.jobs[i]) \cap PageFiles(host.jobs[j]) = {}

\* Only the newest job still receives, and the next packet is asked for unless
\* that job waits for a client to accept it.
FlowOK ==
    /\ \A i \in 2 .. Len(host.jobs) : Over(host.jobs[i])
    /\ host.busy /\ ~host.suppress /\ host.connected => host.jobs # <<>> /\ ~Over(host.jobs[1])
    /\ host.connected /\ host.initDone =>
          \/ host.dataEnabled \/ host.dataPending
          \/ host.jobs # <<>> /\ host.jobs[1].status = "start"

\* Pages are kept and given as they were printed, unless a local file could not
\* be written or the cancellation of a job was sent when the remote machine had
\* already begun the next (wprt_receive, printing_data, printing_read).  With Rough
\* FALSE the cancellation of a job that nobody has read of, which frees it twice
\* (printing_cancel), and a short last packet of a cancelled job are left out.
PrintingOK == (upset.local \/ upset.crossed \/ PagesOK) /\ FilesOK /\ FlowOK
=============================================================================
