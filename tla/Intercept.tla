----------------------------- MODULE Intercept -----------------------------
(***************************************************************************)
(* The Wimp filter (src/wimpfilt.c): transfers of files between desktop    *)
(* tasks are captured, so that a client (the PsiFS front end) can convert  *)
(* the file, and are resumed later with the original file or with another. *)
(*                                                                         *)
(* wimpfilt_post sees each message before the task it is for.  It hides    *)
(* some of those that pass and sends others in the name of the tasks; the  *)
(* tasks should not notice.  A task that has a message reads it, answers   *)
(* it and loads or saves the file in one step (external); Wimp returns a   *)
(* recorded message that was not answered.                                 *)
(***************************************************************************)
EXTENDS Integers, Sequences, FiniteSets, SequencesExt

CONSTANTS
    Clients,    \* tasks that claim transfers, by their pollwords
    Masks,      \* the intercept types that a client may claim together
    Transfers,  \* a number for each transfer that tasks start
    Kinds,      \* what they start: subset of {"load", "save", "transfer", "run"}
    Slots,      \* wimpfilt_intercept structures
    Keys,       \* <<enable, disable>>: the keys that may be held down
    Releases    \* a client may leave while its transfers are under way

VARIABLES
    claimed,    \* wimpfilt_claimed_head, a list
    icept,      \* the intercepts
    queue,      \* the messages that were not delivered
    refs,       \* how many messages of each transfer were sent
    files,      \* what the files hold
    got,        \* what was received of each transfer
    chosen,     \* what the client decided for each transfer
    stray       \* a task was given a message that it cannot make sense of

ivars == <<claimed, icept, queue, refs, files, got, chosen, stray>>

Applications == {"app", "other"}
NoTask == "nobody"
Temp(s) == <<"temp", s>>
Original(n) == <<"original", n>>
Target(n) == <<"target", n>>
Paths == {Temp(s) : s \in Slots} \cup {Original(n) : n \in Transfers} \cup {Target(n) : n \in Transfers}
NoPath == <<"none", 0>>
NoRef == <<0, 0>>

InterceptParameters ==
    /\ Transfers \subseteq Nat \ {0} /\ Slots \subseteq Nat /\ Releases \in BOOLEAN
    /\ Keys \subseteq BOOLEAN \X BOOLEAN
    /\ Masks \subseteq SUBSET {"load", "save", "transfer", "run_all", "run_unclaimed", "forced"}

Unused == [op |-> "unused", client |-> NoTask, kind |-> "none", sender |-> NoTask,
           receiver |-> NoTask, ref |-> NoRef, saved |-> NoRef, n |-> 0, delay |-> FALSE]

InterceptInit ==
    /\ claimed = <<>> /\ icept = [s \in Slots |-> Unused] /\ queue = <<>>
    /\ refs = [n \in Transfers |-> 0]
    /\ files = [p \in Paths |-> IF p[1] = "original" THEN "original" ELSE "none"]
    /\ got = [n \in Transfers |-> <<>>] /\ chosen = [n \in Transfers |-> "none"]
    /\ stray = FALSE

-----------------------------------------------------------------------------
(* Messages *)

\* rest are the tasks that a broadcast has not come to.  mine is FALSE for what
\* the filter sends in the name of a task; sane is FALSE for an answer to a
\* message that the task it goes to never sent.
Message(action, n, from, to, your, path) ==
    [action |-> action, n |-> n, from |-> from, to |-> to, rest |-> <<>>, my |-> NoRef,
     your |-> your, recorded |-> action \notin {"load ack", "saved"}, back |-> FALSE,
     path |-> path, unsafe |-> FALSE, mine |-> TRUE, sane |-> TRUE]
Broadcast(m) == [m EXCEPT !.to = "app", !.rest = <<"other">>]

\* Wimp_SendMessage gives each message a reference of its own.
Numbered(messages, n) ==
    [k \in 1 .. Len(messages) |-> [messages[k] EXCEPT !.my = <<n, refs[n] + k>>]]

-----------------------------------------------------------------------------
(* What is done with a message (the tables wimpfilt_states_...) *)

Started(i) == i.op \in {"restart", "replace"}

HandlerFetches(i, m) == \* mutant: the resumed transfer may go through memory, past the filter
    IF m.action = "load ack" /\ Started(i) /\ ~m.back THEN "end"
    ELSE IF m.back THEN "end" ELSE "pass"

\* The handler for a message of an intercept, "pass" where there is none
Handler(i, m) ==
    LET captured == i.op = "capture" /\ ~m.back
        resumed == Started(i) /\ ~m.back
        returned == Started(i) /\ m.back
        saves == i.kind \in {"save", "transfer"}
        runs == i.kind \in {"run_all", "run_unclaimed"}
    IN CASE m.action = "restart" /\ resumed -> "resume"
         [] m.action = "restart" /\ returned -> "end"
         [] m.action = "save" /\ saves /\ resumed -> "pass"
         [] m.action = "save" /\ saves /\ returned -> "end"
         [] m.action = "save ack" /\ saves /\ captured -> "pass"
         [] m.action = "save ack" /\ saves /\ resumed -> "copy"
         [] m.action = "load" /\ saves /\ captured -> "saved"
         [] m.action = "load" /\ ~runs /\ resumed -> "pass"
         [] m.action = "load" /\ ~runs /\ returned -> "end"
         [] m.action = "load ack" /\ captured /\ i.kind \notin {"run_unclaimed", "none"} -> "ready"
         [] m.action = "load ack" /\ saves /\ resumed -> "done"
         [] m.action = "load ack" /\ ~saves /\ resumed -> "end"
         [] m.action = "open" /\ runs /\ resumed -> "pass"
         [] m.action = "ram fetch" /\ saves /\ (captured \/ resumed) -> "hide"
         [] m.action = "ram fetch" /\ saves /\ returned -> "pass"
         [] m.action \in {"ram transmit", "saved"} -> "pass"
         [] OTHER -> "bad"

\* wimpfilt_find_ref, for my_ref first
Found(m) ==
    LET with(ref) == {s \in Slots : icept[s].op # "unused" /\ icept[s].ref # NoRef /\ icept[s].ref = ref}
    IN IF with(m.my) # {} THEN with(m.my) ELSE with(m.your)

-----------------------------------------------------------------------------
(* What the filter does: slot is the intercept that answers to the message *)
(* it sends are for, out the message that the task is given, or nothing.   *)

Effect(list, out) == [list |-> list, sends |-> <<>>, slot |-> {}, out |-> out, disc |-> files]
Pass(m) == Effect(icept, <<m>>)
Hide(list) == Effect(list, <<>>)

\* wimpfilt_end wipes the temporary file.
End(s) == [Hide([icept EXCEPT ![s] = Unused]) EXCEPT !.disc = [files EXCEPT ![Temp(s)] = "none"]]
EndDelayed(s) == [icept EXCEPT ![s].op = "done"]

\* A message is sent in the name of the task, instead of the one it should get.
Instead(s, i, message, sane) ==
    [Hide([icept EXCEPT ![s] = i]) EXCEPT
        !.sends = <<[message EXCEPT !.mine = FALSE, !.sane = sane]>>, !.slot = {s}]

\* wimpfilt_restart_load, wimpfilt_replace_load, wimpfilt_restart_save,
\* wimpfilt_restart_run and wimpfilt_replace_run
Resume(s) ==
    LET i == icept[s]
        path == IF i.op = "replace" THEN Temp(s) ELSE Original(i.n)
        to(action, p) == Message(action, i.n, i.sender, i.receiver, NoRef, p)
    IN CASE i.kind = "load" -> Instead(s, i, to("load", path), TRUE)
         [] i.kind \in {"save", "transfer"} -> Instead(s, i, to("save", NoPath), TRUE)
         [] OTHER -> Instead(s, i, Broadcast(to("open", path)), TRUE)

\* wimpfilt_copy_save
CopySave(s, m) ==
    LET i == [icept[s] EXCEPT !.saved = IF m.unsafe THEN NoRef ELSE @]
        load == Message("load", i.n, i.sender, i.receiver, m.my, m.path)
    IN [Instead(s, i, load, m.mine) EXCEPT !.disc = [files EXCEPT ![m.path] = files[Temp(s)]]]

\* wimpfilt_ready_save
ReadySave(s, m) ==
    LET i == icept[s]
    IN Instead(s, i, Message("load ack", i.n, i.receiver, i.sender, m.my, m.path), m.mine)

DoneSaveStays(s) == \* mutant: only a data saved message completes the operation
    Hide(IF icept[s].saved = NoRef THEN icept ELSE EndDelayed(s))

\* wimpfilt_done_save; saved is the reference of a message of the sender.
DoneSave(s) ==
    LET i == icept[s]
        done == [i EXCEPT !.op = "done"]
        saved == Message("saved", i.n, i.sender, i.receiver, i.saved, NoPath)
    IN IF i.saved = NoRef THEN Hide(EndDelayed(s)) ELSE Instead(s, done, saved, saved.to = i.sender)

\* The handlers that only the task of the intercept may cause end it otherwise.
Answered(s, m) ==
    LET i == icept[s]
        handler == Handler(i, m)
        mine == m.to = (IF handler = "saved" THEN i.receiver ELSE i.sender)
    IN CASE handler = "pass" -> Pass(m)
         [] handler = "hide" -> Hide(icept)
         [] handler = "ready" -> Effect([icept EXCEPT ![s].op = "ready"], <<m>>)
         [] handler = "end" -> Hide(EndDelayed(s))
         [] handler = "resume" /\ mine -> Resume(s)
         [] handler = "copy" /\ mine -> CopySave(s, m)
         [] handler = "saved" /\ mine -> ReadySave(s, m)
         [] handler = "done" /\ mine -> DoneSave(s)
         [] OTHER -> End(s)

\* The type of intercept that a message would start, if any
StartKind(m) ==
    CASE m.your # NoRef -> "none"
      [] m.action = "save" /\ ~m.back -> IF m.to = "filer" THEN "save" ELSE "transfer"
      [] m.action = "load" /\ ~m.back -> "load"
      [] m.action = "open" -> IF m.back THEN "run_unclaimed" ELSE "run_all"
      [] OTHER -> "none"

\* wimpfilt_start: the claim that a transfer is captured for
Claim(kind, key) ==
    LET mask == IF key[2] THEN {} ELSE {kind} \cup (IF key[1] THEN {"forced"} ELSE {})
        match == {k \in 1 .. Len(claimed) : claimed[k].mask \cap mask # {}}
    IN CASE match # {} -> {claimed[CHOOSE k \in match : \A l \in match : k <= l].client}
         [] match = {} /\ key[1] /\ claimed # <<>> -> {claimed[1].client}
         [] OTHER -> {}

\* wimpfilt_start_load, wimpfilt_start_save, wimpfilt_start_run_all and
\* wimpfilt_start_run_unclaimed
Start(s, m, kind, key, client) ==
    LET i == [Unused EXCEPT !.op = IF kind = "run_unclaimed" THEN "ready" ELSE "capture",
                            !.client = client, !.kind = IF key[2] THEN "none" ELSE kind,
                            !.sender = m.from, !.n = m.n,
                            !.receiver = IF m.action = "open" THEN NoTask ELSE m.to,
                            !.saved = IF m.action = "save" THEN m.my ELSE NoRef]
        copied == [files EXCEPT ![Temp(s)] = files[m.path]]
        reply(action, path) == Message(action, m.n, m.to, m.from, m.my, path)
        with(message) == Instead(s, i, message, m.mine)
    IN CASE m.action = "save" -> with([reply("save ack", Temp(s)) EXCEPT !.unsafe = TRUE])
         [] kind = "run_unclaimed" ->
              [Effect([icept EXCEPT ![s] = i],
                      <<[m EXCEPT !.action = "load ack", !.your = m.my, !.back = FALSE]>>)
               EXCEPT !.disc = copied]
         [] OTHER -> [with(reply("load ack", m.path)) EXCEPT !.disc = copied]

\* wimpfilt_choose_action, wimpfilt_msg and wimpfilt_ack
Filter(m, key) ==
    LET kind == StartKind(m)
        free == {s \in Slots : icept[s].op = "unused"}
    IN CASE Found(m) # {} -> Answered(CHOOSE s \in Found(m) : TRUE, m)
         [] Found(m) = {} /\ kind # "none" /\ Claim(kind, key) # {} ->
              IF free = {} THEN Hide(icept)
              ELSE Start(CHOOSE s \in free : \A r \in free : s <= r, m, kind, key,
                         CHOOSE c \in Claim(kind, key) : TRUE)
         [] OTHER -> Pass(m)

-----------------------------------------------------------------------------
(* The tasks (external) *)

React(sends, reads, writes) == [sends |-> sends, reads |-> reads, writes |-> writes]
Ignore == React(<<>>, NoPath, NoPath)
Reply(m, action, path) ==
    [Message(action, m.n, m.to, m.from, m.my, path) EXCEPT !.sane = m.mine]
SaveTo(m) == [Reply(m, "save ack", Target(m.n)) EXCEPT !.unsafe = m.to # "filer"]

\* What a task may do with a message
Answers(m) ==
    CASE m.action = "save" ->
           {Ignore, React(<<SaveTo(m)>>, NoPath, NoPath)}
           \cup (IF m.to = "filer" THEN {} ELSE {React(<<Reply(m, "ram fetch", NoPath)>>, NoPath, NoPath)})
      [] m.action = "ram fetch" ->
           {React(<<[Reply(m, "ram transmit", NoPath) EXCEPT !.recorded = FALSE]>>, NoPath, NoPath)}
      [] m.action = "ram transmit" -> {React(<<>>, Original(m.n), NoPath)}
      [] m.action = "save ack" ->
           {Ignore, React(<<Reply(m, "load", m.path)>>, NoPath, m.path)}
      [] m.action \in {"load", "open"} ->
           {Ignore, React(<<Reply(m, "load ack", NoPath)>>, m.path, NoPath)}
      [] OTHER -> {Ignore}

\* What a task does when nobody answered: a file is run by its type, and data
\* that cannot be fetched is to be saved in a file.
Returned(m) ==
    CASE m.action = "open" -> React(<<>>, m.path, NoPath)
      [] m.action = "ram fetch" ->
           React(<<[SaveTo([m EXCEPT !.from = m.rest[1], !.my = m.your]) EXCEPT !.sane = m.sane]>>,
                 NoPath, NoPath)
      [] OTHER -> Ignore

Reactions(m) == IF m.back THEN {Returned(m)} ELSE Answers(m)

\* A task makes sense of messages that are new, that answer one of its own, and
\* of its own when they come back.
Strange(m) ==
    \/ ~m.back /\ (m.action = "restart" \/ (m.action # "saved" /\ ~m.sane))
    \/ m.back /\ ~m.mine

\* A recorded message that was not answered goes on, or back to where it came
\* from; rest then holds the task that it was for.
Undelivered(m, sent) ==
    CASE ~m.recorded \/ m.back \/ (\E k \in 1 .. Len(sent) : sent[k].your = m.my) -> <<>>
      [] OTHER -> <<IF m.rest # <<>> THEN [m EXCEPT !.to = Head(m.rest), !.rest = Tail(@)]
                    ELSE [m EXCEPT !.back = TRUE, !.to = m.from, !.rest = <<m.to>>]>>

-----------------------------------------------------------------------------
(* Events *)

\* A task polls: the first message for it is delivered (wimpfilt_post).
Deliver(k, key) ==
    LET m == queue[k]
        f == Filter(m, key)
    IN \E r \in IF f.out = <<>> THEN {Ignore} ELSE Reactions(f.out[1]) :
           LET sent == Numbered(f.sends \o r.sends, m.n) IN
           /\ queue' = RemoveAt(queue, k) \o sent \o Undelivered(m, sent)
           /\ refs' = [refs EXCEPT ![m.n] = @ + Len(sent)]
           /\ icept' = [s \in Slots |-> IF s \in f.slot THEN [f.list[s] EXCEPT !.ref = sent[1].my]
                                        ELSE f.list[s]]
           /\ files' = IF r.writes = NoPath THEN f.disc ELSE [f.disc EXCEPT ![r.writes] = "original"]
           /\ got' = IF r.reads = NoPath THEN got
                     ELSE [got EXCEPT ![m.n] = Append(@, f.disc[r.reads])]
           /\ chosen' = IF (\E s \in Slots : icept[s].op = "unused" /\ f.list[s].op # "unused")
                        THEN [chosen EXCEPT ![m.n] = "captured"] ELSE chosen
           /\ stray' = (stray \/ (f.out # <<>> /\ Strange(f.out[1])))
           /\ UNCHANGED claimed
Poll ==
    \E k \in 1 .. Len(queue), key \in Keys :
        /\ \A l \in 1 .. k - 1 : queue[l].to # queue[k].to
        /\ Deliver(k, key)

\* A task starts a transfer (external).
Begin(n, kind) ==
    /\ refs[n] = 0 /\ (n > 1 => refs[n - 1] > 0)
    /\ LET to(action, from, task, path) == Message(action, n, from, task, NoRef, path)
           m == CASE kind = "load" -> to("load", "filer", "app", Original(n))
                  [] kind = "save" -> to("save", "app", "filer", NoPath)
                  [] kind = "transfer" -> to("save", "app", "other", NoPath)
                  [] OTHER -> Broadcast(to("open", "filer", "app", Original(n)))
       IN /\ queue' = queue \o Numbered(<<m>>, n)
          /\ refs' = [refs EXCEPT ![n] = 1]
    /\ UNCHANGED <<claimed, icept, files, got, chosen, stray>>

Dropped(c) == SelectSeq(claimed, LAMBDA e : e.client # c)

\* wimpfilt_claim, for one file type; no mask releases it.
ClaimTypes(c, mask) ==
    /\ claimed' = (IF mask = {} THEN <<>> ELSE <<[client |-> c, mask |-> mask]>>) \o Dropped(c)
    /\ UNCHANGED <<icept, queue, refs, files, got, chosen, stray>>

\* wimpfilt_release
Release(c) ==
    LET ends == {s \in Slots : icept[s].client = c} IN
    /\ ends = {} \/ Releases
    /\ claimed' = Dropped(c)
    /\ icept' = [s \in Slots |-> IF s \in ends THEN Unused ELSE icept[s]]
    /\ files' = [p \in Paths |-> IF p[1] = "temp" /\ p[2] \in ends THEN "none" ELSE files[p]]
    /\ UNCHANGED <<queue, refs, got, chosen, stray>>

\* wimpfilt_poll
Fetch(s) ==
    /\ icept[s].op = "ready"
    /\ icept' = [icept EXCEPT ![s].op = "idle"]
    /\ UNCHANGED <<claimed, queue, refs, files, got, chosen, stray>>

\* wimpfilt_restart and wimpfilt_replace, after the client has changed the file
Continue(s, op) ==
    LET i == icept[s]
        restart == Numbered(<<Message("restart", i.n, i.client, i.sender, i.ref, NoPath)>>, i.n)
    IN /\ i.op = "idle"
       /\ icept' = [icept EXCEPT ![s] = [@ EXCEPT !.op = op, !.ref = restart[1].my]]
       /\ queue' = queue \o restart
       /\ refs' = [refs EXCEPT ![i.n] = @ + 1]
       /\ files' = IF op = "replace" THEN [files EXCEPT ![Temp(s)] = "replaced"] ELSE files
       /\ chosen' = [chosen EXCEPT ![i.n] = op]
       /\ UNCHANGED <<claimed, got, stray>>

\* wimpfilt_cancel
Cancel(s) ==
    /\ icept[s].op = "idle"
    /\ icept' = End(s).list /\ files' = End(s).disc
    /\ chosen' = [chosen EXCEPT ![icept[s].n] = "cancel"]
    /\ UNCHANGED <<claimed, queue, refs, got, stray>>

\* wimpfilt_idle: a null event; the second is as late as the delay asks for.
Idle ==
    LET done == {s \in Slots : icept[s].op = "done"}
        ends == {s \in done : icept[s].delay}
    IN /\ done # {}
       /\ icept' = [s \in Slots |-> IF s \in ends THEN Unused
                                    ELSE IF s \in done THEN [icept[s] EXCEPT !.delay = TRUE]
                                    ELSE icept[s]]
       /\ files' = [p \in Paths |-> IF p[1] = "temp" /\ p[2] \in ends THEN "none" ELSE files[p]]
       /\ UNCHANGED <<claimed, queue, refs, got, chosen, stray>>

InterceptNext ==
    \/ Poll \/ Idle
    \/ \E n \in Transfers, kind \in Kinds : Begin(n, kind)
    \/ \E c \in Clients : Release(c) \/ \E mask \in Masks \cup {{}} : ClaimTypes(c, mask)
    \/ \E s \in Slots : Fetch(s) \/ Continue(s, "restart") \/ Continue(s, "replace") \/ Cancel(s)
InterceptSpec == InterceptInit /\ [][InterceptNext]_ivars

\* Tasks poll, and the desktop is idle now and then.
InterceptFairness == WF_ivars(Poll) /\ WF_ivars(Idle)

-----------------------------------------------------------------------------
(* Properties *)

\* Each file is received once at most, and as the client decided: the original
\* when it was not captured or the client let it go on, the replacement when it
\* was replaced, and nothing before that or when it was cancelled.
ReceivedOK ==
    \A n \in Transfers :
        /\ Len(got[n]) <= 1
        /\ got[n] # <<>> =>
              got[n][1] = (CASE chosen[n] \in {"none", "restart"} -> "original"
                             [] chosen[n] = "replace" -> "replaced"
                             [] OTHER -> "nothing")

\* The tasks do not notice: they are only given new messages, answers to what
\* they sent themselves, and what they sent themselves when nobody answered.
Unnoticed == ~stray

\* Both: the desktop's tasks exchange the right files and notice nothing.
InterceptOK == ReceivedOK /\ Unnoticed

\* wimpfilt_done_save says that it sends "a data safe message to the original
\* sender": the task that saved the file learns that it is safe.
SaverTold == \A k \in 1 .. Len(queue) : queue[k].action = "saved" => queue[k].sane

\* What a client lets go on comes to an end and is forgotten.
Ending(s) == icept[s].op \in {"restart", "replace", "done"}
Forgotten == \A s \in Slots : Ending(s) ~> (icept[s].op = "unused")
=============================================================================
