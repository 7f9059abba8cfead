-------------------------------- MODULE MCLive --------------------------------
(* What must happen in the end: a pair of connected ends, and four of the      *)
(* parts of MCData, one after another in one run. part is what is running.     *)
EXTENDS ConnectPair

CONSTANTS mA, mB
MCMessages == 1 .. MessagesA + MessagesB

VARIABLES
    part,
    entry, fore, pending, last, escapes,                    \* Entry
    config, link, result, linkFaults,                       \* LinkControl
    here, device, wire, noted, changes, copyFaults,         \* Clipboard
    claimed, icept, bounced, refs, files, got, chosen, stray    \* Intercept

MCDrivers == {[ports |-> 1, speeds |-> <<9600, 19200, 115200>>]}
MCSettings == [driver : MCDrivers, port : {0, 1}, baud : {9600, 300}, autobaud : BOOLEAN]
MCMasks == {{"load", "save", "run_all"}, {"transfer", "run_unclaimed"}}
MCKeys == {<<FALSE, FALSE>>, <<TRUE, FALSE>>, <<FALSE, TRUE>>}

E == INSTANCE Entry WITH
    queue <- pending, SearchLengths <- {}, EscapeMax <- 1, OthersMax <- 1
L == INSTANCE LinkControl WITH
    faults <- linkFaults, Drivers <- MCDrivers, Settings <- MCSettings,
    Recommended <- {19200, 115200}, Devices <- {"d1", "d2"}, IdleLink <- TRUE,
    IdlePrinter <- TRUE, OperationMax <- 1, FaultMax <- 2
C == INSTANCE Clipboard WITH
    Blocks <- 2, ChangeMax <- 2, CopyFaultMax <- 1
I == INSTANCE Intercept WITH
    queue <- bounced, Clients <- {"client"}, Masks <- MCMasks, Transfers <- {1},
    Kinds <- {"load", "save", "transfer", "run"}, Slots <- {1, 2}, Keys <- MCKeys,
    Releases <- FALSE

evars == <<entry, fore, pending, last, escapes>>
lvars == <<config, link, result, linkFaults>>
cvars == <<here, device, wire, noted, changes, copyFaults>>
ivars == <<claimed, icept, bounced, refs, files, got, chosen, stray>>
allvars == <<part, vars, evars, lvars, cvars, ivars>>

MCInit ==
    /\ part \in {"pair", "entries", "link", "clipboard", "filter"}
    /\ Init /\ E!EntryInit /\ L!LinkInit /\ C!ClipboardInit /\ I!InterceptInit
    /\ part # "link" => config = CHOOSE c \in MCSettings : TRUE

MCNext ==
    \/ part = "pair" /\ Next /\ UNCHANGED <<part, evars, lvars, cvars, ivars>>
    \/ part = "entries" /\ E!EntryNext /\ UNCHANGED <<part, vars, lvars, cvars, ivars>>
    \/ part = "link" /\ L!LinkNext /\ UNCHANGED <<part, vars, evars, cvars, ivars>>
    \/ part = "clipboard" /\ C!ClipboardNext /\ UNCHANGED <<part, vars, evars, lvars, ivars>>
    \/ part = "filter" /\ I!InterceptNext /\ UNCHANGED <<part, vars, evars, lvars, cvars>>

\* The fairness of each module; what does not run is in its initial state.
MCFairness ==
    /\ WF_vars(part = "pair" /\ StepA /\ A!EndNext) /\ WF_vars(part = "pair" /\ StepB /\ B!EndNext)
    /\ SF_vars(part = "pair" /\ StepA /\ A!Receive) /\ SF_vars(part = "pair" /\ StepB /\ B!Receive)
    /\ SF_vars(part = "pair" /\ StepA /\ A!Transmit)
    /\ SF_vars(part = "pair" /\ StepB /\ B!Transmit)
    /\ SF_vars(part = "pair" /\ StepA /\ A!Submit) /\ SF_vars(part = "pair" /\ StepB /\ B!Submit)
    /\ WF_vars(part = "pair" /\ StepA /\ OnTimeA /\ A!Expire)
    /\ WF_vars(part = "pair" /\ StepB /\ OnTimeB /\ B!Expire)
    /\ WF_evars(part = "entries" /\ E!EntryStep) /\ WF_evars(part = "entries" /\ E!CallbackPolls)
    /\ WF_lvars(part = "link" /\ L!Poll)
    /\ WF_cvars(part = "clipboard" /\ C!ClipboardStep)
    /\ WF_ivars(part = "filter" /\ I!Poll) /\ WF_ivars(part = "filter" /\ I!Idle)

MCSpec == MCInit /\ [][MCNext]_allvars /\ MCFairness

Owes ==
    \/ part = "entries" /\ E!Running
    \/ part = "link" /\ L!Closing
    \/ part = "clipboard" /\ C!Unsynchronised
    \/ part = "filter" /\ I!Ending(1)
OwesMore ==
    \/ part = "entries" /\ E!LeftQueued
    \/ part = "filter" /\ I!Ending(2)

\* What is under way comes to an end: an entry point returns and what Escape
\* left is done (EntryEnds), an idle link is closed (IdleCloses), a change of
\* the clipboard is carried over (Synchronises), and what a client of the
\* filter lets go on is forgotten (Forgotten).
Settles == (Owes ~> ~Owes) /\ (OwesMore ~> ~OwesMore)
=============================================================================
