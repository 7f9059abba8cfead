---------------------------- MODULE LinkControl ----------------------------
(***************************************************************************)
(* The control of the serial link: link.c loads a block driver             *)
(* (blockdrive.c, baud.c), gives it to one user at a time (user.c), which  *)
(* is the frame handler with the connection manager above it (frame.c,     *)
(* connect.c) or the printer mirror (print.c), and takes it away when the  *)
(* link has been idle (idle.c), from a callback of the module (main.c).    *)
(*                                                                         *)
(* A command runs to its end before the callback or another command does:  *)
(* the loops that wait poll the link, but they do not sleep.  Each is one  *)
(* step here, in which Escape or an error may end the wait at each place   *)
(* where the code waits (faults counts those).                             *)
(***************************************************************************)
EXTENDS Integers, Sequences

CONSTANTS
    Drivers,        \* block drivers: records of their ports and speeds
    Settings,       \* what link_configure may be given: driver, port, baud, autobaud
    Recommended,    \* baud_recommended
    Devices,        \* devices that the printer mirror may write to
    IdleLink,       \* idle_disconnect_link is not zero
    IdlePrinter,    \* idle_disconnect_printer is not zero
    OperationMax,   \* bound of the operations that are active at a time
    FaultMax        \* bound of Escapes, and of errors while the link ends

VARIABLES
    config,         \* link_driver_name, _port, _baud and _autobaud
    link,           \* the rest of the state, below
    result,         \* the last command, and whether it produced an error
    faults

lvars == <<config, link, result, faults>>

NoDriver == [ports |-> 0, speeds |-> <<>>]
NoDevice == "no device"

LinkParameters ==
    /\ \A d \in Drivers : d.ports \in Nat \ {0} /\ d.speeds \in Seq(Nat \ {0})
    /\ \A c \in Settings : c.driver \in Drivers /\ c.port \in Nat /\ c.baud \in Nat
    /\ {IdleLink, IdlePrinter} \subseteq BOOLEAN /\ {OperationMax, FaultMax} \subseteq Nat
    /\ NoDevice \notin Devices

\* active is link_active, driver link_driver, speeds link_speeds with its zero
\* left out, baud link_driver_active_baud, lines DTR and RTS; mode is user_mode,
\* framed frame_active, manager connect_active and enable connect_enable; stream
\* is what print_handle writes to and printing print_active.  operations is
\* idle_operations, and idle is true when idle_last is long enough ago.  halved
\* notes that an end of the frame handler failed half way.
Inactive ==
    [active |-> FALSE, driver |-> NoDriver, speeds |-> <<>>, index |-> 0, baud |-> 0,
     lines |-> FALSE, mode |-> "inactive", framed |-> FALSE, manager |-> FALSE,
     enable |-> FALSE, stream |-> NoDevice, printing |-> FALSE,
     operations |-> 0, idle |-> FALSE, halved |-> FALSE]

NoResult == [command |-> "none", error |-> FALSE, device |-> NoDevice]

LinkInit ==
    /\ config \in Settings
    /\ link = Inactive
    /\ result = NoResult
    /\ faults = 0

\* An outcome: the state, whether there is an error, and the faults met.
Outcome(l, error) == [link |-> l, error |-> error, cost |-> 0]
Done(l) == {Outcome(l, FALSE)}
Failed(l) == {Outcome(l, TRUE)}
Interrupted(l) == {[Outcome(l, TRUE) EXCEPT !.cost = 1]}

\* What follows an outcome without an error
Then(outcomes, Next(_)) ==
    {o \in outcomes : o.error} \cup UNION {Next(o.link) : o \in {p \in outcomes : ~p.error}}

-----------------------------------------------------------------------------
(* The block driver *)

\* baud_list; no restriction is {}, no target 0.  list[k] is what the first k
\* speeds of the driver give.
BaudList(d, restrict, target) ==
    LET allowed(b) == (restrict = {} \/ b \in restrict) /\ target \in {0, b}
        list[k \in 0 .. Len(d.speeds)] ==
            IF k = 0 THEN <<>>
            ELSE IF allowed(d.speeds[k]) THEN Append(list[k - 1], d.speeds[k]) ELSE list[k - 1]
    IN list[Len(d.speeds)]

\* link_load's choice of speeds: a list that is empty is tried again with less.
Speeds(d, auto) ==
    LET lists == (IF auto /\ config.autobaud THEN <<BaudList(d, Recommended, 0)>> ELSE <<>>)
                 \o <<BaudList(d, {}, config.baud), BaudList(d, {}, 0)>>
        usable == {k \in 1 .. Len(lists) : lists[k] # <<>>}
    IN IF usable = {} THEN <<>> ELSE lists[CHOOSE k \in usable : \A j \in usable : k <= j]

\* link_next_baud; the lines are low while the speed changes.
NextBaud(l) ==
    LET next == IF l.index < Len(l.speeds) THEN l.index + 1 ELSE 1
    IN IF next = l.index THEN l
       ELSE [l EXCEPT !.index = next, !.lines = TRUE,
                      !.baud = IF next <= Len(l.speeds) THEN l.speeds[next] ELSE 0]

\* link_load: the driver may be missing, or refuse its port, and is then freed.
Load(l, auto) ==
    LET d == config.driver IN
    Failed(l)
    \cup (IF d.ports <= config.port THEN {}
          ELSE Done([NextBaud([l EXCEPT !.driver = d, !.speeds = Speeds(d, auto), !.index = 0])
                     EXCEPT !.active = TRUE]))

\* link_unload
Unload(l) ==
    IF l.active THEN [l EXCEPT !.lines = FALSE, !.active = FALSE, !.driver = NoDriver] ELSE l

-----------------------------------------------------------------------------
(* The users of the block driver *)

\* frame_start and connect_start: neither does anything when it is active.
ConnectStart(l) == IF l.manager THEN l ELSE [l EXCEPT !.manager = TRUE, !.enable = TRUE]
FrameStart(l) == IF l.framed THEN l ELSE [ConnectStart(l) EXCEPT !.framed = TRUE, !.halved = FALSE]

\* user_start_link
StartLink(l) ==
    LET kicked == [l EXCEPT !.idle = FALSE]
    IN CASE l.mode = "link" -> Done(kicked)
         [] l.mode = "printer" -> Failed(kicked)
         [] OTHER -> Done([FrameStart(kicked) EXCEPT !.mode = "link"])

\* print_end
PrintEnd(l) == [l EXCEPT !.stream = NoDevice, !.printing = FALSE]

\* user_start_print, with print_start: the device may not open.
StartPrint(l, device) ==
    LET closed == PrintEnd([l EXCEPT !.idle = FALSE])
    IN IF l.mode = "link" THEN Failed([l EXCEPT !.idle = FALSE])
       ELSE Failed(closed)
            \cup Done([closed EXCEPT !.stream = device, !.printing = TRUE, !.mode = "printer"])

\* frame_end: connect_end, then the last frame is waited for.
FrameEnd(l, now) ==
    LET disabled == [l EXCEPT !.enable = FALSE]
        ended == [disabled EXCEPT !.manager = FALSE]
        connect == IF l.manager
                   THEN Done(ended) \cup Interrupted([disabled EXCEPT !.halved = TRUE])
                   ELSE Done(l)
        wait(k) == Done(k) \cup (IF now THEN {} ELSE Interrupted([k EXCEPT !.halved = TRUE]))
    IN IF l.framed
       THEN Then(Then(connect, wait), LAMBDA k : Done([k EXCEPT !.framed = FALSE, !.halved = FALSE]))
       ELSE Done(l)

\* user_end
UserEnd(l, now) ==
    LET end == CASE l.mode = "link" -> FrameEnd(l, now)
                 [] l.mode = "printer" -> Done(PrintEnd(l))
                 [] OTHER -> Done(l)
    IN Then(end, LAMBDA k : Done([k EXCEPT !.mode = "inactive"]))

\* user_check_disconnect and idle_check_disconnect
CheckDisconnect(l) ==
    LET quiet == l.operations = 0 /\ l.idle
    IN CASE l.mode = "link" -> IdleLink /\ quiet
         [] l.mode = "printer" -> IdlePrinter /\ quiet
         [] OTHER -> TRUE

-----------------------------------------------------------------------------
(* Commands *)

\* link_enable_link and link_enable_print: a driver that was loaded for a user
\* that does not start is unloaded again.
Enable(l, auto, Start(_)) ==
    LET loaded == Load(l, auto)
        started(k) == {IF o.error THEN [o EXCEPT !.link = Unload(@)] ELSE o : o \in Start(k)}
    IN IF l.active THEN Start(l) ELSE Then(loaded, started)

DisableKeeps(l, now) == \* mutant: the user is ended after the driver is unloaded
    IF l.active THEN Then(Done(Unload(l)), LAMBDA k : UserEnd(k, now))
    ELSE Done(l)

\* link_disable
Disable(l, now) ==
    LET wait(k) == Done(k) \cup (IF now THEN {} ELSE Interrupted(k))
        unload(k) == Done([Unload(k) EXCEPT !.baud = 0])
    IN IF l.active THEN Then(Then(UserEnd(l, now), wait), unload) ELSE Done(l)

Command(outcomes, name, device) ==
    \E o \in outcomes :
        /\ faults + o.cost <= FaultMax
        /\ link' = o.link /\ faults' = faults + o.cost
        /\ result' = [command |-> name, error |-> o.error, device |-> device]
        /\ UNCHANGED config

EnableLink == Command(Enable(link, TRUE, StartLink), "link", NoDevice)
EnablePrint(d) == Command(Enable(link, FALSE, LAMBDA l : StartPrint(l, d)), "print", d)
DisableLink(now) == Command(Disable(link, now), "disable", NoDevice)

\* link_configure
Configure(c) ==
    /\ ~link.active
    /\ config' = c /\ result' = NoResult
    /\ UNCHANGED <<link, faults>>

\* Operations that last: asynchronous ones, uploads and the clipboard (idle_start,
\* idle_end)
Begin ==
    /\ link.operations < OperationMax
    /\ Command(Done([link EXCEPT !.operations = @ + 1]), "none", NoDevice)
Finish ==
    /\ link.operations > 0
    /\ Command(Done([link EXCEPT !.operations = @ - 1, !.idle = @ /\ link.operations > 1]),
               "none", NoDevice)

\* The idle time that is set passes.
Wait == ~link.idle /\ Command(Done([link EXCEPT !.idle = TRUE]), "none", NoDevice)

\* What a poll of the user may do: a connection manager that is not connected
\* tries the next speed, and the printer mirror writes what it receives.
Polled(l) ==
    {l} \cup (IF l.mode = "link" /\ l.framed /\ l.manager /\ l.enable THEN {NextBaud(l)} ELSE {})
        \cup (IF l.mode = "printer" /\ l.printing THEN {[l EXCEPT !.idle = FALSE]} ELSE {})

BackgroundForgets(l) == \* mutant: only a link with a user is ended
    IF l.active /\ l.mode # "inactive" /\ CheckDisconnect(l) THEN Disable(l, FALSE) ELSE Done(l)

\* link_poll(FALSE), after the user was polled
Background(l) == IF l.active /\ CheckDisconnect(l) THEN Disable(l, FALSE) ELSE Done(l)

\* main_callback
Poll ==
    Command(UNION {Background(l) : l \in IF link.active THEN Polled(link) ELSE {link}}, "none", NoDevice)

LinkNext ==
    \/ EnableLink \/ (\E d \in Devices : EnablePrint(d)) \/ (\E now \in BOOLEAN : DisableLink(now))
    \/ (\E c \in Settings : Configure(c))
    \/ Begin \/ Finish \/ Wait \/ Poll
LinkSpec == LinkInit /\ [][LinkNext]_lvars

\* The callback comes again and again; Wait is only as long as it must be.
LinkFairness == WF_lvars(Poll)

-----------------------------------------------------------------------------
(* Properties *)

\* The driver and its users fit together whatever was interrupted: a driver is
\* loaded, and its lines are raised, just when the link is active; the frame
\* handler and the stream of the mirror only exist for the user that has the
\* link; a connection manager that is not enabled is left by an end that failed
\* half way; and the speed is one of the driver's.
Fits(l) ==
    /\ l.active <=> l.driver # NoDriver
    /\ l.active <=> l.lines
    /\ l.mode # "inactive" => l.active
    /\ l.framed <=> l.mode = "link"
    /\ l.manager => l.framed
    /\ l.enable => l.manager
    /\ l.framed => l.enable \/ l.halved
    /\ l.printing <=> l.stream # NoDevice
    /\ l.printing => l.mode = "printer"
    /\ l.active => l.index \in 1 .. Len(l.speeds) /\ l.baud = l.speeds[l.index]
ControlOK == Fits(link)

\* A command that reports success did what it is for.  The connection manager
\* is enabled after link_enable_link, unless an end before it failed half way:
\* then the command reports success although nothing will connect.
CommandOK ==
    LET did(c) == result.command = c /\ ~result.error IN
    /\ did("link") => link.mode = "link" /\ (link.enable \/ link.halved)
    /\ did("print") => link.stream = result.device
    /\ did("disable") => ~link.active /\ link.mode = "inactive"

\* Both: what link.c controls is consistent, and is what it was told.
LinkOK == ControlOK /\ CommandOK

\* A link that is idle, or that an end that failed left without a user
Closing == link.active /\ CheckDisconnect(link)

\* The callback closes such a link, as long as it stays so (link_poll).
IdleCloses == Closing ~> ~Closing
=============================================================================
