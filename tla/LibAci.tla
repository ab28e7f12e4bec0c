------------------------------- MODULE LibAci ------------------------------
(***************************************************************************)
(* Source/lib_aci.c: the library's picture of the connection (which pipes  *)
(* are open, how many data credits there are) kept up to date by the       *)
(* events of the radio while commands are on their way to it.  The two     *)
(* queues in between belong to AciTransport; here they are away from the   *)
(* wrap of its byte indexes.                                               *)
(*                                                                         *)
(* The library neither tests a pipe nor counts a credit when data is sent: *)
(* that is left to its clients.  The client here is the sketch of the uart *)
(* project template, as its loop() runs: it sends a line when one has been *)
(* typed and tests nothing (its uart_tx, which would, is never called).    *)
(* HeartRate is the other client, which counts.  The radio is external.    *)
(* Of the two bitmaps of aci_state_t, always written together, open stands *)
(* for both.  Events that touch nothing of this state (data received,      *)
(* timing, answers that report success) are left out, and the commands the *)
(* sketch issues for them come at any time.                                *)
(***************************************************************************)
EXTENDS Integers, Sequences, FiniteSets

CONSTANTS Pipes,      \* the transmit pipes
          Tx,         \* of the uart sketch, the pipe it sends on ...
          Control,    \* ... and the one a peer that controls it has open
          Total,      \* data_credit_total, from the device started event
          CreditWrap, \* 2^8, the values of data_credit_available
          Size,       \* ACI_QUEUE_SIZE
          MaxEvents,  \* bound on the events on their way
          MaxLinks,   \* bound on the links
          MaxFailures \* bound on the hardware errors of the radio

ASSUME LibAciAssumption ==
    /\ Tx \in Pipes /\ Control \in Pipes
    /\ Total \in Nat \ {0}
    /\ CreditWrap \in Nat /\ Total < CreditWrap
    /\ Size \in Nat \ {0}
    /\ MaxEvents \in Nat
    /\ MaxLinks \in Nat
    /\ MaxFailures \in Nat

VARIABLES open,     \* pipes_open_bitmap
          credits,  \* data_credit_available
          timed,    \* timing_change_done
          cmds,     \* commands on their way to the radio
          evs,      \* events on their way to the application
          linked,   \* the radio is in a connection
          seeking,  \* the radio advertises
          piped,    \* the pipes the radio has open
          held,     \* data packets the radio has not sent yet
          links,    \* connections so far
          failures, \* hardware errors so far
          stale     \* one of them closed pipes, and nothing has shown it since

library == <<open, credits>>
radio == <<linked, seeking, piped, held>>
history == <<links, failures, stale>>
vars == <<library, timed, cmds, evs, radio, history>>

\* Version, timing, local data and sleep leave pipes, link and credits alone:
\* they are the other commands.
Data(p) == [cmd |-> "data", pipe |-> p]
Plain(c) == [cmd |-> c]
PlainKinds == {"connect", "disconnect", "other"}
Commands == {Data(p) : p \in Pipes} \cup {Plain(c) : c \in PlainKinds}

PipeStatus(s) == [evt |-> "pipeStatus", pipes |-> s]
DataCredit(k) == [evt |-> "dataCredit", credit |-> k]
Event(e) == [evt |-> e]
PlainEvents == {"connected", "disconnected", "advTimeout", "pipeError", "attError",
                "refused", "started", "hwError"}
Events ==
    {PipeStatus(s) : s \in SUBSET Pipes} \cup {DataCredit(k) : k \in 1 .. Total}
        \cup {Event(e) : e \in PlainEvents}

TypeOK ==
    /\ open \subseteq Pipes
    /\ credits \in 0 .. CreditWrap - 1
    /\ timed \in BOOLEAN
    /\ cmds \in Seq(Commands) /\ Len(cmds) <= Size
    /\ evs \in Seq(Events)
    /\ linked \in BOOLEAN /\ seeking \in BOOLEAN
    /\ piped \subseteq Pipes
    /\ held \in 0 .. Total
    /\ links \in 0 .. MaxLinks
    /\ failures \in 0 .. MaxFailures
    /\ stale \in BOOLEAN

\* lib_aci_init, and the client's answer to the first device started event.
Init ==
    /\ open = {}
    /\ credits = 0
    /\ timed = FALSE
    /\ cmds = <<Plain("connect")>>
    /\ evs = << >>
    /\ linked = FALSE /\ seeking = FALSE
    /\ piped = {} /\ held = 0
    /\ links = 0 /\ failures = 0 /\ stale = FALSE

-----------------------------------------------------------------------------
(* The radio (external) *)

Report(e) == Len(evs) < MaxEvents /\ evs' = Append(evs, e)

RadioConnects ==
    /\ seeking /\ links < MaxLinks
    /\ linked' = TRUE /\ seeking' = FALSE
    /\ links' = links + 1
    /\ Report(Event("connected"))
    /\ UNCHANGED <<library, timed, cmds, piped, held, failures, stale>>

RadioTimesOut ==
    /\ seeking
    /\ seeking' = FALSE
    /\ stale' = FALSE
    /\ Report(Event("advTimeout"))
    /\ UNCHANGED <<library, timed, cmds, linked, piped, held, links, failures>>

RadioOpens(s) ==
    /\ linked /\ s # piped
    /\ piped' = s
    /\ stale' = FALSE
    /\ Report(PipeStatus(s))
    /\ UNCHANGED <<library, timed, cmds, linked, seeking, held, links, failures>>

\* Every packet held has been sent, or some have.
RadioCredits(k) ==
    /\ k <= held
    /\ held' = held - k
    /\ Report(DataCredit(k))
    /\ UNCHANGED <<library, timed, cmds, linked, seeking, piped, history>>

\* The peer answers a packet with an error; its credit comes back by itself.
PeerRefuses ==
    /\ linked
    /\ Report(Event("attError"))
    /\ UNCHANGED <<library, timed, cmds, radio, history>>

Drop ==
    /\ linked' = FALSE /\ piped' = {} /\ held' = 0 /\ stale' = FALSE
    /\ Report(Event("disconnected"))
    /\ UNCHANGED <<library, timed, seeking, links, failures>>

RadioLoses == linked /\ Drop /\ UNCHANGED cmds

\* It starts again and reports that, and why, but no pipes and no end of a link.
RadioFails ==
    /\ failures < MaxFailures
    /\ failures' = failures + 1
    /\ linked' = FALSE /\ seeking' = FALSE /\ piped' = {} /\ held' = 0
    /\ stale' = (stale \/ piped # {})
    /\ Len(evs) + 1 < MaxEvents
    /\ evs' = Append(Append(evs, Event("started")), Event("hwError"))
    /\ UNCHANGED <<library, timed, cmds, links>>

Takes(c) == cmds # << >> /\ Head(cmds).cmd = c /\ cmds' = Tail(cmds)

RadioTakesConnect ==
    /\ ~linked
    /\ Takes("connect")
    /\ seeking' = TRUE
    /\ UNCHANGED <<library, timed, evs, linked, piped, held, history>>

RadioTakesDisconnect == linked /\ Takes("disconnect") /\ Drop

\* Data it cannot take comes back as a pipe error.
Taken == Head(cmds).pipe \in piped /\ held < Total

RadioTakesData ==
    /\ Takes("data")
    /\ IF Taken
       THEN held' = held + 1 /\ UNCHANGED evs
       ELSE Report(Event("pipeError")) /\ UNCHANGED held
    /\ UNCHANGED <<library, timed, linked, seeking, piped, history>>

RadioTakesOther ==
    /\ Takes("other")
    /\ UNCHANGED <<library, timed, evs, radio, history>>

\* Any other command may fail, but for a disconnect in a link.
RadioRefuses(c) ==
    /\ c = "disconnect" => ~linked
    /\ Takes(c)
    /\ Report(Event("refused"))
    /\ UNCHANGED <<library, timed, radio, history>>

Radio ==
    \/ RadioConnects \/ RadioTimesOut \/ PeerRefuses \/ RadioLoses \/ RadioFails
    \/ \E s \in SUBSET Pipes : RadioOpens(s)
    \/ \E k \in 1 .. Total : RadioCredits(k)
    \/ RadioTakesConnect \/ RadioTakesDisconnect \/ RadioTakesData \/ RadioTakesOther
    \/ \E c \in PlainKinds : RadioRefuses(c)

-----------------------------------------------------------------------------
(* Commands *)

\* hal_aci_tl_send: FALSE if the command queue is full.
Room == Len(cmds) < Size

\* A command that is lost if there is no room: no client looks at the result.
Answer(c) == cmds' = IF Room THEN Append(cmds, Plain(c)) ELSE cmds

\* lib_aci_send_data for a line from the serial port.
SendLine ==
    /\ Room
    /\ cmds' = Append(cmds, Data(Tx))
    /\ UNCHANGED <<library, timed, evs, radio, history>>

\* lib_aci_disconnect, which closes the pipes at once.
LibDisconnect ==
    /\ Room
    /\ cmds' = Append(cmds, Plain("disconnect"))
    /\ open' = {}
    /\ UNCHANGED <<credits, timed, evs, radio, history>>

\* The peer may ask for an end of the link, by the control point.
Disconnect == Control \in open /\ LibDisconnect

\* Other commands, for events that are left out.
SendOther == Answer("other") /\ UNCHANGED <<library, timed, evs, radio, history>>

-----------------------------------------------------------------------------
(* lib_aci_event_get and what both clients do about the event *)

Get(e) == evs # << >> /\ Head(evs).evt = e /\ evs' = Tail(evs)

\* The clients set the credits, not the library.
GetConnected ==
    /\ Get("connected")
    /\ credits' = Total
    /\ timed' = FALSE
    /\ UNCHANGED <<open, radio, history>>

\* The first time the peer has p open, other timing is asked for.
GetPipeStatus(p) ==
    /\ Get("pipeStatus")
    /\ open' = Head(evs).pipes
    /\ timed' = (timed \/ p \in open')
    /\ IF timed' /\ ~timed THEN Answer("other") ELSE UNCHANGED cmds
    /\ UNCHANGED <<credits, radio, history>>

\* Seeded fault: the pipes are not closed.
FaultDisconnected(e) ==
    /\ Get(e)
    /\ credits' = Total
    /\ UNCHANGED <<open, timed, radio, history>>

\* The library's part, for the end of a link and of advertising.
GetDisconnected(e) ==
    /\ Get(e)
    /\ open' = {}
    /\ credits' = Total
    /\ UNCHANGED <<timed, radio, history>>

GetDataCredit ==
    /\ Get("dataCredit")
    /\ credits' = (credits + Head(evs).credit) % CreditWrap
    /\ UNCHANGED <<open, timed, cmds, radio, history>>

\* Seeded fault: the packet that was not sent is not counted back.
FaultPipeError ==
    /\ Get("pipeError") \/ Get("attError")
    /\ UNCHANGED <<library, timed, cmds, radio, history>>

GetPipeError ==
    /\ \/ Get("pipeError") /\ credits' = (credits + 1) % CreditWrap
       \/ Get("attError") /\ UNCHANGED credits
    /\ UNCHANGED <<open, timed, cmds, radio, history>>

\* Advertising starts again; pipes and credits stay as they are.
GetHwError ==
    /\ Get("hwError")
    /\ Answer("connect")
    /\ UNCHANGED <<library, timed, radio, history>>

\* Printed, or waited for, and no more.
GetNoted(e) == Get(e) /\ UNCHANGED <<library, timed, cmds, radio, history>>

EventGet ==
    \/ GetConnected /\ Answer("other")
    \/ GetPipeStatus(Tx)
    \/ \E e \in {"disconnected", "advTimeout"} : GetDisconnected(e) /\ Answer("connect")
    \/ GetDataCredit \/ GetPipeError \/ GetHwError
    \/ \E e \in {"started", "refused"} : GetNoted(e)

Next == Radio \/ SendLine \/ Disconnect \/ SendOther \/ EventGet

Spec == Init /\ [][Next]_vars

-----------------------------------------------------------------------------
Ordered(q, c) == \E k \in 1 .. Len(q) : q[k].cmd = c
Reported(q, e) == \E k \in 1 .. Len(q) : q[k].evt = e

(***************************************************************************)
(* When every event has been handled and no disconnect is on its way, the  *)
(* library's pipes are the radio's, unless the radio failed with pipes     *)
(* open and has not reported pipes, or an end of a link, since             *)
(* (lib_aci.c:323-345, 581-604).                                           *)
(***************************************************************************)
Handled == evs = << >> /\ ~Ordered(cmds, "disconnect")

PictureCurrent == Handled /\ ~stale => open = piped

(***************************************************************************)
(* What lib_aci_is_pipe_available promises, "True if the pipe is           *)
(* available" (lib_aci.h:161), whatever the radio did: both clients go on  *)
(* after a hardware error with the pipes of before.                        *)
(***************************************************************************)
AvailableIsOpen == Handled => open \subseteq piped

(***************************************************************************)
(* Credits that are not at hand: on their way to the radio, held by it, or *)
(* on their way back.                                                      *)
(***************************************************************************)
Returned(e) ==
    IF e.evt = "dataCredit" THEN e.credit ELSE IF e.evt = "pipeError" THEN 1 ELSE 0

\* Packets in the commands q, and credits in the events q.
Packets(q) == Cardinality({k \in 1 .. Len(q) : q[k].cmd = "data"})
Refunds(q) == Cardinality({u \in (1 .. Len(q)) \X (1 .. Total) : u[2] <= Returned(q[u[1]])})

Outstanding == Packets(cmds) + held + Refunds(evs)

\* No event on its way changes the link, and the radio has never failed.
LinkKnown ==
    /\ linked /\ failures = 0
    /\ ~Reported(evs, "connected") /\ ~Reported(evs, "disconnected")
=============================================================================
