----------------------------- MODULE AciPolling ----------------------------
(***************************************************************************)
(* The ACI transport layer with either of its interfaces.  The interrupt-  *)
(* driven one is AciTransport's.  With the polled one no interrupt is      *)
(* attached, and hal_aci_tl_event_get and hal_aci_tl_event_peek call       *)
(* m_aci_event_check, which runs the transfer in the main context.  Only   *)
(* the radio runs beside the main context then, so these calls are one     *)
(* step each; hal_aci_tl_send and the flush are AciTransport's.            *)
(***************************************************************************)
EXTENDS AciTransport

VARIABLE polled  \* ~a_pins->interface_is_interrupt

\* hal_aci_tl_init does not attach the interrupt in this mode.
PollingInit ==
    /\ txq = << >> /\ txHead = 0 /\ txOverrun = FALSE
    /\ rxq = << >> /\ rxHead = 0 /\ rxOverrun = FALSE
    /\ reqnLow = FALSE /\ rdynLow = FALSE
    /\ attached = FALSE /\ spinning = FALSE
    /\ pc = "idle" /\ wasFull = FALSE
    /\ pending = << >>
    /\ issued = 0 /\ produced = 0
    /\ received = << >> /\ handed = << >>
    /\ lostCommands = {} /\ lostEvents = {}

-----------------------------------------------------------------------------
(* m_aci_event_check *)

NoTransfer == UNCHANGED <<tx, pending, received, rdynLow>>

\* Seeded fault: with RDYN high no transfer is requested.
FaultNoRequest(low) ==
    \/ Full(rxq, rxHead) /\ NoTransfer /\ low = reqnLow
    \/ ~Full(rxq, rxHead) /\ ~rdynLow /\ NoTransfer /\ low = FALSE
    \/ ~Full(rxq, rxHead) /\ rdynLow /\ Transfer /\ low = ~Empty(TxAfter)

\* What the function does to everything but the receive queue; low says how it
\* leaves the REQN line.
EventCheck(low) ==
    \/ Full(rxq, rxHead) /\ NoTransfer /\ low = reqnLow
    \/ ~Full(rxq, rxHead) /\ ~rdynLow /\ NoTransfer /\ low = (reqnLow \/ ~Empty(txq))
    \/ ~Full(rxq, rxHead) /\ rdynLow /\ Transfer /\ low = ~Empty(TxAfter)

\* What it does to the receive queue.
Stores == ~Full(rxq, rxHead) /\ rdynLow

RxChecked == IF Stores THEN RxAfter ELSE rxq

Quiet ==
    /\ rxOverrun' = IF Stores THEN RxOverwrites ELSE rxOverrun
    /\ UNCHANGED <<attached, spinning, pc, wasFull, issued, produced, lost>>

Peek ==
    /\ pc = "idle"
    /\ EventCheck(reqnLow')
    /\ rxq' = RxChecked
    /\ UNCHANGED <<rxHead, handed>>
    /\ Quiet

\* event_get that finds nothing has done what a peek does.
PollNothing == Empty(RxChecked) /\ Peek

\* Having made room, event_get lowers REQN if commands still wait.
PollGet ==
    /\ pc = "idle"
    /\ ~Empty(RxChecked)
    /\ \E low \in BOOLEAN : EventCheck(low) /\ reqnLow' = (low \/ ~Empty(txq'))
    /\ rxq' = Tail(RxChecked) /\ rxHead' = Past(rxHead)
    /\ handed' = Append(handed, Head(RxChecked))
    /\ Quiet

Poll == PollGet \/ PollNothing

PollingNext ==
    RadioEvent \/ RadioReady \/ Send \/ SendCheck \/ SendReqn \/ Peek \/ Poll \/ Flush

-----------------------------------------------------------------------------
(* Either interface, as aci_pins_t asks for it and for good *)

EitherInit ==
    \/ polled = FALSE /\ Init
    \/ polled = TRUE /\ PollingInit

EitherNext ==
    /\ \/ ~polled /\ Next
       \/ polled /\ PollingNext
    /\ UNCHANGED polled

\* With the polled interface the application polls forever; the radio answers
\* REQN, and a call that was begun goes on.
Fairness ==
    /\ WF_vars(polled /\ Poll)
    /\ WF_vars(RadioReady) /\ WF_vars(SendCheck) /\ WF_vars(SendReqn)

EitherSpec == EitherInit /\ [][EitherNext]_<<vars, polled>> /\ Fairness

-----------------------------------------------------------------------------
(***************************************************************************)
(* Polled, it comes again and again to a time when every command           *)
(* hal_aci_tl_send accepted has reached the radio, so that, of finitely    *)
(* many, each one does, however the queue was filled when it was accepted, *)
(* unless it is flushed or a packet was put into the full queue at the     *)
(* wrap of its head (hal_aci_tl.c:139-165, 323-327).                       *)
(***************************************************************************)
CommandsGetOut ==
    polled ~> txOverrun \/ 1 .. issued \subseteq lostCommands \cup Items(received)

(***************************************************************************)
(* Polled, every event of the radio reaches the application likewise,      *)
(* across any number of times the receive queue was full, unless it is     *)
(* flushed or a packet was put into the full queue at the wrap of its head *)
(* (hal_aci_tl.c:133-136, 302-309).                                        *)
(***************************************************************************)
EventsGetIn ==
    polled ~> rxOverrun \/ 1 .. produced \subseteq lostEvents \cup Items(handed)

(***************************************************************************)
(* "Disable ready line interrupt until we have room to store incoming      *)
(* messages" (hal_aci_tl.c:115): outside the layer, the interrupt is       *)
(* detached only while the receive queue is full.  The code does not       *)
(* satisfy it: an event that fills the queue between the test and the      *)
(* dequeue detaches the interrupt, and nothing attaches it again.          *)
(***************************************************************************)
DetachedOnlyWhenFull ==
    ~polled /\ pc = "idle" /\ ~attached => Full(rxq, rxHead)
=============================================================================
