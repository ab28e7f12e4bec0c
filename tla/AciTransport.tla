---------------------------- MODULE AciTransport ---------------------------
(***************************************************************************)
(* The ACI transport layer of Source/hal_aci_tl.c with the interrupt-      *)
(* driven interface: the main context calls hal_aci_tl_send, _event_get,   *)
(* _event_peek and _q_flush, each a sequence of steps between which the    *)
(* interrupt service routine m_aci_isr may run a transfer with the         *)
(* nRF8001.  The routine is attached to the low level of the RDYN line     *)
(* and is not interrupted itself: it is one step.                          *)
(*                                                                         *)
(* The two queues are sequences, each with the head of its aci_queue_t: an *)
(* enqueue or a dequeue takes effect in one step, as AciQueue shows, but   *)
(* with head within Size of the wrap a queue is never found full           *)
(* (aci_queue.c:148, 160), and an enqueue into one that is overwrites what *)
(* waits in it.  Commands and events are numbered in the order they are    *)
(* issued.  The radio is external: it answers REQN low, and an event of    *)
(* its own, by pulling RDYN low.                                           *)
(***************************************************************************)
EXTENDS Integers, Sequences

CONSTANTS Size,         \* ACI_QUEUE_SIZE
          Wrap,         \* 2^8
          MaxCommands,  \* bound on the commands the application issues
          MaxEvents,    \* bound on the events the radio produces
          Flushes       \* whether the application calls hal_aci_tl_q_flush

ASSUME TransportAssumption ==
    /\ Size \in Nat \ {0}
    /\ Wrap \in Nat /\ Size < Wrap /\ Wrap % Size = 0
    /\ MaxCommands \in Nat
    /\ MaxEvents \in Nat
    /\ Flushes \in BOOLEAN

VARIABLES txq, rxq,      \* the packets in aci_tx_q, aci_rx_q
          txHead, rxHead, \* their heads
          reqnLow,       \* the REQN line is driven low
          rdynLow,       \* the radio holds the RDYN line low
          attached,      \* the interrupt is attached
          spinning,      \* the routine is in its while(1)
          pc,            \* where the main context is
          wasFull,       \* was_full of hal_aci_tl_event_get
          pending,       \* events the radio has not handed over, oldest first
          issued,        \* commands accepted so far
          produced,      \* events produced so far
          received,      \* commands the radio received, in order
          handed,        \* events the application got, in order
          lostCommands,  \* commands and events a flush threw away
          lostEvents,
          txOverrun,     \* a packet waiting in the queue was overwritten
          rxOverrun

lines == <<reqnLow, rdynLow, attached, spinning>>
lost == <<lostCommands, lostEvents>>
history == <<issued, produced, received, handed, lost>>
tx == <<txq, txHead, txOverrun>>
rx == <<rxq, rxHead, rxOverrun>>
vars == <<tx, rx, lines, pc, wasFull, pending, history>>

\* tail == head + ACI_QUEUE_SIZE, in int arithmetic
Full(q, head) == Len(q) = Size /\ head + Size < Wrap

Empty(q) == q = << >>

\* A packet written behind the tail covers those in the same slot; when tail
\* has gone all the way round to head the queue is empty.
Put(q, packet) ==
    IF Len(q) + 1 = Wrap THEN << >>
    ELSE Append([k \in 1 .. Len(q) |-> IF (Len(q) + 1 - k) % Size = 0
                                       THEN packet ELSE q[k]], packet)

Past(head) == (head + 1) % Wrap

Places == {"idle", "sendCheck", "sendReqn", "getDequeue", "getAttach",
           "getCheckRx", "getCheckTx", "getReqn"}

TypeOK ==
    /\ txq \in Seq(1 .. MaxCommands) /\ Len(txq) < Wrap
    /\ rxq \in Seq(1 .. MaxEvents) /\ Len(rxq) < Wrap
    /\ ~txOverrun => Len(txq) <= Size
    /\ ~rxOverrun => Len(rxq) <= Size
    /\ txHead \in 0 .. Wrap - 1 /\ rxHead \in 0 .. Wrap - 1
    /\ txOverrun \in BOOLEAN /\ rxOverrun \in BOOLEAN
    /\ reqnLow \in BOOLEAN
    /\ rdynLow \in BOOLEAN
    /\ attached \in BOOLEAN
    /\ spinning \in BOOLEAN
    /\ pc \in Places
    /\ wasFull \in BOOLEAN
    /\ pending \in Seq(1 .. MaxEvents)
    /\ issued \in 0 .. MaxCommands
    /\ produced \in 0 .. MaxEvents
    /\ received \in Seq(1 .. MaxCommands)
    /\ handed \in Seq(1 .. MaxEvents)
    /\ lostCommands \subseteq 1 .. MaxCommands
    /\ lostEvents \subseteq 1 .. MaxEvents

\* After hal_aci_tl_init: empty queues, REQN high, interrupt attached.
Init ==
    /\ txq = << >> /\ txHead = 0 /\ txOverrun = FALSE
    /\ rxq = << >> /\ rxHead = 0 /\ rxOverrun = FALSE
    /\ reqnLow = FALSE
    /\ rdynLow = FALSE
    /\ attached = TRUE
    /\ spinning = FALSE
    /\ pc = "idle"
    /\ wasFull = FALSE
    /\ pending = << >>
    /\ issued = 0 /\ produced = 0
    /\ received = << >> /\ handed = << >>
    /\ lostCommands = {} /\ lostEvents = {}

-----------------------------------------------------------------------------
(* The radio (external) *)

RadioEvent ==
    /\ produced < MaxEvents
    /\ produced' = produced + 1
    /\ pending' = Append(pending, produced + 1)
    /\ UNCHANGED <<tx, rx, lines, pc, wasFull, issued, received, handed, lost>>

RadioReady ==
    /\ ~rdynLow
    /\ reqnLow \/ pending # << >>
    /\ rdynLow' = TRUE
    /\ UNCHANGED <<tx, rx, reqnLow, attached, spinning, pc, wasFull, pending, history>>

-----------------------------------------------------------------------------
(* m_aci_isr.  One SPI transfer sends the oldest command, if there is one, *)
(* and receives the radio's oldest event, if it has one.                   *)

\* Seeded fault: an event received while a command is sent is dropped.
FaultHalfDuplex ==
    IF pending = << >> \/ ~Empty(txq) THEN rxq ELSE Put(rxq, Head(pending))

\* Seeded fault: the command sent stays in the queue.
FaultTxKept == txq

RxAfter == IF pending = << >> THEN rxq ELSE Put(rxq, Head(pending))

RxOverwrites == rxOverrun \/ (pending # << >> /\ Len(rxq) >= Size)

TxAfter == IF Empty(txq) THEN txq ELSE Tail(txq)

Transfer ==
    /\ txq' = TxAfter
    /\ txHead' = IF Empty(txq) THEN txHead ELSE Past(txHead)
    /\ UNCHANGED txOverrun
    /\ received' = IF Empty(txq) THEN received ELSE Append(received, Head(txq))
    /\ pending' = IF pending = << >> THEN pending ELSE Tail(pending)
    /\ rdynLow' = FALSE

Isr ==
    /\ attached /\ rdynLow /\ ~spinning
    /\ Transfer
    /\ reqnLow' = (~Full(rxq, rxHead) /\ ~Empty(TxAfter))
    /\ IF pending # << >> /\ Full(rxq, rxHead)
       THEN spinning' = TRUE /\ UNCHANGED <<rx, attached>>
       ELSE /\ rxq' = RxAfter
            /\ rxOverrun' = RxOverwrites
            /\ attached' = (pending = << >> \/ ~Full(RxAfter, rxHead))
            /\ UNCHANGED <<rxHead, spinning>>
    /\ UNCHANGED <<pc, wasFull, issued, produced, handed, lost>>

-----------------------------------------------------------------------------
(* hal_aci_tl_send.  While the routine spins the main context is dead.     *)

Main(from, to) == ~spinning /\ pc = from /\ pc' = to

Send ==
    /\ Main("idle", "sendCheck")
    /\ issued < MaxCommands
    /\ ~Full(txq, txHead)
    /\ txq' = Put(txq, issued + 1)
    /\ txOverrun' = (txOverrun \/ Len(txq) >= Size)
    /\ issued' = issued + 1
    /\ UNCHANGED <<txHead, rx, lines, wasFull, pending, produced, received, handed, lost>>

\* Seeded fault: the receive queue is taken for full when it holds anything.
FaultSendCheck ==
    /\ Main("sendCheck", IF ~Empty(rxq) THEN "idle" ELSE "sendReqn")
    /\ UNCHANGED <<tx, rx, lines, wasFull, pending, history>>

\* REQN is lowered only if an answer can be stored.
SendCheck ==
    /\ Main("sendCheck", IF Full(rxq, rxHead) THEN "idle" ELSE "sendReqn")
    /\ UNCHANGED <<tx, rx, lines, wasFull, pending, history>>

SendReqn ==
    /\ Main("sendReqn", "idle")
    /\ reqnLow' = TRUE
    /\ UNCHANGED <<tx, rx, rdynLow, attached, spinning, wasFull, pending, history>>

-----------------------------------------------------------------------------
(* hal_aci_tl_event_get *)

\* Seeded fault: the interrupt is attached again before there is room.
FaultAttachEarly ==
    /\ Main("idle", "getDequeue")
    /\ wasFull' = Full(rxq, rxHead)
    /\ attached' = TRUE
    /\ UNCHANGED <<tx, rx, reqnLow, rdynLow, spinning, pending, history>>

GetWasFull ==
    /\ Main("idle", "getDequeue")
    /\ wasFull' = Full(rxq, rxHead)
    /\ UNCHANGED <<tx, rx, lines, pending, history>>

GetNothing ==
    /\ Main("getDequeue", "idle")
    /\ Empty(rxq)
    /\ UNCHANGED <<tx, rx, lines, wasFull, pending, history>>

GetDequeue ==
    /\ Main("getDequeue", "getAttach")
    /\ ~Empty(rxq)
    /\ rxq' = Tail(rxq) /\ rxHead' = Past(rxHead)
    /\ handed' = Append(handed, Head(rxq))
    /\ UNCHANGED <<tx, rxOverrun, lines, wasFull, pending, issued, produced, received, lost>>

GetAttach ==
    /\ Main("getAttach", "getCheckRx")
    /\ attached' = (attached \/ wasFull)
    /\ UNCHANGED <<tx, rx, reqnLow, rdynLow, spinning, wasFull, pending, history>>

GetCheckRx ==
    /\ Main("getCheckRx", IF Full(rxq, rxHead) THEN "idle" ELSE "getCheckTx")
    /\ UNCHANGED <<tx, rx, lines, wasFull, pending, history>>

GetCheckTx ==
    /\ Main("getCheckTx", IF Empty(txq) THEN "idle" ELSE "getReqn")
    /\ UNCHANGED <<tx, rx, lines, wasFull, pending, history>>

GetReqn ==
    /\ Main("getReqn", "idle")
    /\ reqnLow' = TRUE
    /\ UNCHANGED <<tx, rx, rdynLow, attached, spinning, wasFull, pending, history>>

-----------------------------------------------------------------------------
(* m_aci_q_flush, with interrupts off *)

Items(q) == {q[k] : k \in DOMAIN q}

Flush ==
    /\ Flushes
    /\ Main("idle", "idle")
    /\ txq' = << >> /\ txHead' = 0
    /\ rxq' = << >> /\ rxHead' = 0
    /\ lostCommands' = lostCommands \cup Items(txq)
    /\ lostEvents' = lostEvents \cup Items(rxq)
    /\ UNCHANGED <<txOverrun, rxOverrun, lines, wasFull, pending, issued, produced,
                   received, handed>>

Get == GetWasFull \/ GetNothing \/ GetDequeue \/ GetAttach \/ GetCheckRx
           \/ GetCheckTx \/ GetReqn

Next == RadioEvent \/ RadioReady \/ Isr \/ Send \/ SendCheck \/ SendReqn \/ Get \/ Flush

Spec == Init /\ [][Next]_vars

-----------------------------------------------------------------------------
(***************************************************************************)
(* The routine never spins: it is not attached while the receive queue is  *)
(* full, so there is always room for the event it receives, wherever it    *)
(* interrupts the main context, unless the receive queue has been overrun: *)
(* counting too many packets, it may be found full by an event that comes  *)
(* after one was taken (hal_aci_tl.c:106-119, 307-321).                    *)
(***************************************************************************)
NeverSpins == rxOverrun \/ (~spinning /\ (attached => ~Full(rxq, rxHead)))

(***************************************************************************)
(* A packet that waits is overwritten only with the head of its queue      *)
(* within ACI_QUEUE_SIZE of the wrap: everywhere else hal_aci_tl_send, the *)
(* routine and the polled check find the full queue full                   *)
(* (hal_aci_tl.c:106-119, 133-136, 203-210).                               *)
(***************************************************************************)
CoveredAtWrap ==
    [][/\ rxOverrun' => rxOverrun \/ rxHead + Size >= Wrap
       /\ txOverrun' => txOverrun \/ txHead + Size >= Wrap]_vars

(***************************************************************************)
(* Between the application and the radio no event is lost, repeated or     *)
(* reordered but for those a flush throws away, and no accepted command    *)
(* is, as long as no packet was put into a full queue at the wrap of its   *)
(* head (hal_aci_tl.c:82-123, 203-210, 298-333, 392-418).                  *)
(***************************************************************************)
\* q holds the numbers up to n but for those that are gone, each once, in order.
InOrder(q, n, gone) ==
    /\ \A j, k \in DOMAIN q : j < k => q[j] < q[k]
    /\ Items(q) = (1 .. n) \ gone

EventsInOrder == rxOverrun \/ InOrder(handed \o rxq \o pending, produced, lostEvents)

CommandsInOrder == txOverrun \/ InOrder(received \o txq, issued, lostCommands)

(***************************************************************************)
(* No command is forgotten: when the main context is outside the layer, a  *)
(* command waits, and there is room for an answer, then REQN is low, so    *)
(* the radio will ask for it (hal_aci_tl.c:98-101, 323-327, 405-409).      *)
(***************************************************************************)
CommandRequested ==
    pc = "idle" /\ ~Empty(txq) /\ ~Full(rxq, rxHead) => reqnLow
=============================================================================
