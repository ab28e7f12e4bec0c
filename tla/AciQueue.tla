------------------------------ MODULE AciQueue -----------------------------
(***************************************************************************)
(* One aci_queue_t (Source/aci_queue.c) shared by the main context and the *)
(* interrupt service routine m_aci_isr, each at one end of it: the main    *)
(* context consumes the receive queue and produces into the transmit       *)
(* queue.  The functions the main context calls test the indices with      *)
(* interrupts off, but copy the packet and advance their index with        *)
(* interrupts on, so the routine can run between those steps.  The         *)
(* routine itself is never interrupted: its calls are one step each.       *)
(*                                                                         *)
(* head and tail are uint8_t and count modulo IndexWrap; the packet of     *)
(* index n lies in slot n % QueueSize.  The test for a full queue adds     *)
(* QueueSize to head as an int, which does not wrap (aci_queue.c:148,      *)
(* 160): with head within QueueSize of the wrap no queue is found full,    *)
(* and an enqueue then overwrites the oldest packet.                       *)
(***************************************************************************)
EXTENDS Integers, Sequences

CONSTANTS Messages,      \* packets
          NoMessage,     \* a slot or buffer nothing was written to
          QueueSize,     \* ACI_QUEUE_SIZE
          IndexWrap,     \* 2^8
          MaxCount       \* bound on the packets an overrun queue counts

ASSUME AciQueueAssumption ==
    /\ NoMessage \notin Messages
    /\ QueueSize \in Nat \ {0}
    /\ IndexWrap \in Nat
    /\ QueueSize < IndexWrap
    /\ IndexWrap % QueueSize = 0
    /\ MaxCount \in Nat

VARIABLES mainProduces, \* the transmit queue, not the receive queue
          head, tail,   \* aci_q->head, aci_q->tail
          data,         \* aci_q->aci_data
          call,         \* where the main context is in its call
          buffer,       \* *p_data of the main context's call
          delivered,    \* the packet the consumer's last call handed out
          overrun       \* history: a packet that waited was overwritten

queueVars == <<mainProduces, head, tail, data, call, buffer, delivered, overrun>>

Index == 0 .. IndexWrap - 1
Cells == 0 .. QueueSize - 1

Steps == {"idle", "write", "writeDone", "read", "readDone", "peek"}

QueueTypeOK ==
    /\ mainProduces \in BOOLEAN
    /\ head \in Index
    /\ tail \in Index
    /\ data \in [Cells -> Messages \cup {NoMessage}]
    /\ call \in Steps
    /\ buffer \in Messages \cup {NoMessage}
    /\ delivered \in Messages \cup {NoMessage}
    /\ overrun \in BOOLEAN

\* aci_queue_init, called by hal_aci_tl_init before the interrupt is attached
QueueInit ==
    /\ mainProduces \in BOOLEAN
    /\ head = 0
    /\ tail = 0
    /\ data = [c \in Cells |-> NoMessage]
    /\ call = "idle"
    /\ buffer = NoMessage
    /\ delivered = NoMessage
    /\ overrun = FALSE

IsEmpty == head = tail

\* Seeded fault: the queue is found full one packet too late.
FaultFullLate == tail = head + QueueSize + 1

\* tail == head + ACI_QUEUE_SIZE, in int arithmetic
IsFull == tail = head + QueueSize

\* Seeded fault: the index goes back to 0 one step early.
FaultAdvance(n) == (n + 1) % (IndexWrap - 1)

Advance(n) == (n + 1) % IndexWrap

\* The packets between head and tail.
Count == (tail - head) % IndexWrap

Contents == [k \in 1 .. Count |-> data[(head + k - 1) % QueueSize]]

\* A write behind the tail covers a packet that still waits.
Covers == Count >= QueueSize

-----------------------------------------------------------------------------
(* aci_queue_enqueue in the main context *)

EnqueueCheck(m) ==
    /\ mainProduces /\ call = "idle"
    /\ ~IsFull /\ Count < MaxCount
    /\ buffer' = m
    /\ call' = "write"
    /\ UNCHANGED <<mainProduces, head, tail, data, delivered, overrun>>

EnqueueWrite ==
    /\ call = "write"
    /\ data' = [data EXCEPT ![tail % QueueSize] = buffer]
    /\ overrun' = (overrun \/ Covers)
    /\ call' = "writeDone"
    /\ UNCHANGED <<mainProduces, head, tail, buffer, delivered>>

EnqueueAdvance ==
    /\ call = "writeDone"
    /\ tail' = Advance(tail)
    /\ call' = "idle"
    /\ buffer' = NoMessage
    /\ UNCHANGED <<mainProduces, head, data, delivered, overrun>>

(* aci_queue_dequeue in the main context *)

DequeueCheck ==
    /\ ~mainProduces /\ call = "idle"
    /\ ~IsEmpty
    /\ call' = "read"
    /\ UNCHANGED <<mainProduces, head, tail, data, buffer, delivered, overrun>>

DequeueRead ==
    /\ call = "read"
    /\ buffer' = data[head % QueueSize]
    /\ call' = "readDone"
    /\ UNCHANGED <<mainProduces, head, tail, data, delivered, overrun>>

DequeueAdvance ==
    /\ call = "readDone"
    /\ head' = Advance(head)
    /\ delivered' = buffer
    /\ call' = "idle"
    /\ buffer' = NoMessage
    /\ UNCHANGED <<mainProduces, tail, data, overrun>>

(* aci_queue_peek in the main context *)

PeekCheck ==
    /\ ~mainProduces /\ call = "idle"
    /\ ~IsEmpty
    /\ call' = "peek"
    /\ UNCHANGED <<mainProduces, head, tail, data, buffer, delivered, overrun>>

PeekRead ==
    /\ call = "peek"
    /\ delivered' = data[head % QueueSize]
    /\ call' = "idle"
    /\ UNCHANGED <<mainProduces, head, tail, data, buffer, overrun>>

(* m_aci_q_flush re-initialises the queue with interrupts off.             *)
Reinitialise ==
    /\ call = "idle"
    /\ head' = 0
    /\ tail' = 0
    /\ data' = [c \in Cells |-> NoMessage]
    /\ overrun' = FALSE
    /\ UNCHANGED <<mainProduces, call, buffer, delivered>>

-----------------------------------------------------------------------------
(* The calls of the interrupt service routine *)

EnqueueFromIsr(m) ==
    /\ ~mainProduces
    /\ ~IsFull /\ Count < MaxCount
    /\ data' = [data EXCEPT ![tail % QueueSize] = m]
    /\ tail' = Advance(tail)
    /\ overrun' = (overrun \/ Covers)
    /\ UNCHANGED <<mainProduces, head, call, buffer, delivered>>

DequeueFromIsr ==
    /\ mainProduces
    /\ ~IsEmpty
    /\ delivered' = data[head % QueueSize]
    /\ head' = Advance(head)
    /\ UNCHANGED <<mainProduces, tail, data, call, buffer, overrun>>

QueueNext ==
    \/ \E m \in Messages : EnqueueCheck(m) \/ EnqueueFromIsr(m)
    \/ EnqueueWrite \/ EnqueueAdvance
    \/ DequeueCheck \/ DequeueRead \/ DequeueAdvance
    \/ PeekCheck \/ PeekRead
    \/ Reinitialise
    \/ DequeueFromIsr

QueueSpec == QueueInit /\ [][QueueNext]_queueVars

-----------------------------------------------------------------------------
F == INSTANCE Fifo WITH Capacity <- QueueSize, queue <- Contents, out <- delivered

(***************************************************************************)
(* Behind the indices is the FIFO queue the header promises, at every      *)
(* interleaving of the main context's steps with the routine and across    *)
(* the wrap of both indices, until a waiting packet is overwritten: each   *)
(* call takes effect in the one step that advances its index               *)
(* (aci_queue.c:45-113, 163-176).                                          *)
(***************************************************************************)
IsFifo == F!Init /\ [][overrun' \/ F!Next]_<<Contents, delivered>>

(***************************************************************************)
(* That happens only where the test for a full queue cannot see that it    *)
(* is: with head within QueueSize of the wrap (aci_queue.c:139-161).       *)
(***************************************************************************)
OverrunAtWrap == [][overrun' => overrun \/ head + QueueSize >= IndexWrap]_queueVars

(***************************************************************************)
(* "A FIFO queue is maintained for packets" (aci_queue.h:46): without the  *)
(* exception, which the code does not satisfy.                             *)
(***************************************************************************)
AlwaysFifo == F!Spec

=============================================================================
