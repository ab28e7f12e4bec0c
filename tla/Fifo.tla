------------------------------- MODULE Fifo --------------------------------
(***************************************************************************)
(* What Include/aci_queue.h:44-50 promises of an aci_queue_t: packets are  *)
(* added at the tail, taken from the head, in order, none lost and none    *)
(* invented, and never more than the queue has room for.  The same is true *)
(* of the rings of samples in HeartRate.                                   *)
(***************************************************************************)
EXTENDS Naturals, Sequences

CONSTANTS Messages, NoMessage, Capacity

VARIABLES queue,   \* the packets waiting, head first
          out      \* the packet the last dequeue or peek handed out

Init == queue = << >> /\ out = NoMessage

Put(m) ==
    /\ Len(queue) < Capacity
    /\ queue' = Append(queue, m)
    /\ UNCHANGED out

Take ==
    /\ queue # << >>
    /\ out' = Head(queue)
    /\ queue' = Tail(queue)

Peek ==
    /\ queue # << >>
    /\ out' = Head(queue)
    /\ UNCHANGED queue

Clear == queue' = << >> /\ UNCHANGED out

Next == (\E m \in Messages : Put(m)) \/ Take \/ Peek \/ Clear

Spec == Init /\ [][Next]_<<queue, out>>
=============================================================================
