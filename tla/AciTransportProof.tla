------------------------- MODULE AciTransportProof --------------------------
(***************************************************************************)
(* The transport with either of its interfaces, for every queue size and   *)
(* any number of commands and events.  A packet that waits is overwritten  *)
(* only with the head of its queue near the wrap; until one is, the        *)
(* interrupt service routine does not reach its while(1), and commands and *)
(* events arrive complete and in order but for those a flush threw away.   *)
(* No command is ever left without a request for its transfer.  The        *)
(* invariants are proved for the steps of the interrupt-driven interface   *)
(* first, then for those of the polled one.  Last comes the ring of        *)
(* aci_queue.c behind each of the transport's two queues: whatever step of *)
(* the main context the routine runs between, it is a FIFO queue until a   *)
(* packet that waits is overwritten.                                       *)
(***************************************************************************)
EXTENDS AciPolling, AciQueue, SequenceTheorems, TLAPS

(***************************************************************************)
(* Lengths of the sequences the queues are changed to.                     *)
(***************************************************************************)
LEMMA AppendLength ==
    ASSUME NEW S, NEW q \in Seq(S), NEW e \in S
    PROVE  Append(q, e) \in Seq(S) /\ Len(Append(q, e)) = Len(q) + 1
OBVIOUS

LEMMA TailLength ==
    ASSUME NEW S, NEW q \in Seq(S), q # << >>
    PROVE  Tail(q) \in Seq(S) /\ Len(Tail(q)) = Len(q) - 1 /\ Head(q) \in S
OBVIOUS

LEMMA EmptyLength ==
    ASSUME NEW S, NEW q \in Seq(S)
    PROVE  Len(q) \in Nat /\ (q = << >> <=> Len(q) = 0)
OBVIOUS

LEMMA EmptySequence == \A S : << >> \in Seq(S) /\ Len(<< >>) = 0
OBVIOUS

LEMMA PastHead == \A h \in 0 .. Wrap - 1 : Past(h) \in 0 .. Wrap - 1
BY TransportAssumption DEF Past

(***************************************************************************)
(* A packet put into a queue with room is its last, and covers none.       *)
(***************************************************************************)
LEMMA PutRoom ==
    ASSUME NEW S, NEW q \in Seq(S), NEW e \in S, Len(q) < Size
    PROVE  Put(q, e) = Append(q, e) /\ Len(Put(q, e)) = Len(q) + 1
<1> DEFINE kept == [k \in 1 .. Len(q) |-> IF (Len(q) + 1 - k) % Size = 0 THEN e ELSE q[k]]
<1>1. Len(q) \in Nat /\ Len(q) + 1 # Wrap
  BY EmptyLength, TransportAssumption
<1>2. ASSUME NEW k \in 1 .. Len(q) PROVE kept[k] = q[k]
  <2>1. Len(q) + 1 - k \in 1 .. Size - 1
    BY <1>1, TransportAssumption
  <2>2. (Len(q) + 1 - k) % Size = Len(q) + 1 - k
    BY <2>1, TransportAssumption
  <2>3. ~((Len(q) + 1 - k) % Size = 0)
    BY <2>1, <2>2
  <2> QED BY <2>3
<1>3. kept = q
  <2>1. q = [k \in 1 .. Len(q) |-> q[k]]
    OBVIOUS
  <2> QED BY <1>2, <2>1
<1>4. Put(q, e) = Append(kept, e)
  BY <1>1 DEF Put
<1> QED BY <1>3, <1>4, AppendLength

LEMMA PutLength ==
    ASSUME NEW S, NEW q \in Seq(S), NEW e \in S, Len(q) < Wrap
    PROVE  Put(q, e) \in Seq(S) /\ Len(Put(q, e)) < Wrap
<1> DEFINE kept == [k \in 1 .. Len(q) |-> IF (Len(q) + 1 - k) % Size = 0 THEN e ELSE q[k]]
<1>1. Len(q) \in Nat /\ Wrap \in Nat \ {0}
  BY EmptyLength, TransportAssumption
<1>2. kept \in Seq(S) /\ Len(kept) = Len(q)
  <2>1. \A k \in 1 .. Len(q) : kept[k] \in S
    OBVIOUS
  <2>2. kept \in [1 .. Len(q) -> S]
    BY <2>1
  <2> QED BY <1>1, <2>2
<1> HIDE DEF kept
<1>3. CASE Len(q) + 1 = Wrap
  BY <1>1, <1>3, EmptySequence DEF Put
<1>4. CASE Len(q) + 1 # Wrap
  <2>1. Put(q, e) = Append(kept, e)
    BY <1>4 DEF Put, kept
  <2> QED BY <1>1, <1>2, <1>4, <2>1, AppendLength
<1> QED BY <1>3, <1>4

-----------------------------------------------------------------------------
(* Types, the lines apart from the queues *)

LinesOK ==
    /\ reqnLow \in BOOLEAN /\ rdynLow \in BOOLEAN
    /\ attached \in BOOLEAN /\ spinning \in BOOLEAN
    /\ wasFull \in BOOLEAN
    /\ pc \in Places
    /\ txHead \in 0 .. Wrap - 1 /\ rxHead \in 0 .. Wrap - 1
    /\ txOverrun \in BOOLEAN /\ rxOverrun \in BOOLEAN

QueuesOK ==
    /\ txq \in Seq(1 .. MaxCommands) /\ Len(txq) < Wrap
    /\ rxq \in Seq(1 .. MaxEvents) /\ Len(rxq) < Wrap
    /\ ~txOverrun => Len(txq) <= Size
    /\ ~rxOverrun => Len(rxq) <= Size
    /\ pending \in Seq(1 .. MaxEvents)
    /\ issued \in 0 .. MaxCommands
    /\ produced \in 0 .. MaxEvents
    /\ received \in Seq(1 .. MaxCommands)
    /\ handed \in Seq(1 .. MaxEvents)

LostOK ==
    /\ lostCommands \subseteq 1 .. MaxCommands
    /\ lostEvents \subseteq 1 .. MaxEvents

LEMMA TypeParts == TypeOK <=> LinesOK /\ QueuesOK /\ LostOK
BY DEF TypeOK, LinesOK, QueuesOK, LostOK

LEMMA InitTypeOK == Init => TypeOK
<1> SUFFICES ASSUME Init PROVE TypeOK
  OBVIOUS
<1>1. LinesOK
  <2>1. 0 \in 0 .. Wrap - 1
    BY TransportAssumption
  <2> QED BY <2>1 DEF Init, LinesOK, Places
<1>2. /\ txq = << >> /\ rxq = << >> /\ pending = << >> /\ received = << >>
      /\ handed = << >> /\ issued = 0 /\ produced = 0
  BY DEF Init
<1>3. QueuesOK
  BY <1>2, EmptySequence, TransportAssumption DEF QueuesOK
<1>4. LostOK
  BY DEF Init, LostOK
<1> QED BY <1>1, <1>3, <1>4, TypeParts

LEMMA NextLinesOK == LinesOK /\ [Next]_vars => LinesOK'
<1> SUFFICES ASSUME LinesOK, [Next]_vars PROVE LinesOK'
  OBVIOUS
<1>1. /\ txHead' \in {txHead, Past(txHead), 0} /\ rxHead' \in {rxHead, Past(rxHead), 0}
      /\ txOverrun' \in BOOLEAN /\ rxOverrun' \in BOOLEAN
  <2> USE DEF LinesOK, tx, rx
  <2>1. CASE Isr
    BY <2>1 DEF Isr, Transfer, RxOverwrites
  <2>2. CASE RadioEvent \/ RadioReady \/ Send \/ SendCheck \/ SendReqn
    BY <2>2 DEF RadioEvent, RadioReady, Send, SendCheck, SendReqn
  <2>3. CASE Get
    BY <2>3 DEF Get, GetWasFull, GetNothing, GetDequeue, GetAttach, GetCheckRx, GetCheckTx,
                GetReqn
  <2>4. CASE Flush
    BY <2>4 DEF Flush
  <2>5. CASE UNCHANGED vars
    BY <2>5 DEF vars
  <2> QED BY <2>1, <2>2, <2>3, <2>4, <2>5 DEF Next
<1>2. txHead' \in 0 .. Wrap - 1 /\ rxHead' \in 0 .. Wrap - 1
  <2>1. 0 \in 0 .. Wrap - 1
    BY TransportAssumption
  <2> QED BY <1>1, <2>1, PastHead DEF LinesOK
<1>3. /\ reqnLow' \in BOOLEAN /\ rdynLow' \in BOOLEAN
      /\ attached' \in BOOLEAN /\ spinning' \in BOOLEAN
      /\ wasFull' \in BOOLEAN /\ pc' \in Places
  <2> USE DEF LinesOK, Places, lines, Main
  <2>1. CASE RadioEvent \/ RadioReady
    BY <2>1 DEF RadioEvent, RadioReady
  <2>2. CASE Isr
    BY <2>2 DEF Isr, Transfer
  <2>3. CASE Send \/ SendCheck \/ SendReqn \/ Flush
    BY <2>3 DEF Send, SendCheck, SendReqn, Flush
  <2>4. CASE GetWasFull
    BY <2>4 DEF GetWasFull, Full
  <2>5. CASE GetNothing \/ GetDequeue
    BY <2>5 DEF GetNothing, GetDequeue
  <2>6. CASE GetAttach
    <3>1. attached' \in BOOLEAN
      BY <2>6 DEF GetAttach
    <3> QED BY <2>6, <3>1 DEF GetAttach
  <2>7. CASE GetCheckRx \/ GetCheckTx
    BY <2>7 DEF GetCheckRx, GetCheckTx
  <2>8. CASE GetReqn
    BY <2>8 DEF GetReqn
  <2>9. CASE UNCHANGED vars
    BY <2>9 DEF vars
  <2> QED BY <2>1, <2>2, <2>3, <2>4, <2>5, <2>6, <2>7, <2>8, <2>9 DEF Next, Get
<1> QED BY <1>1, <1>2, <1>3 DEF LinesOK

(***************************************************************************)
(* What an event stored, and a command taken, make of the queues.          *)
(***************************************************************************)
LEMMA StoreEvent ==
    ASSUME QueuesOK
    PROVE  /\ RxAfter \in Seq(1 .. MaxEvents) /\ Len(RxAfter) < Wrap
           /\ ~RxOverwrites => Len(RxAfter) <= Size
           /\ ~RxOverwrites /\ pending # << >> => RxAfter = Append(rxq, Head(pending))
<1> USE DEF QueuesOK
<1>1. Len(rxq) \in Nat
  BY EmptyLength
<1>2. CASE pending = << >>
  BY <1>2 DEF RxAfter, RxOverwrites
<1>3. CASE pending # << >>
  <2>1. Head(pending) \in 1 .. MaxEvents /\ RxAfter = Put(rxq, Head(pending))
    BY <1>3, TailLength DEF RxAfter
  <2>2. RxAfter \in Seq(1 .. MaxEvents) /\ Len(RxAfter) < Wrap
    BY <2>1, PutLength
  <2>3. ASSUME ~RxOverwrites
        PROVE  RxAfter = Append(rxq, Head(pending)) /\ Len(RxAfter) <= Size
    <3>1. Len(rxq) < Size
      BY <1>1, <1>3, <2>3, TransportAssumption DEF RxOverwrites
    <3> QED BY <1>1, <2>1, <3>1, PutRoom, TransportAssumption
  <2> QED BY <2>2, <2>3
<1> QED BY <1>2, <1>3

LEMMA TakeCommand ==
    ASSUME QueuesOK, Transfer
    PROVE  /\ txq' \in Seq(1 .. MaxCommands) /\ Len(txq') < Wrap
           /\ ~txOverrun' => Len(txq') <= Size
           /\ received' \in Seq(1 .. MaxCommands)
           /\ pending' \in Seq(1 .. MaxEvents)
<1> USE DEF QueuesOK
<1>1. /\ txq' = IF txq = << >> THEN txq ELSE Tail(txq)
      /\ UNCHANGED txOverrun /\ Len(txq) \in Nat
  BY EmptyLength DEF Transfer, TxAfter, Empty
<1>2. /\ txq' \in Seq(1 .. MaxCommands) /\ Len(txq') < Wrap
      /\ ~txOverrun' => Len(txq') <= Size
  <2>1. CASE txq = << >>
    BY <1>1, <2>1
  <2>2. CASE txq # << >>
    <3>1. txq' \in Seq(1 .. MaxCommands) /\ Len(txq') = Len(txq) - 1
      BY <1>1, <2>2, TailLength
    <3> QED BY <1>1, <3>1, TransportAssumption
  <2> QED BY <2>1, <2>2
<1>3. received' \in Seq(1 .. MaxCommands)
  BY TailLength, AppendLength DEF Transfer, Empty
<1>4. pending' \in Seq(1 .. MaxEvents)
  BY TailLength DEF Transfer
<1> QED BY <1>2, <1>3, <1>4

LEMMA NextQueuesOK == QueuesOK /\ LinesOK /\ [Next]_vars => QueuesOK'
<1> SUFFICES ASSUME QueuesOK, LinesOK, [Next]_vars PROVE QueuesOK'
  OBVIOUS
<1> USE TransportAssumption DEF QueuesOK, tx, rx
<1>1. CASE RadioEvent
  <2>1. produced + 1 \in 1 .. MaxEvents /\ produced' = produced + 1
        /\ pending' = Append(pending, produced + 1)
        /\ UNCHANGED <<txq, rxq, txOverrun, rxOverrun, issued, received, handed>>
    BY <1>1 DEF RadioEvent
  <2> QED BY <2>1, AppendLength
<1>2. CASE Isr
  <2>1. /\ txq' \in Seq(1 .. MaxCommands) /\ Len(txq') < Wrap
        /\ ~txOverrun' => Len(txq') <= Size
        /\ received' \in Seq(1 .. MaxCommands) /\ pending' \in Seq(1 .. MaxEvents)
    BY <1>2, TakeCommand DEF Isr
  <2>2. /\ rxq' \in Seq(1 .. MaxEvents) /\ Len(rxq') < Wrap
        /\ ~rxOverrun' => Len(rxq') <= Size
    BY <1>2, StoreEvent DEF Isr
  <2> QED BY <1>2, <2>1, <2>2 DEF Isr
<1>3. CASE Send
  <2>1. /\ issued + 1 \in 1 .. MaxCommands /\ issued' = issued + 1
        /\ txq' = Put(txq, issued + 1) /\ txOverrun' = (txOverrun \/ Len(txq) >= Size)
        /\ UNCHANGED <<rxq, rxOverrun, pending, produced, received, handed>>
    BY <1>3 DEF Send, lines
  <2>2. Len(txq) \in Nat
    BY EmptyLength
  <2>3. txq' \in Seq(1 .. MaxCommands) /\ Len(txq') < Wrap
    BY <2>1, PutLength
  <2>4. ASSUME ~txOverrun' PROVE Len(txq') <= Size
    <3>1. ~(txOverrun \/ Len(txq) >= Size)
      BY <2>1, <2>4, Zenon
    <3>2. Len(txq) < Size
      BY <2>2, <3>1
    <3>3. Len(txq') = Len(txq) + 1
      BY <2>1, <3>2, PutRoom
    <3> QED BY <2>2, <3>2, <3>3
  <2> QED BY <2>1, <2>3, <2>4
<1>4. CASE GetDequeue
  <2>1. rxq # << >> /\ rxq' = Tail(rxq) /\ handed' = Append(handed, Head(rxq))
        /\ UNCHANGED <<txq, txOverrun, rxOverrun, pending, issued, produced, received>>
    BY <1>4 DEF GetDequeue, Empty, lines
  <2>2. Len(rxq) \in Nat
    BY EmptyLength
  <2> QED BY <2>1, <2>2, AppendLength, TailLength
<1>5. CASE Flush
  BY <1>5, EmptySequence DEF Flush, history
<1>6. CASE UNCHANGED <<txq, rxq, txOverrun, rxOverrun, pending, history>>
  BY <1>6 DEF history
<1> QED BY <1>1, <1>2, <1>3, <1>4, <1>5, <1>6
        DEF Next, RadioReady, SendCheck, SendReqn, Get, GetWasFull, GetNothing, GetAttach,
            GetCheckRx, GetCheckTx, GetReqn, vars

LEMMA ItemsOf ==
    ASSUME NEW S, NEW q \in Seq(S)
    PROVE  Items(q) \subseteq S
BY DEF Items

LEMMA NextLostOK == QueuesOK /\ LostOK /\ [Next]_vars => LostOK'
<1> SUFFICES ASSUME QueuesOK, LostOK, [Next]_vars PROVE LostOK'
  OBVIOUS
<1>1. CASE Flush
  BY <1>1, ItemsOf DEF Flush, LostOK, QueuesOK
<1>2. CASE UNCHANGED lost
  BY <1>2 DEF LostOK, lost
<1> QED BY <1>1, <1>2
        DEF Next, RadioEvent, RadioReady, Isr, Send, SendCheck, SendReqn, Get, GetWasFull,
            GetNothing, GetDequeue, GetAttach, GetCheckRx, GetCheckTx, GetReqn, vars, history

-----------------------------------------------------------------------------
(***************************************************************************)
(* The routine is attached only with room for an event.  While the main    *)
(* context is inside event_get and has seen the queue full, the interrupt  *)
(* is detached; it attaches it only after it made room.                    *)
(***************************************************************************)
Room == attached => ~Full(rxq, rxHead)

RoomKept ==
    /\ Room
    /\ pc \in {"getDequeue", "getAttach"} /\ wasFull => ~attached
    /\ pc = "getAttach" /\ wasFull => ~Full(rxq, rxHead)

IInv == TypeOK /\ (rxOverrun \/ (~spinning /\ RoomKept))

LEMMA InitIInv == Init => IInv
<1> SUFFICES ASSUME Init PROVE IInv
  OBVIOUS
<1>1. TypeOK
  BY InitTypeOK
<1>2. ~Full(rxq, rxHead)
  BY TransportAssumption, EmptySequence DEF Init, Full
<1> QED BY <1>1, <1>2 DEF Init, IInv, RoomKept, Room

(***************************************************************************)
(* An overrun is never forgotten.                                          *)
(***************************************************************************)
LEMMA OverrunStays ==
    [Next]_vars => (rxOverrun => rxOverrun') /\ (txOverrun => txOverrun')
<1> SUFFICES ASSUME [Next]_vars
             PROVE  (rxOverrun => rxOverrun') /\ (txOverrun => txOverrun')
  OBVIOUS
<1> USE DEF tx, rx
<1>1. CASE Isr
  BY <1>1 DEF Isr, Transfer, RxOverwrites
<1>2. CASE Send
  BY <1>2 DEF Send
<1>3. CASE ~Isr /\ ~Send
  BY <1>3 DEF Next, RadioEvent, RadioReady, SendCheck, SendReqn, Get, GetWasFull,
              GetNothing, GetDequeue, GetAttach, GetCheckRx, GetCheckTx, GetReqn, Flush, vars
<1> QED BY <1>1, <1>2, <1>3

LEMMA NextRoomKept ==
    QueuesOK /\ ~rxOverrun /\ ~spinning /\ RoomKept /\ [Next]_vars
        => ~spinning' /\ RoomKept'
<1> SUFFICES ASSUME QueuesOK, ~rxOverrun, ~spinning, RoomKept, [Next]_vars
             PROVE  ~spinning' /\ RoomKept'
  OBVIOUS
<1> USE DEF RoomKept, Room, lines, rx
<1>1. CASE RadioEvent \/ RadioReady
  BY <1>1 DEF RadioEvent, RadioReady, Full
<1>2. CASE Isr
  <2>1. attached /\ ~Full(rxq, rxHead) /\ ~spinning' /\ UNCHANGED <<pc, wasFull, rxHead>>
    BY <1>2 DEF Isr
  <2>2. rxq' = RxAfter /\ attached' = (pending = << >> \/ ~Full(RxAfter, rxHead))
    BY <1>2, <2>1 DEF Isr
  <2>3. attached' => ~Full(rxq', rxHead)
    BY <2>1, <2>2 DEF RxAfter
  <2>4. pc \in {"getDequeue", "getAttach"} => ~wasFull
    BY <2>1
  <2> QED BY <2>1, <2>3, <2>4 DEF Full
<1>3. CASE Send \/ SendCheck \/ SendReqn
  BY <1>3 DEF Send, SendCheck, SendReqn, Main, Full
<1>4. CASE GetWasFull
  BY <1>4 DEF GetWasFull, Main, Full
<1>5. CASE GetDequeue
  <2>1. Len(rxq') < Size
    <3>1. rxq # << >> /\ rxq' = Tail(rxq) /\ Len(rxq) <= Size /\ rxq \in Seq(1 .. MaxEvents)
      BY <1>5 DEF GetDequeue, Empty, QueuesOK
    <3>2. Len(rxq) \in Nat
      BY <3>1, EmptyLength
    <3> QED BY <3>1, <3>2, TailLength, TransportAssumption
  <2>2. Len(rxq') # Size
    BY <2>1, TransportAssumption
  <2>3. ~Full(rxq, rxHead)'
    BY <2>2 DEF Full
  <2> QED BY <1>5, <2>3 DEF GetDequeue, Main
<1>6. CASE GetAttach
  BY <1>6 DEF GetAttach, Main, Full
<1>7. CASE GetNothing \/ GetCheckRx \/ GetCheckTx \/ GetReqn
  BY <1>7 DEF GetNothing, GetCheckRx, GetCheckTx, GetReqn, Main, Full
<1>8. CASE Flush
  <2>1. rxq' = << >> /\ UNCHANGED <<attached, spinning>> /\ pc' = "idle"
    BY <1>8 DEF Flush, Main
  <2>2. ~Full(rxq, rxHead)'
    BY <2>1, EmptySequence, TransportAssumption DEF Full
  <2> QED BY <2>1, <2>2
<1>9. CASE UNCHANGED vars
  BY <1>9 DEF vars, Full
<1> QED BY <1>1, <1>2, <1>3, <1>4, <1>5, <1>6, <1>7, <1>8, <1>9 DEF Next, Get

LEMMA NextIInv == IInv /\ [Next]_vars => IInv'
<1> SUFFICES ASSUME IInv, [Next]_vars PROVE IInv'
  OBVIOUS
<1>1. LinesOK /\ QueuesOK /\ LostOK
  BY TypeParts DEF IInv
<1>2. LinesOK' /\ QueuesOK' /\ LostOK'
  BY <1>1, NextLinesOK, NextQueuesOK, NextLostOK
<1>3. TypeOK'
  BY <1>2 DEF TypeOK, LinesOK, QueuesOK, LostOK
<1>4. rxOverrun' \/ (~spinning' /\ RoomKept')
  BY <1>1, OverrunStays, NextRoomKept DEF IInv
<1> QED BY <1>3, <1>4 DEF IInv

-----------------------------------------------------------------------------
(***************************************************************************)
(* A waiting command is requested not only outside the layer but also in   *)
(* event_get up to the dequeue, where it may return without looking again. *)
(***************************************************************************)
Requested ==
    pc \in {"idle", "getDequeue"} /\ ~Empty(txq) /\ ~Full(rxq, rxHead) => reqnLow

LEMMA NextRequested == Requested /\ [Next]_vars => Requested'
<1> SUFFICES ASSUME Requested, [Next]_vars PROVE Requested'
  OBVIOUS
<1> USE DEF Requested, lines, tx, rx
<1>1. CASE RadioEvent \/ RadioReady
  BY <1>1 DEF RadioEvent, RadioReady, Full, Empty
<1>2. CASE Isr
  <2>1. /\ txq' = TxAfter /\ rxHead' = rxHead
        /\ reqnLow' = (~Full(rxq, rxHead) /\ ~Empty(TxAfter))
    BY <1>2 DEF Isr, Transfer
  <2>2. Full(rxq, rxHead) => rxq' = rxq
    BY <1>2 DEF Isr, RxAfter
  <2>3. Full(rxq, rxHead) => Full(rxq', rxHead')
    BY <2>1, <2>2
  <2>4. Full(rxq, rxHead)' = Full(rxq', rxHead') /\ Empty(txq)' = Empty(TxAfter)
    BY <2>1 DEF Full, Empty
  <2> QED BY <2>1, <2>3, <2>4
<1>3. CASE Send \/ SendCheck \/ SendReqn
  BY <1>3 DEF Send, SendCheck, SendReqn, Main, Full, Empty
<1>4. CASE Get
  BY <1>4 DEF Get, GetWasFull, GetNothing, GetDequeue, GetAttach, GetCheckRx, GetCheckTx,
              GetReqn, Main, Full, Empty
<1>5. CASE Flush
  BY <1>5 DEF Flush, Main, Empty
<1>6. CASE UNCHANGED vars
  BY <1>6 DEF vars, Full, Empty
<1> QED BY <1>1, <1>2, <1>3, <1>4, <1>5, <1>6 DEF Next

-----------------------------------------------------------------------------
(***************************************************************************)
(* What the handlers do to the sequences between producer and consumer:    *)
(* an element is passed on from one to the next, added at the end, or a    *)
(* queue in the middle is emptied.                                         *)
(***************************************************************************)
LEMMA PassOn ==
    ASSUME NEW S, NEW s \in Seq(S), NEW t \in Seq(S), t # << >>
    PROVE  Append(s, Head(t)) \o Tail(t) = s \o t
<1>1. /\ Head(t) \in S /\ Tail(t) \in Seq(S) /\ Len(Tail(t)) = Len(t) - 1
      /\ \A k \in 1 .. Len(Tail(t)) : Tail(t)[k] = t[k + 1]
      /\ Head(t) = t[1]
  BY HeadTailProperties
<1>2. /\ Append(s, Head(t)) \in Seq(S) /\ Len(Append(s, Head(t))) = Len(s) + 1
      /\ \A k \in 1 .. Len(s) : Append(s, Head(t))[k] = s[k]
      /\ Append(s, Head(t))[Len(s) + 1] = Head(t)
  BY <1>1, AppendProperties
<1>3. Len(s) \in Nat /\ Len(t) \in Nat \ {0}
  BY LenProperties, EmptySeq
<1> DEFINE left == Append(s, Head(t)) \o Tail(t)
           right == s \o t
<1>4. /\ left \in Seq(S) /\ Len(left) = Len(s) + Len(t)
      /\ \A k \in 1 .. Len(s) + Len(t) : left[k] =
             IF k <= Len(s) + 1 THEN Append(s, Head(t))[k] ELSE Tail(t)[k - (Len(s) + 1)]
  <2>1. Len(Append(s, Head(t))) + Len(Tail(t)) = Len(s) + Len(t)
    BY <1>1, <1>2, <1>3
  <2> QED BY <1>1, <1>2, <2>1, ConcatProperties
<1>5. /\ right \in Seq(S) /\ Len(right) = Len(s) + Len(t)
      /\ \A k \in 1 .. Len(s) + Len(t) :
             right[k] = IF k <= Len(s) THEN s[k] ELSE t[k - Len(s)]
  BY ConcatProperties
<1> HIDE DEF left, right
<1>6. ASSUME NEW k \in 1 .. Len(s) + Len(t) PROVE left[k] = right[k]
  <2>1. CASE k <= Len(s)
    <3>1. k \in 1 .. Len(s) /\ k <= Len(s) + 1
      BY <1>3, <2>1
    <3>2. left[k] = Append(s, Head(t))[k]
      BY ONLY <1>4, <3>1, k \in 1 .. Len(s) + Len(t)
    <3>3. right[k] = s[k]
      BY ONLY <1>5, <3>1, k \in 1 .. Len(s) + Len(t)
    <3> QED BY <1>2, <3>1, <3>2, <3>3
  <2>2. CASE k = Len(s) + 1
    BY <1>1, <1>2, <1>3, <1>4, <1>5, <2>2
  <2>3. CASE k > Len(s) + 1
    <3>1. k - (Len(s) + 1) \in 1 .. Len(Tail(t)) /\ (k - (Len(s) + 1)) + 1 = k - Len(s)
      BY <1>1, <1>3, <2>3
    <3> QED BY <1>1, <1>3, <1>4, <1>5, <2>3, <3>1
  <2> QED BY <1>3, <2>1, <2>2, <2>3
<1>7. left = right
  BY <1>4, <1>5, <1>6, SeqEqual
<1> QED BY <1>7 DEF left, right

LEMMA AddLast ==
    ASSUME NEW S, NEW s \in Seq(S), NEW t \in Seq(S), NEW e \in S
    PROVE  s \o Append(t, e) = Append(s \o t, e)
<1>1. <<e>> \in Seq(S) /\ s \o t \in Seq(S)
  BY ConcatProperties
<1>2. Append(t, e) = t \o <<e>> /\ Append(s \o t, e) = (s \o t) \o <<e>>
  BY <1>1, AppendIsConcat
<1> QED BY <1>1, <1>2, ConcatAssociative

LEMMA ItemsAppend ==
    ASSUME NEW S, NEW q \in Seq(S), NEW e \in S
    PROVE  Items(Append(q, e)) = Items(q) \cup {e}
<1>1. /\ Append(q, e) \in Seq(S) /\ Len(Append(q, e)) = Len(q) + 1 /\ Len(q) \in Nat
      /\ \A k \in 1 .. Len(q) : Append(q, e)[k] = q[k]
      /\ Append(q, e)[Len(q) + 1] = e
  BY AppendProperties, LenProperties
<1>2. DOMAIN Append(q, e) = 1 .. Len(q) + 1 /\ DOMAIN q = 1 .. Len(q)
  BY <1>1, LenProperties
<1>3. 1 .. Len(q) + 1 = (1 .. Len(q)) \cup {Len(q) + 1}
  BY <1>1
<1> QED BY <1>1, <1>2, <1>3 DEF Items

LEMMA ItemsOfConcat ==
    ASSUME NEW S, NEW s \in Seq(S), NEW t \in Seq(S)
    PROVE  Items(s) \subseteq Items(s \o t) /\ Items(t) \subseteq Items(s \o t)
<1>1. /\ s \o t \in Seq(S) /\ Len(s \o t) = Len(s) + Len(t)
      /\ \A k \in 1 .. Len(s) + Len(t) :
             (s \o t)[k] = IF k <= Len(s) THEN s[k] ELSE t[k - Len(s)]
  BY ConcatProperties
<1>2. /\ Len(s) \in Nat /\ Len(t) \in Nat
      /\ DOMAIN s = 1 .. Len(s) /\ DOMAIN t = 1 .. Len(t)
      /\ DOMAIN (s \o t) = 1 .. Len(s) + Len(t)
  BY <1>1, LenProperties
<1>3. ASSUME NEW k \in DOMAIN t PROVE t[k] \in Items(s \o t)
  <2>1. Len(s) + k \in DOMAIN (s \o t) /\ (s \o t)[Len(s) + k] = t[k]
    BY <1>1, <1>2
  <2> QED BY <2>1 DEF Items
<1>4. ASSUME NEW k \in DOMAIN s PROVE s[k] \in Items(s \o t)
  <2>1. k \in DOMAIN (s \o t) /\ (s \o t)[k] = s[k]
    BY <1>1, <1>2
  <2> QED BY <2>1 DEF Items
<1> QED BY <1>3, <1>4 DEF Items

(***************************************************************************)
(* A new number keeps the order.                                           *)
(***************************************************************************)
LEMMA InOrderAppend ==
    ASSUME NEW max \in Nat, NEW q \in Seq(1 .. max), NEW n \in 0 .. max, n + 1 <= max,
           NEW gone, gone \subseteq 1 .. n, InOrder(q, n, gone)
    PROVE  InOrder(Append(q, n + 1), n + 1, gone)
<1>1. /\ Append(q, n + 1) \in Seq(1 .. max)
      /\ Len(Append(q, n + 1)) = Len(q) + 1 /\ Len(q) \in Nat
      /\ \A k \in 1 .. Len(q) : Append(q, n + 1)[k] = q[k]
      /\ Append(q, n + 1)[Len(q) + 1] = n + 1
  BY AppendProperties, LenProperties
<1>2. DOMAIN Append(q, n + 1) = 1 .. Len(q) + 1 /\ DOMAIN q = 1 .. Len(q)
  BY <1>1, LenProperties
<1>3. \A k \in 1 .. Len(q) : q[k] \in Items(q)
  BY <1>2 DEF Items
<1>4. \A k \in 1 .. Len(q) : q[k] \in 1 .. n
  BY <1>3 DEF InOrder
<1>5. \A j, k \in 1 .. Len(q) + 1 : j < k => Append(q, n + 1)[j] < Append(q, n + 1)[k]
  <2> SUFFICES ASSUME NEW j \in 1 .. Len(q) + 1, NEW k \in 1 .. Len(q) + 1, j < k
               PROVE  Append(q, n + 1)[j] < Append(q, n + 1)[k]
    OBVIOUS
  <2>1. j \in 1 .. Len(q) /\ Append(q, n + 1)[j] = q[j] /\ q[j] \in 1 .. n
    BY <1>1, <1>4
  <2>2. CASE k = Len(q) + 1
    BY <1>1, <2>1, <2>2
  <2>3. CASE k # Len(q) + 1
    <3>1. k \in 1 .. Len(q) /\ Append(q, n + 1)[k] = q[k]
      BY <1>1, <2>3
    <3>2. q[j] < q[k]
      BY <1>2, <2>1, <3>1 DEF InOrder
    <3> QED BY <2>1, <3>1, <3>2
  <2> QED BY <2>2, <2>3
<1>6. Items(Append(q, n + 1)) = (1 .. n + 1) \ gone
  <2>1. Items(Append(q, n + 1)) = Items(q) \cup {n + 1}
    BY ItemsAppend
  <2>2. Items(q) = (1 .. n) \ gone
    BY DEF InOrder
  <2>3. 1 .. n + 1 = (1 .. n) \cup {n + 1} /\ n + 1 \notin gone
    OBVIOUS
  <2> QED BY <2>1, <2>2, <2>3
<1> QED BY <1>2, <1>5, <1>6 DEF InOrder

(***************************************************************************)
(* Emptying the sequence in the middle loses its elements and no others.   *)
(***************************************************************************)
LEMMA InOrderDrop ==
    ASSUME NEW max \in Nat, NEW a \in Seq(1 .. max), NEW b \in Seq(1 .. max),
           NEW c \in Seq(1 .. max), NEW n \in 0 .. max, NEW gone,
           InOrder((a \o b) \o c, n, gone)
    PROVE  InOrder(a \o c, n, gone \cup Items(b))
<1> DEFINE q == (a \o b) \o c
           r == a \o c
           la == Len(a)
           lb == Len(b)
           lc == Len(c)
           pos(k) == IF k <= la THEN k ELSE k + lb
<1>1. la \in Nat /\ lb \in Nat /\ lc \in Nat
  BY LenProperties
<1>2. /\ r \in Seq(1 .. max) /\ Len(r) = la + lc
      /\ \A k \in 1 .. la + lc : r[k] = IF k <= la THEN a[k] ELSE c[k - la]
  BY ConcatProperties
<1>3. /\ a \o b \in Seq(1 .. max) /\ Len(a \o b) = la + lb
      /\ \A k \in 1 .. la + lb : (a \o b)[k] = IF k <= la THEN a[k] ELSE b[k - la]
  BY ConcatProperties
<1>4. /\ q \in Seq(1 .. max) /\ Len(q) = la + lb + lc
      /\ \A k \in 1 .. la + lb + lc :
             q[k] = IF k <= la + lb THEN (a \o b)[k] ELSE c[k - (la + lb)]
  BY <1>3, ConcatProperties
<1>5. DOMAIN q = 1 .. la + lb + lc /\ DOMAIN r = 1 .. la + lc /\ DOMAIN b = 1 .. lb
  BY <1>1, <1>2, <1>4, LenProperties
<1>6. InOrder(q, n, gone)
  OBVIOUS
<1> HIDE DEF q, r, la, lb, lc
<1>7. \A k \in 1 .. la + lc : pos(k) \in 1 .. la + lb + lc /\ r[k] = q[pos(k)]
  <2> SUFFICES ASSUME NEW k \in 1 .. la + lc
               PROVE  pos(k) \in 1 .. la + lb + lc /\ r[k] = q[pos(k)]
    OBVIOUS
  <2>1. CASE k <= la
    <3>1. pos(k) = k /\ k \in 1 .. la + lb + lc /\ k \in 1 .. la + lb /\ k <= la + lb
      BY <1>1, <2>1
    <3>2. q[k] = (a \o b)[k] /\ (a \o b)[k] = a[k] /\ r[k] = a[k]
      BY <1>2, <1>3, <1>4, <2>1, <3>1
    <3> QED BY <3>1, <3>2
  <2>2. CASE k > la
    <3>1. pos(k) = k + lb /\ k + lb \in 1 .. la + lb + lc /\ ~(k + lb <= la + lb)
          /\ (k + lb) - (la + lb) = k - la /\ ~(k <= la)
      BY <1>1, <2>2
    <3>2. q[k + lb] = c[(k + lb) - (la + lb)] /\ r[k] = c[k - la]
      BY <1>2, <1>4, <3>1
    <3> QED BY <3>1, <3>2
  <2> QED BY <1>1, <2>1, <2>2
<1>8. \A m \in 1 .. lb : la + m \in 1 .. la + lb + lc /\ b[m] = q[la + m]
  <2> SUFFICES ASSUME NEW m \in 1 .. lb
               PROVE  la + m \in 1 .. la + lb + lc /\ b[m] = q[la + m]
    OBVIOUS
  <2>1. la + m \in 1 .. la + lb + lc /\ la + m \in 1 .. la + lb /\ la + m <= la + lb
        /\ ~(la + m <= la) /\ (la + m) - la = m
    BY <1>1
  <2>2. q[la + m] = (a \o b)[la + m] /\ (a \o b)[la + m] = b[(la + m) - la]
    BY <1>3, <1>4, <2>1
  <2> QED BY <2>1, <2>2
<1>9. \A j, k \in 1 .. la + lb + lc : j < k => q[j] < q[k]
  BY <1>5, <1>6 DEF InOrder
<1>10. \A k \in 1 .. la + lb + lc : q[k] \in 1 .. max
  BY <1>4, <1>5, ElementOfSeq
<1>11. \A j, k \in 1 .. la + lc : j < k => r[j] < r[k]
  <2> SUFFICES ASSUME NEW j \in 1 .. la + lc, NEW k \in 1 .. la + lc, j < k
               PROVE  r[j] < r[k]
    OBVIOUS
  <2>1. pos(j) < pos(k)
    BY <1>1
  <2> QED BY <1>7, <1>9, <2>1
<1>12. ASSUME NEW k \in 1 .. la + lc, NEW m \in 1 .. lb PROVE r[k] # b[m]
  <2>1. pos(k) < la + m \/ la + m < pos(k)
    BY <1>1
  <2>2. r[k] = q[pos(k)] /\ b[m] = q[la + m] /\ r[k] \in 1 .. max /\ b[m] \in 1 .. max
    BY <1>7, <1>8, <1>10
  <2>3. r[k] < b[m] \/ b[m] < r[k]
    BY <1>7, <1>8, <1>9, <2>1, <2>2
  <2> QED BY <2>2, <2>3
<1>13. Items(r) = Items(q) \ Items(b)
  <2>1. ASSUME NEW x \in Items(r) PROVE x \in Items(q) \ Items(b)
    BY <1>5, <1>7, <1>12 DEF Items
  <2>2. ASSUME NEW x \in Items(q), x \notin Items(b) PROVE x \in Items(r)
    <3>1. PICK k \in 1 .. la + lb + lc : x = q[k]
      BY <1>5 DEF Items
    <3>2. CASE k <= la
      <4>1. k \in 1 .. la + lc /\ pos(k) = k
        BY <1>1, <3>2
      <4> QED BY <1>5, <1>7, <3>1, <4>1 DEF Items
    <3>3. CASE k > la /\ k <= la + lb
      <4>1. k - la \in 1 .. lb /\ la + (k - la) = k
        BY <1>1, <3>3
      <4>2. x = b[k - la]
        BY <1>8, <3>1, <4>1
      <4> QED BY <1>5, <2>2, <4>1, <4>2 DEF Items
    <3>4. CASE k > la + lb
      <4>1. k - lb \in 1 .. la + lc /\ pos(k - lb) = k
        BY <1>1, <3>4
      <4> QED BY <1>5, <1>7, <3>1, <4>1 DEF Items
    <3> QED BY <1>1, <3>2, <3>3, <3>4
  <2> QED BY <2>1, <2>2
<1>14. Items(r) = (1 .. n) \ (gone \cup Items(b))
  BY <1>6, <1>13 DEF InOrder
<1>15. InOrder(r, n, gone \cup Items(b))
  BY <1>5, <1>11, <1>14 DEF InOrder
<1> QED BY <1>15 DEF r

(***************************************************************************)
(* What a flush threw away had been issued.                                *)
(***************************************************************************)
LostIssued ==
    /\ txOverrun \/ lostCommands \subseteq 1 .. issued
    /\ rxOverrun \/ lostEvents \subseteq 1 .. produced

Ordered == EventsInOrder /\ CommandsInOrder /\ LostIssued

LEMMA InOrderNothing ==
    InOrder((<< >> \o << >>) \o << >>, 0, {}) /\ InOrder(<< >> \o << >>, 0, {})
<1>1. << >> \o << >> = << >> /\ << >> \in Seq(1 .. 0)
  BY ConcatEmptySeq, EmptySeq
<1>2. DOMAIN << >> = {} /\ Items(<< >>) = {} /\ 1 .. 0 = {}
  <2>1. DOMAIN << >> = 1 .. 0
    BY <1>1, EmptySeq, LenProperties
  <2> QED BY <2>1 DEF Items
<1>3. InOrder(<< >>, 0, {})
  BY <1>2 DEF InOrder
<1> QED BY <1>1, <1>3

LEMMA InitOrdered == Init => Ordered
BY InOrderNothing DEF Init, Ordered, EventsInOrder, CommandsInOrder, LostIssued

LEMMA NextLostIssued == QueuesOK /\ Ordered /\ [Next]_vars => LostIssued'
<1> SUFFICES ASSUME QueuesOK, Ordered, [Next]_vars PROVE LostIssued'
  OBVIOUS
<1>1. (rxOverrun => rxOverrun') /\ (txOverrun => txOverrun')
  BY OverrunStays
<1> USE DEF LostIssued, Ordered
<1>2. CASE RadioEvent
  BY <1>1, <1>2 DEF RadioEvent, QueuesOK, lost
<1>3. CASE Send
  BY <1>1, <1>3 DEF Send, QueuesOK, lost
<1>4. CASE Flush
  <2>1. txOverrun \/ lostCommands' \subseteq 1 .. issued'
    <3>1. Items(txq) \subseteq Items(received \o txq)
      BY ItemsOfConcat DEF QueuesOK
    <3>2. txOverrun \/ Items(received \o txq) \subseteq 1 .. issued
      BY DEF CommandsInOrder, InOrder
    <3> QED BY <1>4, <3>1, <3>2 DEF Flush
  <2>2. rxOverrun \/ lostEvents' \subseteq 1 .. produced'
    <3>1. handed \o rxq \in Seq(1 .. MaxEvents)
      BY ConcatProperties DEF QueuesOK
    <3>2. Items(rxq) \subseteq Items(handed \o rxq)
      BY ItemsOfConcat DEF QueuesOK
    <3>3. Items(handed \o rxq) \subseteq Items((handed \o rxq) \o pending)
      BY <3>1, ItemsOfConcat DEF QueuesOK
    <3>4. rxOverrun \/ Items((handed \o rxq) \o pending) \subseteq 1 .. produced
      BY DEF EventsInOrder, InOrder
    <3> QED BY <1>4, <3>2, <3>3, <3>4 DEF Flush
  <2> QED BY <1>1, <2>1, <2>2
<1>5. CASE UNCHANGED <<issued, produced, lost>>
  BY <1>1, <1>5 DEF lost
<1> QED BY <1>2, <1>3, <1>4, <1>5
        DEF Next, RadioReady, Isr, SendCheck, SendReqn, Get, GetWasFull, GetNothing,
            GetDequeue, GetAttach, GetCheckRx, GetCheckTx, GetReqn, vars, history

LEMMA NextCommandsInOrder == QueuesOK /\ Ordered /\ [Next]_vars => CommandsInOrder'
<1> SUFFICES ASSUME QueuesOK, Ordered, [Next]_vars, ~txOverrun' PROVE CommandsInOrder'
  BY DEF CommandsInOrder
<1>0. ~txOverrun
  BY OverrunStays
<1>1. /\ txq \in Seq(1 .. MaxCommands) /\ received \in Seq(1 .. MaxCommands)
      /\ issued \in 0 .. MaxCommands /\ MaxCommands \in Nat
      /\ received \o txq \in Seq(1 .. MaxCommands)
      /\ InOrder(received \o txq, issued, lostCommands) /\ lostCommands \subseteq 1 .. issued
  BY <1>0, TransportAssumption, ConcatProperties
     DEF QueuesOK, Ordered, CommandsInOrder, LostIssued
<1>2. CASE Isr
  <2>1. UNCHANGED <<issued, lostCommands>>
    BY <1>2 DEF Isr, lost
  <2>2. received' \o txq' = received \o txq
    <3>1. CASE txq = << >>
      BY <1>2, <3>1 DEF Isr, Transfer, TxAfter, Empty
    <3>2. CASE txq # << >>
      <4>1. received' = Append(received, Head(txq)) /\ txq' = Tail(txq)
        BY <1>2, <3>2 DEF Isr, Transfer, TxAfter, Empty
      <4> QED BY <1>1, <3>2, <4>1, PassOn
    <3> QED BY <3>1, <3>2
  <2> QED BY <1>1, <2>1, <2>2 DEF CommandsInOrder
<1>3. CASE Send
  <2>1. /\ issued' = issued + 1 /\ issued + 1 <= MaxCommands
        /\ txq' = Append(txq, issued + 1) /\ UNCHANGED <<received, lostCommands>>
    <3>1. /\ issued' = issued + 1 /\ issued + 1 \in 1 .. MaxCommands
          /\ txq' = Put(txq, issued + 1) /\ ~(Len(txq) >= Size)
          /\ UNCHANGED <<received, lostCommands>>
      <4>1. txOverrun' = (txOverrun \/ Len(txq) >= Size)
        BY <1>3 DEF Send
      <4>2. ~(Len(txq) >= Size)
        BY <4>1, Zenon
      <4> QED BY <1>1, <1>3, <4>2 DEF Send, lost
    <3>2. Len(txq) < Size
      BY <1>1, <3>1, EmptyLength, TransportAssumption
    <3> QED BY <1>1, <3>1, <3>2, PutRoom
  <2>2. received \o txq' = Append(received \o txq, issued + 1)
    <3>1. issued + 1 \in 1 .. MaxCommands
      BY <1>1, <2>1
    <3>2. received \o Append(txq, issued + 1) = Append(received \o txq, issued + 1)
      BY <1>1, <3>1, AddLast, SMTT(30)
    <3> QED BY <2>1, <3>2, Zenon
  <2>3. InOrder(received \o txq', issued + 1, lostCommands)
    BY <1>1, <2>1, <2>2, InOrderAppend
  <2> QED BY <2>1, <2>3 DEF CommandsInOrder
<1>4. CASE Flush
  <2>1. /\ txq' = << >> /\ lostCommands' = lostCommands \cup Items(txq)
        /\ UNCHANGED <<received, issued>>
    BY <1>4 DEF Flush
  <2>2. << >> \in Seq(1 .. MaxCommands) /\ (received \o txq) \o << >> = received \o txq
    BY <1>1, EmptySeq, ConcatEmptySeq
  <2>3. InOrder(received \o << >>, issued, lostCommands \cup Items(txq))
    BY <1>1, <2>2, InOrderDrop
  <2> QED BY <2>1, <2>3 DEF CommandsInOrder
<1>5. CASE UNCHANGED <<txq, received, issued, lostCommands>>
  BY <1>1, <1>5 DEF CommandsInOrder
<1> QED BY <1>2, <1>3, <1>4, <1>5
        DEF Next, RadioEvent, RadioReady, SendCheck, SendReqn, Get, GetWasFull, GetNothing,
            GetDequeue, GetAttach, GetCheckRx, GetCheckTx, GetReqn, vars, history, lost, tx

LEMMA NextEventsInOrder ==
    QueuesOK /\ (rxOverrun \/ Room) /\ Ordered /\ [Next]_vars => EventsInOrder'
<1> SUFFICES ASSUME QueuesOK, rxOverrun \/ Room, Ordered, [Next]_vars, ~rxOverrun'
             PROVE  EventsInOrder'
  BY DEF EventsInOrder
<1>0. ~rxOverrun /\ Room
  BY OverrunStays
<1>1. /\ rxq \in Seq(1 .. MaxEvents) /\ handed \in Seq(1 .. MaxEvents)
      /\ pending \in Seq(1 .. MaxEvents)
      /\ produced \in 0 .. MaxEvents /\ MaxEvents \in Nat
      /\ handed \o rxq \in Seq(1 .. MaxEvents)
      /\ (handed \o rxq) \o pending \in Seq(1 .. MaxEvents)
      /\ InOrder((handed \o rxq) \o pending, produced, lostEvents)
      /\ lostEvents \subseteq 1 .. produced
  BY <1>0, TransportAssumption, ConcatProperties
     DEF QueuesOK, Ordered, EventsInOrder, LostIssued
<1>2. CASE RadioEvent
  <2>1. /\ produced' = produced + 1 /\ produced + 1 <= MaxEvents
        /\ pending' = Append(pending, produced + 1) /\ UNCHANGED <<rxq, handed, lostEvents>>
    BY <1>1, <1>2 DEF RadioEvent, lost, rx
  <2>2. (handed \o rxq) \o pending' = Append((handed \o rxq) \o pending, produced + 1)
    <3>1. produced + 1 \in 1 .. MaxEvents
      BY <1>1, <2>1
    <3>2. (handed \o rxq) \o Append(pending, produced + 1)
              = Append((handed \o rxq) \o pending, produced + 1)
      BY <1>1, <3>1, AddLast, SMTT(30)
    <3> QED BY <2>1, <3>2, Zenon
  <2>3. InOrder((handed \o rxq) \o pending', produced + 1, lostEvents)
    BY <1>1, <2>1, <2>2, InOrderAppend
  <2> QED BY <2>1, <2>3 DEF EventsInOrder
<1>3. CASE Isr
  <2>1. UNCHANGED <<handed, produced, lostEvents>>
    BY <1>3 DEF Isr, lost
  <2>2. (handed \o rxq') \o pending' = (handed \o rxq) \o pending
    <3>1. CASE pending = << >>
      BY <1>3, <3>1 DEF Isr, Transfer, RxAfter
    <3>2. CASE pending # << >>
      <4>1. rxq' = Append(rxq, Head(pending)) /\ pending' = Tail(pending)
        BY <1>0, <1>3, <3>2, StoreEvent DEF Isr, Transfer, Room
      <4>2. Head(pending) \in 1 .. MaxEvents
        BY <1>1, <3>2, HeadTailProperties
      <4>3. handed \o Append(rxq, Head(pending)) = Append(handed \o rxq, Head(pending))
        BY <1>1, <4>2, AddLast, SMTT(30)
      <4>4. Append(handed \o rxq, Head(pending)) \o Tail(pending)
                = (handed \o rxq) \o pending
        BY <1>1, <3>2, PassOn, Zenon
      <4> QED BY <4>1, <4>3, <4>4, Zenon
    <3> QED BY <3>1, <3>2
  <2> QED BY <1>1, <2>1, <2>2 DEF EventsInOrder
<1>4. CASE GetDequeue
  <2>1. /\ rxq # << >> /\ rxq' = Tail(rxq) /\ handed' = Append(handed, Head(rxq))
        /\ UNCHANGED <<pending, produced, lostEvents>>
    BY <1>4 DEF GetDequeue, Empty, lost
  <2>2. handed' \o rxq' = handed \o rxq
    BY <1>1, <2>1, PassOn
  <2> QED BY <1>1, <2>1, <2>2 DEF EventsInOrder
<1>5. CASE Flush
  <2>1. /\ rxq' = << >> /\ lostEvents' = lostEvents \cup Items(rxq)
        /\ UNCHANGED <<handed, pending, produced>>
    BY <1>5 DEF Flush
  <2>2. handed \o << >> = handed
    BY <1>1, ConcatEmptySeq
  <2>3. InOrder(handed \o pending, produced, lostEvents \cup Items(rxq))
    BY <1>1, InOrderDrop
  <2> QED BY <2>1, <2>2, <2>3 DEF EventsInOrder
<1>6. CASE UNCHANGED <<rxq, handed, pending, produced, lostEvents>>
  BY <1>1, <1>6 DEF EventsInOrder
<1> QED BY <1>2, <1>3, <1>4, <1>5, <1>6
        DEF Next, RadioReady, Send, SendCheck, SendReqn, Get, GetWasFull, GetNothing,
            GetAttach, GetCheckRx, GetCheckTx, GetReqn, vars, history, lost, rx

LEMMA NextOrdered == IInv /\ Ordered /\ [Next]_vars => Ordered'
BY NextLostIssued, NextCommandsInOrder, NextEventsInOrder, TypeParts
   DEF IInv, RoomKept, Ordered

-----------------------------------------------------------------------------
(***************************************************************************)
(* The polled interface.  Its calls find the main context outside the      *)
(* layer or behind a send, and no interrupt attached.                      *)
(***************************************************************************)
PolledPlaces == polled => ~attached /\ pc \in {"idle", "sendCheck", "sendReqn"}

EitherInductive ==
    IInv /\ Requested /\ Ordered /\ polled \in BOOLEAN /\ PolledPlaces

LEMMA InitPolling == PollingInit => IInv /\ Requested /\ Ordered
<1> SUFFICES ASSUME PollingInit PROVE IInv /\ Requested /\ Ordered
  OBVIOUS
<1>1. LinesOK
  <2>1. 0 \in 0 .. Wrap - 1
    BY TransportAssumption
  <2> QED BY <2>1 DEF PollingInit, LinesOK, Places
<1>2. /\ txq = << >> /\ rxq = << >> /\ pending = << >> /\ received = << >>
      /\ handed = << >> /\ issued = 0 /\ produced = 0
      /\ lostCommands = {} /\ lostEvents = {}
  BY DEF PollingInit
<1>3. QueuesOK
  BY <1>2, EmptySequence, TransportAssumption DEF QueuesOK
<1>4. LostOK
  BY <1>2 DEF LostOK
<1>5. IInv
  BY <1>1, <1>3, <1>4, TypeParts DEF PollingInit, IInv, RoomKept, Room
<1>6. Requested
  BY <1>2 DEF Requested, Empty
<1>7. Ordered
  BY <1>2, InOrderNothing DEF Ordered, EventsInOrder, CommandsInOrder, LostIssued
<1> QED BY <1>5, <1>6, <1>7

LEMMA NextEither == IInv /\ Requested /\ Ordered /\ [Next]_vars => (IInv /\ Requested /\ Ordered)'
BY NextIInv, NextRequested, NextOrdered

(***************************************************************************)
(* A check of the lines moves one event and one command at most, each from *)
(* the head of one sequence to the end of the next.                        *)
(***************************************************************************)
LEMMA CheckMoves ==
    ASSUME QueuesOK, LinesOK, NEW low, EventCheck(low)
    PROVE  /\ txq' \in Seq(1 .. MaxCommands) /\ Len(txq') < Wrap
           /\ ~txOverrun' => Len(txq') <= Size
           /\ UNCHANGED txOverrun /\ txHead' \in 0 .. Wrap - 1
           /\ received' \in Seq(1 .. MaxCommands)
           /\ received' \o txq' = received \o txq
           /\ pending' \in Seq(1 .. MaxEvents)
<1>1. CASE Full(rxq, rxHead) \/ ~rdynLow
  BY <1>1 DEF EventCheck, NoTransfer, QueuesOK, LinesOK, tx
<1>2. CASE ~Full(rxq, rxHead) /\ rdynLow
  <2>1. Transfer
    BY <1>2 DEF EventCheck
  <2>2. received' \o txq' = received \o txq
    <3>1. CASE txq # << >>
      <4>1. received' = Append(received, Head(txq)) /\ txq' = Tail(txq)
        BY <2>1, <3>1 DEF Transfer, TxAfter, Empty
      <4>2. txq \in Seq(1 .. MaxCommands) /\ received \in Seq(1 .. MaxCommands)
        BY DEF QueuesOK
      <4> QED BY <3>1, <4>1, <4>2, PassOn
    <3>2. CASE txq = << >>
      BY <2>1, <3>2 DEF Transfer, TxAfter, Empty
    <3> QED BY <3>1, <3>2
  <2>3. UNCHANGED txOverrun /\ txHead' \in 0 .. Wrap - 1
    BY <2>1, PastHead DEF Transfer, LinesOK
  <2> QED BY <2>1, <2>2, <2>3, TakeCommand
<1> QED BY <1>1, <1>2

LEMMA CheckStores ==
    ASSUME QueuesOK, NEW low, EventCheck(low),
           NEW over, over = IF Stores THEN RxOverwrites ELSE rxOverrun
    PROVE  /\ RxChecked \in Seq(1 .. MaxEvents) /\ Len(RxChecked) < Wrap
           /\ ~over => ~rxOverrun /\ Len(RxChecked) <= Size
           /\ ~over => (handed \o RxChecked) \o pending' = (handed \o rxq) \o pending
<1>1. CASE ~Stores
  <2>1. UNCHANGED pending /\ RxChecked = rxq
    BY <1>1 DEF EventCheck, NoTransfer, RxChecked, Stores
  <2> QED BY <1>1, <2>1 DEF QueuesOK
<1>2. CASE Stores
  <2>1. Transfer /\ RxChecked = RxAfter /\ over = RxOverwrites
    BY <1>2 DEF EventCheck, RxChecked, Stores
  <2>2. ASSUME ~over
        PROVE  (handed \o RxChecked) \o pending' = (handed \o rxq) \o pending
    <3>1. CASE pending = << >>
      BY <2>1, <3>1 DEF Transfer, RxAfter
    <3>2. CASE pending # << >>
      <4>1. RxChecked = Append(rxq, Head(pending)) /\ pending' = Tail(pending)
        BY <2>1, <2>2, <3>2, StoreEvent DEF Transfer
      <4>2. /\ rxq \in Seq(1 .. MaxEvents) /\ handed \in Seq(1 .. MaxEvents)
            /\ pending \in Seq(1 .. MaxEvents)
        BY DEF QueuesOK
      <4>3. Head(pending) \in 1 .. MaxEvents
        BY <3>2, <4>2, TailLength
      <4>4. handed \o RxChecked = Append(handed \o rxq, Head(pending))
            /\ handed \o rxq \in Seq(1 .. MaxEvents)
        BY <4>1, <4>2, <4>3, AddLast, ConcatProperties
      <4>5. Append(handed \o rxq, Head(pending)) \o Tail(pending)
                = (handed \o rxq) \o pending
        BY <3>2, <4>2, <4>4, PassOn
      <4> QED BY <4>1, <4>4, <4>5
    <3> QED BY <3>1, <3>2
  <2> QED BY <2>1, <2>2, StoreEvent DEF RxOverwrites
<1> QED BY <1>1, <1>2

(***************************************************************************)
(* It leaves REQN low if a command still waits and an answer fits.         *)
(***************************************************************************)
LEMMA CheckRequests ==
    ASSUME NEW low, EventCheck(low), pc = "idle", Requested
    PROVE  ~Empty(txq') /\ ~Full(RxChecked, rxHead) => low
BY DEF EventCheck, NoTransfer, Transfer, Requested, RxChecked, Stores, Empty, Full, tx

LEMMA PeekKeeps ==
    IInv /\ Requested /\ Ordered /\ ~attached /\ Peek => (IInv /\ Requested /\ Ordered)'
<1> SUFFICES ASSUME IInv, Requested, Ordered, ~attached, Peek
             PROVE  (IInv /\ Requested /\ Ordered)'
  OBVIOUS
<1>1. /\ EventCheck(reqnLow') /\ rxq' = RxChecked /\ pc = "idle"
      /\ rxOverrun' = IF Stores THEN RxOverwrites ELSE rxOverrun
      /\ UNCHANGED <<rxHead, handed, attached, spinning, pc, wasFull, issued, produced, lost>>
  BY DEF Peek, Quiet
<1>2. LinesOK /\ QueuesOK /\ LostOK /\ (rxOverrun \/ ~spinning)
  BY TypeParts DEF IInv
<1>3. reqnLow' \in BOOLEAN /\ rdynLow' \in BOOLEAN /\ rxOverrun' \in BOOLEAN
  BY <1>1, <1>2 DEF EventCheck, NoTransfer, Transfer, LinesOK, RxOverwrites
<1>4. QueuesOK' /\ UNCHANGED txOverrun /\ txHead' \in 0 .. Wrap - 1
  BY <1>1, <1>2, CheckMoves, CheckStores DEF QueuesOK
<1>5. ~rxOverrun' => ~rxOverrun
  BY <1>1, <1>2, CheckStores
<1>6. IInv'
  <2>1. TypeOK'
    BY <1>1, <1>2, <1>3, <1>4 DEF TypeOK, LinesOK, QueuesOK, LostOK, lost
  <2> QED BY <1>1, <1>2, <1>5, <2>1 DEF IInv, RoomKept, Room
<1>7. Requested'
  BY <1>1, CheckRequests DEF Requested, Empty, Full
<1>8. Ordered'
  <2>1. CommandsInOrder' /\ LostIssued'
    BY <1>1, <1>2, <1>4, <1>5, CheckMoves DEF Ordered, CommandsInOrder, LostIssued, lost
  <2>2. EventsInOrder'
    <3>1. ~rxOverrun' => (handed' \o rxq') \o pending' = (handed \o rxq) \o pending
      <4>1. ~rxOverrun' => (handed \o RxChecked) \o pending' = (handed \o rxq) \o pending
        BY <1>1, <1>2, CheckStores
      <4> QED BY <1>1, <4>1
    <3> QED BY <1>1, <1>5, <3>1 DEF Ordered, EventsInOrder, lost
  <2> QED BY <2>1, <2>2 DEF Ordered
<1> QED BY <1>6, <1>7, <1>8

LEMMA PollGetKeeps ==
    IInv /\ Requested /\ Ordered /\ ~attached /\ PollGet => (IInv /\ Requested /\ Ordered)'
<1> SUFFICES ASSUME IInv, Requested, Ordered, ~attached, PollGet
             PROVE  (IInv /\ Requested /\ Ordered)'
  OBVIOUS
<1>1. /\ rxq' = Tail(RxChecked) /\ handed' = Append(handed, Head(RxChecked))
      /\ RxChecked # << >> /\ pc = "idle" /\ rxHead' = Past(rxHead)
      /\ rxOverrun' = IF Stores THEN RxOverwrites ELSE rxOverrun
      /\ UNCHANGED <<attached, spinning, pc, wasFull, issued, produced, lost>>
  BY DEF PollGet, Quiet, Empty
<1>2. PICK low \in BOOLEAN : EventCheck(low) /\ reqnLow' = (low \/ ~Empty(txq'))
  BY DEF PollGet
<1>3. LinesOK /\ QueuesOK /\ LostOK /\ (rxOverrun \/ ~spinning)
  BY TypeParts DEF IInv
<1>4. /\ reqnLow' \in BOOLEAN /\ rdynLow' \in BOOLEAN /\ rxOverrun' \in BOOLEAN
      /\ rxHead' \in 0 .. Wrap - 1
  BY <1>1, <1>2, <1>3, PastHead
     DEF EventCheck, NoTransfer, Transfer, LinesOK, RxOverwrites
<1>5. /\ RxChecked \in Seq(1 .. MaxEvents) /\ Len(RxChecked) < Wrap
      /\ ~rxOverrun' => ~rxOverrun /\ Len(RxChecked) <= Size
      /\ ~rxOverrun' => (handed \o RxChecked) \o pending' = (handed \o rxq) \o pending
      /\ Len(RxChecked) \in Nat /\ handed \in Seq(1 .. MaxEvents)
  <2>1. handed \in Seq(1 .. MaxEvents)
    BY <1>3 DEF QueuesOK
  <2>2. /\ RxChecked \in Seq(1 .. MaxEvents) /\ Len(RxChecked) < Wrap
        /\ ~rxOverrun' => ~rxOverrun /\ Len(RxChecked) <= Size
        /\ ~rxOverrun' => (handed \o RxChecked) \o pending' = (handed \o rxq) \o pending
    BY <1>1, <1>2, <1>3, CheckStores
  <2> QED BY <2>1, <2>2, EmptyLength
<1>6. /\ rxq' \in Seq(1 .. MaxEvents) /\ Len(rxq') = Len(RxChecked) - 1
      /\ Head(RxChecked) \in 1 .. MaxEvents
  BY <1>1, <1>5, TailLength
<1>7. handed' \in Seq(1 .. MaxEvents) /\ handed' \o rxq' = handed \o RxChecked
  BY <1>1, <1>5, <1>6, AppendLength, PassOn
<1>8. QueuesOK' /\ UNCHANGED txOverrun /\ txHead' \in 0 .. Wrap - 1
  <2>1. Len(rxq') < Wrap /\ (~rxOverrun' => Len(rxq') <= Size)
    BY <1>5, <1>6, TransportAssumption
  <2> QED BY <1>1, <1>2, <1>3, <1>6, <1>7, <2>1, CheckMoves DEF QueuesOK
<1>9. IInv'
  <2>1. TypeOK'
    BY <1>1, <1>3, <1>4, <1>8 DEF TypeOK, LinesOK, QueuesOK, LostOK, lost
  <2> QED BY <1>1, <1>3, <1>5, <2>1 DEF IInv, RoomKept, Room
<1>10. Requested'
  BY <1>2 DEF Requested, Empty
<1>11. Ordered'
  <2>1. CommandsInOrder' /\ LostIssued'
    BY <1>1, <1>2, <1>3, <1>5, <1>8, CheckMoves
       DEF Ordered, CommandsInOrder, LostIssued, lost
  <2>2. EventsInOrder'
    BY <1>1, <1>5, <1>7 DEF Ordered, EventsInOrder, lost
  <2> QED BY <2>1, <2>2 DEF Ordered
<1> QED BY <1>9, <1>10, <1>11

LEMMA InitEither == EitherInit => EitherInductive
BY InitIInv, InitOrdered, InitPolling
   DEF EitherInit, EitherInductive, PolledPlaces, PollingInit, Init, Requested, Empty

LEMMA NextEitherInductive ==
    EitherInductive /\ [EitherNext]_<<vars, polled>> => EitherInductive'
<1> SUFFICES ASSUME EitherInductive, [EitherNext]_<<vars, polled>> PROVE EitherInductive'
  OBVIOUS
<1>1. IInv /\ Requested /\ Ordered /\ polled \in BOOLEAN /\ PolledPlaces
  BY DEF EitherInductive
<1>2. UNCHANGED polled
  BY DEF EitherNext
<1>3. CASE ~polled /\ [Next]_vars
  BY <1>1, <1>2, <1>3, NextEither DEF EitherInductive, PolledPlaces
<1>4. CASE polled /\ (RadioEvent \/ RadioReady \/ Send \/ SendCheck \/ SendReqn \/ Flush)
  <2>1. Next
    BY <1>4 DEF Next
  <2>2. (IInv /\ Requested /\ Ordered)'
    BY <1>1, <2>1, NextEither
  <2>3. ~attached' /\ pc' \in {"idle", "sendCheck", "sendReqn"}
    BY <1>1, <1>4
       DEF PolledPlaces, RadioEvent, RadioReady, Send, SendCheck, SendReqn, Flush, Main, lines
  <2> QED BY <1>1, <1>2, <2>2, <2>3 DEF EitherInductive, PolledPlaces
<1>5. CASE polled /\ (PollGet \/ Peek)
  <2>1. ~attached /\ (IInv /\ Requested /\ Ordered)'
    BY <1>1, <1>5, PeekKeeps, PollGetKeeps DEF PolledPlaces
  <2>2. UNCHANGED <<attached, pc>>
    BY <1>5 DEF PollGet, Peek, Quiet
  <2> QED BY <1>1, <1>2, <2>1, <2>2 DEF EitherInductive, PolledPlaces
<1>6. CASE polled /\ UNCHANGED vars
  <2>1. (IInv /\ Requested /\ Ordered)'
    BY <1>1, <1>6, NextEither
  <2> QED BY <1>1, <1>2, <1>6, <2>1 DEF EitherInductive, PolledPlaces, vars, lines
<1> QED BY <1>1, <1>3, <1>4, <1>5, <1>6 DEF EitherNext, PollingNext, Poll, PollNothing

LEMMA AlwaysInductive == EitherSpec => []EitherInductive
BY InitEither, NextEitherInductive, PTL DEF EitherSpec

-----------------------------------------------------------------------------
(* The theorems *)

(***************************************************************************)
(* The variables of the transport keep their types; a queue stays within   *)
(* ACI_QUEUE_SIZE, at every interleaving with the routine, until a packet  *)
(* that waits in it is overwritten.                                        *)
(***************************************************************************)
THEOREM TypeCorrect == EitherSpec => []TypeOK
<1>1. EitherInductive => TypeOK
  BY DEF EitherInductive, IInv
<1> QED BY AlwaysInductive, <1>1, PTL

(***************************************************************************)
(* "Should never happen" (hal_aci_tl.c:108-112) does not: the routine      *)
(* finds room for the event it receives, for every queue size, wherever it *)
(* interrupts the main context, flushes included, until an event that      *)
(* waits in the receive queue is overwritten.                              *)
(***************************************************************************)
THEOREM RoutineNeverSpins == EitherSpec => []NeverSpins
<1>1. EitherInductive => NeverSpins
  BY DEF EitherInductive, IInv, RoomKept, Room, NeverSpins
<1> QED BY AlwaysInductive, <1>1, PTL

(***************************************************************************)
(* No command is forgotten (hal_aci_tl.c:98-101, 139-165, 323-327,         *)
(* 405-409), for every queue size, every interleaving and either interface.*)
(***************************************************************************)
THEOREM CommandsRequested == EitherSpec => []CommandRequested
<1>1. EitherInductive => CommandRequested
  BY DEF EitherInductive, Requested, CommandRequested
<1> QED BY AlwaysInductive, <1>1, PTL

(***************************************************************************)
(* A packet that waits is overwritten only at the wrap of the head, with   *)
(* either interface and for every queue size (hal_aci_tl.c:106-119,        *)
(* 133-136, 203-210).                                                      *)
(***************************************************************************)
THEOREM OverwritesAtWrap == EitherSpec => CoveredAtWrap
<1> DEFINE AtWrap == /\ rxOverrun' => rxOverrun \/ rxHead + Size >= Wrap
                     /\ txOverrun' => txOverrun \/ txHead + Size >= Wrap
<1>1. EitherInductive /\ [EitherNext]_<<vars, polled>> => [AtWrap]_vars
  <2> SUFFICES ASSUME EitherInductive, [EitherNext]_<<vars, polled>>, ~UNCHANGED vars
               PROVE  AtWrap
    OBVIOUS
  <2>1. /\ Size \in Nat /\ Wrap \in Nat /\ Len(rxq) \in Nat /\ Len(txq) \in Nat
        /\ rxHead \in Nat /\ txHead \in Nat
        /\ rxOverrun \/ Len(rxq) <= Size
        /\ txOverrun \/ Len(txq) <= Size
    BY TransportAssumption, EmptyLength DEF EitherInductive, IInv, TypeOK
  <2>2. Len(rxq) >= Size /\ ~Full(rxq, rxHead) => rxOverrun \/ rxHead + Size >= Wrap
    BY <2>1 DEF Full
  <2>3. Len(txq) >= Size /\ ~Full(txq, txHead) => txOverrun \/ txHead + Size >= Wrap
    BY <2>1 DEF Full
  <2>4. CASE Isr
    <3>1. UNCHANGED txOverrun
      BY <2>4 DEF Isr, Transfer
    <3>2. rxOverrun' => rxOverrun \/ (Len(rxq) >= Size /\ ~Full(rxq, rxHead))
      BY <2>4 DEF Isr, RxOverwrites, rx
    <3> QED BY <2>2, <3>1, <3>2
  <2>5. CASE Send
    BY <2>3, <2>5 DEF Send, rx
  <2>6. CASE Peek \/ PollGet
    <3>1. rxOverrun' = IF Stores THEN RxOverwrites ELSE rxOverrun
      BY <2>6 DEF Peek, PollGet, Quiet
    <3>2. UNCHANGED txOverrun
      BY <2>6 DEF Peek, PollGet, EventCheck, NoTransfer, Transfer, tx
    <3> QED BY <2>2, <3>1, <3>2 DEF Stores, RxOverwrites
  <2>7. CASE UNCHANGED <<rxOverrun, txOverrun>>
    BY <2>7
  <2>8. CASE RadioEvent \/ RadioReady \/ SendCheck \/ SendReqn \/ Get \/ Flush
    BY <2>7, <2>8 DEF RadioEvent, RadioReady, SendCheck, SendReqn, Get, GetWasFull,
                      GetNothing, GetDequeue, GetAttach, GetCheckRx, GetCheckTx, GetReqn,
                      Flush, tx, rx
  <2> QED BY <2>4, <2>5, <2>6, <2>7, <2>8 DEF EitherNext, Next, PollingNext, Poll, PollNothing
<1> QED BY AlwaysInductive, <1>1, PTL DEF EitherSpec, CoveredAtWrap

(***************************************************************************)
(* What the application got, what the receive queue holds and what the     *)
(* radio still has are the radio's events, each once and in order, but for *)
(* those a flush threw away, until one that waits in the receive queue is  *)
(* overwritten (hal_aci_tl.c:82-123, 129-168, 298-333).                    *)
(***************************************************************************)
THEOREM EventsKeepOrder == EitherSpec => []EventsInOrder
<1>1. EitherInductive => EventsInOrder
  BY DEF EitherInductive, Ordered
<1> QED BY AlwaysInductive, <1>1, PTL

(***************************************************************************)
(* What the radio received and what the transmit queue holds are the       *)
(* commands hal_aci_tl_send accepted, each once and in order, but for      *)
(* those a flush threw away, until one that waits in the transmit queue is *)
(* overwritten (hal_aci_tl.c:203-210, 392-418).                            *)
(***************************************************************************)
THEOREM CommandsKeepOrder == EitherSpec => []CommandsInOrder
<1>1. EitherInductive => CommandsInOrder
  BY DEF EitherInductive, Ordered
<1> QED BY AlwaysInductive, <1>1, PTL
-----------------------------------------------------------------------------
(* The ring each queue is kept in: slots *)

LEMMA Sizes == QueueSize \in Nat \ {0} /\ IndexWrap \in Nat \ {0} /\ QueueSize < IndexWrap
BY AciQueueAssumption

LEMMA ModUnique ==
    ASSUME NEW w \in Nat \ {0}, NEW q \in Nat, NEW r \in 0 .. w - 1
    PROVE  (w * q + r) % w = r
OBVIOUS

LEMMA ModParts ==
    ASSUME NEW w \in Nat \ {0}, NEW n \in Nat
    PROVE  /\ n \div w \in Nat /\ n % w \in 0 .. w - 1
           /\ n = (w * (n \div w)) + (n % w)
OBVIOUS

\* The wrap of an index does not change its slot.
LEMMA WrapKeepsSlot ==
    ASSUME NEW n \in Nat
    PROVE  (n + IndexWrap) % QueueSize = n % QueueSize
<1> DEFINE c == n \div QueueSize
           r == n % QueueSize
           d == IndexWrap \div QueueSize
<1>1. c \in Nat /\ r \in 0 .. QueueSize - 1 /\ n = (QueueSize * c) + r
  BY Sizes, ModParts
<1>2. d \in Nat /\ IndexWrap % QueueSize = 0 /\ IndexWrap = (QueueSize * d) + (IndexWrap % QueueSize)
  BY Sizes, ModParts, AciQueueAssumption
<1> HIDE DEF c, r, d
<1>3. n + IndexWrap = (QueueSize * (c + d)) + r
  BY <1>1, <1>2, Sizes
<1>4. (n + IndexWrap) % QueueSize = r
  <2>1. c + d \in Nat
    BY <1>1, <1>2
  <2>2. ((QueueSize * (c + d)) + r) % QueueSize = r
    BY <1>1, <2>1, Sizes, ModUnique
  <2> QED BY <1>3, <2>2
<1> QED BY <1>4 DEF r

\* Two indices less than QueueSize apart have two slots.
LEMMA SlotsApart ==
    ASSUME NEW m \in Nat, NEW n \in Nat, m < n, n < m + QueueSize
    PROVE  m % QueueSize # n % QueueSize
<1> SUFFICES ASSUME m % QueueSize = n % QueueSize PROVE FALSE
  OBVIOUS
<1> DEFINE c == m \div QueueSize
           d == n \div QueueSize
           r == m % QueueSize
<1>1. c \in Nat /\ r \in 0 .. QueueSize - 1 /\ m = (QueueSize * c) + r
  BY Sizes, ModParts
<1>2. d \in Nat /\ n = (QueueSize * d) + r
  BY Sizes, ModParts
<1> HIDE DEF c, d, r
<1>3. n - m = QueueSize * (d - c)
  BY <1>1, <1>2, Sizes
<1>4. CASE d - c <= 0
  <2>1. QueueSize * (d - c) <= 0
    BY <1>1, <1>2, <1>4, Sizes
  <2> QED BY <1>3, <2>1
<1>5. CASE d - c >= 1
  <2>1. QueueSize * (d - c) >= QueueSize
    BY <1>1, <1>2, <1>5, Sizes
  <2> QED BY <1>3, <2>1, Sizes
<1> QED BY <1>1, <1>2, <1>4, <1>5

Slot(n) == n % QueueSize

LEMMA SlotType == \A n \in Nat : Slot(n) \in Cells
BY Sizes DEF Slot, Cells

LEMMA AdvanceIs ==
    \A n \in Index : /\ Advance(n) \in Index
                     /\ Advance(n) = IF n + 1 = IndexWrap THEN 0 ELSE n + 1
<1> SUFFICES ASSUME NEW n \in Index
             PROVE  Advance(n) \in Index /\ Advance(n) = IF n + 1 = IndexWrap THEN 0 ELSE n + 1
  OBVIOUS
<1>1. (n + 1) % IndexWrap = IF n + 1 = IndexWrap THEN 0 ELSE n + 1
  BY Sizes DEF Index
<1> QED BY <1>1, Sizes DEF Advance, Index

\* How far apart two indices are.
Apart(h, t) == (t - h) % IndexWrap

LEMMA ApartIs ==
    \A h, t \in Index : /\ Apart(h, t) \in Index
                        /\ Apart(h, t) = IF t >= h THEN t - h ELSE (t - h) + IndexWrap
<1> SUFFICES ASSUME NEW h \in Index, NEW t \in Index
             PROVE  /\ Apart(h, t) \in Index
                    /\ Apart(h, t) = IF t >= h THEN t - h ELSE (t - h) + IndexWrap
  OBVIOUS
<1>1. Apart(h, t) = IF t >= h THEN t - h ELSE (t - h) + IndexWrap
  BY Sizes DEF Index, Apart
<1> QED BY <1>1, Sizes DEF Index

NearWrap == head + QueueSize >= IndexWrap

\* What the test for a full queue leaves room for, away from the wrap.
LEMMA RoomLeft ==
    ASSUME head \in Index, tail \in Index, Count <= QueueSize, ~NearWrap, ~IsFull
    PROVE  Count < QueueSize
BY ApartIs, Sizes DEF Apart, Count, NearWrap, IsFull, Index

LEMMA CountMoves ==
    ASSUME head \in Index, tail \in Index
    PROVE  /\ Count \in Index
           /\ Count < IndexWrap - 1 => Apart(head, Advance(tail)) = Count + 1
           /\ Count >= 1 => Apart(Advance(head), tail) = Count - 1
           /\ Count >= 1 <=> head # tail
<1>1. Count = Apart(head, tail) /\ Count \in Index
  BY ApartIs DEF Apart, Count
<1>2. Count = IF tail >= head THEN tail - head ELSE (tail - head) + IndexWrap
  BY <1>1, ApartIs
<1>3. head \in 0 .. IndexWrap - 1 /\ tail \in 0 .. IndexWrap - 1
  BY DEF Index
<1>4. ASSUME NEW n \in Index
      PROVE  Advance(n) \in Index /\ Advance(n) = IF n + 1 = IndexWrap THEN 0 ELSE n + 1
  BY AdvanceIs
<1>5. ASSUME Count < IndexWrap - 1 PROVE Apart(head, Advance(tail)) = Count + 1
  <2>1. Apart(head, Advance(tail)) = IF Advance(tail) >= head THEN Advance(tail) - head
                                     ELSE (Advance(tail) - head) + IndexWrap
    BY <1>4, ApartIs
  <2> QED BY ONLY <1>2, <1>3, <1>4, <1>5, <2>1, tail \in Index, Sizes
<1>6. ASSUME Count >= 1 PROVE Apart(Advance(head), tail) = Count - 1
  <2>1. Apart(Advance(head), tail) = IF tail >= Advance(head) THEN tail - Advance(head)
                                     ELSE (tail - Advance(head)) + IndexWrap
    BY <1>4, ApartIs
  <2> QED BY ONLY <1>2, <1>3, <1>4, <1>6, <2>1, head \in Index, Sizes
<1>7. Count >= 1 <=> head # tail
  BY ONLY <1>2, <1>3, Sizes
<1> QED BY <1>1, <1>5, <1>6, <1>7

\* The slots between the indices.
LEMMA TailSlot ==
    ASSUME head \in Index, tail \in Index
    PROVE  Slot(tail) = Slot(head + Count)
<1>1. Count = IF tail >= head THEN tail - head ELSE (tail - head) + IndexWrap
  BY ApartIs DEF Apart, Count
<1>2. head + Count = tail \/ head + Count = tail + IndexWrap
  BY <1>1, Sizes DEF Index
<1>3. tail \in Nat
  BY Sizes DEF Index
<1> QED BY <1>2, <1>3, WrapKeepsSlot DEF Slot

LEMMA HeadSlot ==
    ASSUME NEW h \in Index, NEW k \in Nat
    PROVE  Slot(Advance(h) + k) = Slot(h + k + 1)
<1>1. Advance(h) = IF h + 1 = IndexWrap THEN 0 ELSE h + 1
  BY AdvanceIs
<1>2. CASE h + 1 = IndexWrap
  <2>1. h + k + 1 = k + IndexWrap /\ Advance(h) + k = k
    BY <1>1, <1>2, Sizes DEF Index
  <2> QED BY <2>1, WrapKeepsSlot DEF Slot
<1>3. CASE h + 1 # IndexWrap
  <2>1. h + k + 1 = Advance(h) + k
    BY <1>1, <1>3, Sizes DEF Index
  <2> QED BY <2>1 DEF Slot
<1> QED BY <1>2, <1>3

\* A packet written behind the tail covers none of those that wait.
LEMMA OthersKept ==
    ASSUME head \in Index, tail \in Index, Count < QueueSize,
           NEW k \in 1 .. Count
    PROVE  Slot(head + k - 1) # Slot(tail)
<1>1. head \in Nat /\ Count \in Nat
  BY CountMoves, Sizes DEF Index
<1>2. head + k - 1 \in Nat /\ head + Count \in Nat
      /\ head + k - 1 < head + Count /\ head + Count < (head + k - 1) + QueueSize
  BY <1>1, Sizes
<1> QED BY <1>2, SlotsApart, TailSlot DEF Slot

-----------------------------------------------------------------------------
(* The sequence behind the indices *)

Stored == Messages \cup {NoMessage}

ContentsFacts ==
    /\ Contents \in Seq(Stored) /\ Len(Contents) = Count /\ Count \in Nat
    /\ \A k \in 1 .. Count : Contents[k] = data[Slot(head + k - 1)]

LEMMA ContentsIs == QueueTypeOK => ContentsFacts
<1> SUFFICES ASSUME QueueTypeOK PROVE ContentsFacts
  OBVIOUS
<1>1. Count \in Nat
  BY CountMoves, Sizes DEF QueueTypeOK, Index
<1>2. ASSUME NEW k \in 1 .. Count PROVE data[(head + k - 1) % QueueSize] \in Stored
  <2>1. head + k - 1 \in Nat
    BY <1>1, Sizes DEF QueueTypeOK, Index
  <2>2. Slot(head + k - 1) \in Cells
    BY <2>1, SlotType
  <2> QED BY <2>2 DEF QueueTypeOK, Stored, Slot
<1>3. Contents \in [1 .. Count -> Stored]
  BY <1>2 DEF Contents
<1>4. Contents \in Seq(Stored)
  BY <1>1, <1>3, SeqDef
<1>5. Len(Contents) = Count
  BY <1>1, <1>3
<1> QED BY <1>1, <1>4, <1>5 DEF Contents, Slot, ContentsFacts

LEMMA ContentsNextAre == QueueTypeOK' => ContentsFacts'
BY ContentsIs, PTL

\* A packet put into the slot of tail, and tail advanced: an Append.
LEMMA Appended ==
    ASSUME QueueTypeOK, QueueTypeOK', Count < QueueSize, NEW m \in Messages,
           head' = head, tail' = Advance(tail),
           \A k \in 1 .. Count : data'[Slot(head + k - 1)] = data[Slot(head + k - 1)],
           data'[Slot(tail)] = m
    PROVE  Contents' = Append(Contents, m)
<1>1. /\ Contents \in Seq(Stored) /\ Len(Contents) = Count /\ Count \in Nat
      /\ \A k \in 1 .. Count : Contents[k] = data[Slot(head + k - 1)]
  BY ContentsIs DEF ContentsFacts
<1>2. Count' = Count + 1
  <2>1. Count' = Apart(head, Advance(tail))
    BY DEF Count, Apart
  <2>2. Count < IndexWrap - 1
    BY <1>1, Sizes
  <2> QED BY <2>1, <2>2, CountMoves DEF QueueTypeOK
<1>3. /\ Contents' \in Seq(Stored) /\ Len(Contents') = Count'
      /\ \A k \in 1 .. Count' : Contents'[k] = data'[Slot(head' + k - 1)]
  BY ContentsNextAre DEF ContentsFacts, Stored, Slot
<1>4. Append(Contents, m) \in Seq(Stored) /\ Len(Append(Contents, m)) = Count + 1
  BY <1>1 DEF Stored
<1>5. ASSUME NEW k \in 1 .. Count + 1 PROVE Contents'[k] = Append(Contents, m)[k]
  <2>1. Contents'[k] = data'[Slot(head + k - 1)]
    BY <1>2, <1>3
  <2>2. CASE k \in 1 .. Count
    <3>1. Append(Contents, m)[k] = Contents[k]
      BY <1>1, <2>2
    <3> QED BY <1>1, <2>1, <2>2, <3>1
  <2>3. CASE k = Count + 1
    <3>1. Append(Contents, m)[k] = m
      BY <1>1, <2>3
    <3>2. head + k - 1 = head + Count
      BY <1>1, <2>3, Sizes DEF QueueTypeOK, Index
    <3>3. Slot(head + k - 1) = Slot(tail)
      BY <3>2, TailSlot DEF QueueTypeOK
    <3> QED BY <2>1, <3>1, <3>3
  <2> QED BY <1>1, <2>2, <2>3
<1> QED BY <1>2, <1>3, <1>4, <1>5, SeqEqual

\* The head advanced: the packet in its slot was taken.
LEMMA Taken ==
    ASSUME QueueTypeOK, QueueTypeOK', Count >= 1, tail' = tail, data' = data, head' = Advance(head)
    PROVE  /\ Contents # << >> /\ Head(Contents) = data[Slot(head)]
           /\ Contents' = Tail(Contents)
<1>1. /\ Contents \in Seq(Stored) /\ Len(Contents) = Count /\ Count \in Nat
      /\ \A k \in 1 .. Count : Contents[k] = data[Slot(head + k - 1)]
  BY ContentsIs DEF ContentsFacts
<1>2. Count' = Count - 1
  <2>1. Count' = Apart(Advance(head), tail)
    BY DEF Count, Apart
  <2> QED BY <2>1, CountMoves DEF QueueTypeOK
<1>3. /\ Contents' \in Seq(Stored) /\ Len(Contents') = Count'
      /\ \A k \in 1 .. Count' : Contents'[k] = data'[Slot(head' + k - 1)]
  BY ContentsNextAre DEF ContentsFacts, Stored, Slot
<1>4. Contents # << >> /\ Head(Contents) = Contents[1]
  BY <1>1
<1>5. head + 1 - 1 = head
  BY Sizes DEF QueueTypeOK, Index
<1>6. Head(Contents) = data[Slot(head)]
  BY <1>1, <1>4, <1>5
<1>7. /\ Tail(Contents) \in Seq(Stored) /\ Len(Tail(Contents)) = Count - 1
      /\ \A k \in 1 .. Count - 1 : Tail(Contents)[k] = Contents[k + 1]
  BY <1>1, <1>4, HeadTailProperties
<1>8. ASSUME NEW k \in 1 .. Count - 1 PROVE Contents'[k] = Tail(Contents)[k]
  <2>1. Contents'[k] = data[Slot(Advance(head) + k - 1)]
    BY <1>2, <1>3
  <2>2. Tail(Contents)[k] = data[Slot(head + (k + 1) - 1)]
    BY <1>1, <1>7
  <2>3. Slot(Advance(head) + (k - 1)) = Slot(head + (k - 1) + 1)
    BY <1>1, HeadSlot DEF QueueTypeOK
  <2>4. Advance(head) + (k - 1) = Advance(head) + k - 1
        /\ head + (k - 1) + 1 = head + (k + 1) - 1
    BY <1>1, AdvanceIs, Sizes DEF QueueTypeOK, Index
  <2> QED BY <2>1, <2>2, <2>3, <2>4
<1> QED BY <1>1, <1>2, <1>3, <1>4, <1>6, <1>7, <1>8, SeqEqual

-----------------------------------------------------------------------------
(* The main context in the middle of its call *)

Held ==
    /\ call \in {"write", "writeDone"} => mainProduces /\ buffer \in Messages
    /\ call \in {"read", "readDone", "peek"} => ~mainProduces
    /\ ~overrun =>
          /\ Count <= QueueSize
          /\ call = "write" => Count < QueueSize \/ NearWrap
          /\ call = "writeDone" => Count < QueueSize /\ data[Slot(tail)] = buffer
          /\ call \in {"read", "readDone", "peek"} => Count >= 1
          /\ call = "readDone" => buffer = data[Slot(head)]

LEMMA InitTypes == QueueInit => QueueTypeOK
<1> SUFFICES ASSUME QueueInit PROVE QueueTypeOK
  OBVIOUS
<1>1. data \in [Cells -> Messages \cup {NoMessage}]
  BY DEF QueueInit
<1>2. head \in Index /\ tail \in Index
  BY Sizes DEF QueueInit, Index
<1> QED BY <1>1, <1>2 DEF QueueInit, QueueTypeOK, Steps

LEMMA NextTypes == QueueTypeOK /\ [QueueNext]_queueVars => QueueTypeOK'
<1> SUFFICES ASSUME QueueTypeOK, [QueueNext]_queueVars PROVE QueueTypeOK'
  OBVIOUS
<1>1. /\ head % QueueSize \in Cells /\ tail % QueueSize \in Cells
      /\ Advance(head) \in Index /\ Advance(tail) \in Index
      /\ 0 \in Index
  <2>1. head \in Nat /\ tail \in Nat
    BY Sizes DEF QueueTypeOK, Index
  <2>2. head % QueueSize \in Cells /\ tail % QueueSize \in Cells
    BY <2>1, SlotType DEF Slot
  <2>3. Advance(head) \in Index /\ Advance(tail) \in Index
    BY AdvanceIs DEF QueueTypeOK
  <2>4. 0 \in Index
    BY Sizes DEF Index
  <2> QED BY <2>2, <2>3, <2>4
<1> USE DEF QueueTypeOK, Steps
<1>2. ASSUME NEW m \in Messages, EnqueueCheck(m) \/ EnqueueFromIsr(m)
      PROVE  QueueTypeOK'
  BY <1>1, <1>2 DEF EnqueueCheck, EnqueueFromIsr
<1>3. CASE EnqueueWrite \/ EnqueueAdvance
  BY <1>1, <1>3 DEF EnqueueWrite, EnqueueAdvance
<1>4. CASE DequeueCheck \/ PeekCheck
  BY <1>4 DEF DequeueCheck, PeekCheck
<1>5. CASE DequeueRead \/ DequeueAdvance \/ PeekRead \/ DequeueFromIsr
  BY <1>1, <1>5 DEF DequeueRead, DequeueAdvance, PeekRead, DequeueFromIsr
<1>6. CASE Reinitialise
  BY <1>1, <1>6 DEF Reinitialise
<1>7. CASE UNCHANGED queueVars
  BY <1>7 DEF queueVars
<1> QED BY <1>2, <1>3, <1>4, <1>5, <1>6, <1>7 DEF QueueNext

LEMMA InitHeld == QueueInit => Held /\ Contents = << >> /\ delivered = NoMessage
<1> SUFFICES ASSUME QueueInit PROVE Held /\ Contents = << >> /\ delivered = NoMessage
  OBVIOUS
<1>1. QueueTypeOK /\ head = 0 /\ tail = 0 /\ call = "idle" /\ delivered = NoMessage
  BY InitTypes DEF QueueInit
<1>2. Count = 0
  BY <1>1, ApartIs DEF QueueTypeOK, Apart, Count
<1>3. Contents = << >>
  BY <1>1, <1>2, ContentsIs DEF ContentsFacts
<1> QED BY <1>1, <1>2, <1>3, Sizes DEF Held

\* An overrun begins near the wrap.
LEMMA NextOverrun ==
    ASSUME QueueTypeOK, Held, [QueueNext]_queueVars, overrun'
    PROVE  Held' /\ (overrun \/ NearWrap)
<1> USE DEF Held
<1>n. Count \in Nat
  BY CountMoves, Sizes DEF QueueTypeOK, Index
<1>1. ASSUME NEW m \in Messages, EnqueueCheck(m) PROVE Held' /\ (overrun \/ NearWrap)
  BY <1>1 DEF EnqueueCheck
<1>2. CASE EnqueueWrite
  <2>1. /\ call = "write" /\ call' = "writeDone" /\ (overrun \/ Covers)
        /\ UNCHANGED <<mainProduces, buffer>>
    BY <1>2 DEF EnqueueWrite
  <2> QED BY <1>n, <2>1, Sizes DEF Covers
<1>3. CASE EnqueueAdvance
  BY <1>3 DEF EnqueueAdvance
<1>4. CASE DequeueCheck \/ PeekCheck \/ DequeueRead \/ DequeueAdvance \/ PeekRead
  <2>1. /\ overrun /\ mainProduces' = mainProduces
        /\ call' \in {"read", "readDone", "peek"} => ~mainProduces
        /\ call' \notin {"write", "writeDone"}
    BY <1>4 DEF DequeueCheck, PeekCheck, DequeueRead, DequeueAdvance, PeekRead
  <2> QED BY <2>1
<1>5. CASE Reinitialise
  BY <1>5 DEF Reinitialise
<1>6. ASSUME NEW m \in Messages, EnqueueFromIsr(m) PROVE Held' /\ (overrun \/ NearWrap)
  <2>1. ~mainProduces /\ ~IsFull /\ (overrun \/ Covers) /\ UNCHANGED <<mainProduces, call, buffer, head>>
    BY <1>6 DEF EnqueueFromIsr
  <2>2. overrun \/ NearWrap
    <3> SUFFICES ASSUME ~overrun, ~NearWrap PROVE FALSE
      OBVIOUS
    <3>1. Count < QueueSize
      BY <2>1, RoomLeft DEF QueueTypeOK
    <3> QED BY <2>1, <3>1, CountMoves, Sizes DEF Covers, QueueTypeOK, Index
  <2> QED BY <2>1, <2>2
<1>7. CASE DequeueFromIsr
  BY <1>7 DEF DequeueFromIsr
<1>8. CASE UNCHANGED queueVars
  BY <1>8 DEF queueVars
<1> QED BY <1>1, <1>2, <1>3, <1>4, <1>5, <1>6, <1>7, <1>8 DEF QueueNext

\* What a step shows of itself behind the indices, and that it keeps Held.
LEMMA NextHeld ==
    ASSUME QueueTypeOK, Held, [QueueNext]_queueVars, ~overrun'
    PROVE  Held' /\ [F!Next]_<<Contents, delivered>>
<1>t. QueueTypeOK'
  BY NextTypes
<1>i. head \in Index /\ tail \in Index
  BY DEF QueueTypeOK
<1>n. Count \in Nat /\ Advance(head) \in Index /\ Advance(tail) \in Index
  BY <1>i, CountMoves, AdvanceIs, Sizes DEF Index
\* Every step changes the queue at one end, or not at all.
<1>p. ASSUME head' = head, tail' = Advance(tail), Count < QueueSize
      PROVE  Count' = Count + 1
  <2>1. Count < IndexWrap - 1
    BY <1>n, <1>p, Sizes
  <2> QED BY <1>i, <1>p, <2>1, CountMoves DEF Apart, Count
<1>d. ASSUME head' = Advance(head), tail' = tail, Count >= 1
      PROVE  Count' = Count - 1
  BY <1>i, <1>d, CountMoves DEF Apart, Count
<1>u. ASSUME UNCHANGED <<head, tail>>
      PROVE  Count' = Count
  BY <1>u DEF Count
<1>1. ASSUME NEW m \in Messages, EnqueueCheck(m)
      PROVE  Held' /\ UNCHANGED <<Contents, delivered>>
  <2>1. /\ mainProduces /\ ~IsFull /\ ~overrun
        /\ buffer' = m /\ call' = "write" /\ UNCHANGED <<mainProduces, head, tail, data, delivered>>
    BY <1>1 DEF EnqueueCheck
  <2>2. Count < QueueSize \/ NearWrap
    BY <1>i, <2>1, RoomLeft DEF Held
  <2>3. Held'
    BY <1>n, <1>u, <2>1, <2>2 DEF Held, NearWrap
  <2> QED BY <2>1, <2>3 DEF Contents, Count
<1>2. CASE EnqueueWrite
  <2>1. /\ call = "write" /\ call' = "writeDone" /\ data' = [data EXCEPT ![Slot(tail)] = buffer]
        /\ UNCHANGED <<mainProduces, head, tail, buffer, delivered>> /\ ~overrun /\ ~Covers
    BY <1>2 DEF EnqueueWrite, Slot
  <2>2. mainProduces /\ Count < QueueSize /\ buffer \in Messages
    BY <1>n, <2>1, Sizes DEF Held, Covers
  <2>3. Slot(tail) \in Cells
    BY <1>i, SlotType, Sizes DEF Index
  <2>4. data'[Slot(tail)] = buffer
    BY <2>1, <2>3 DEF QueueTypeOK
  <2>5. Held'
    BY <1>n, <1>u, <2>1, <2>2, <2>4 DEF Held, Slot
  <2>6. ASSUME NEW k \in 1 .. Count PROVE data'[Slot(head + k - 1)] = data[Slot(head + k - 1)]
    <3>1. Slot(head + k - 1) # Slot(tail)
      BY <1>i, <2>2, OthersKept
    <3>2. head + k - 1 \in Nat
      BY <1>i, <1>n, Sizes DEF Index
    <3> QED BY <2>1, <3>1, <3>2, SlotType DEF QueueTypeOK
  <2>7. Contents' = Contents
    BY <1>u, <2>1, <2>6 DEF Contents, Slot
  <2> QED BY <2>1, <2>5, <2>7
<1>3. CASE EnqueueAdvance
  <2>1. /\ call = "writeDone" /\ call' = "idle" /\ tail' = Advance(tail)
        /\ UNCHANGED <<mainProduces, head, data, delivered>> /\ ~overrun
    BY <1>3 DEF EnqueueAdvance
  <2>2. Count < QueueSize /\ buffer \in Messages /\ data[Slot(tail)] = buffer
    BY <2>1 DEF Held
  <2>3. Contents' = Append(Contents, buffer)
    BY <1>t, <2>1, <2>2, Appended
  <2>4. Len(Contents) = Count
    BY ContentsIs DEF ContentsFacts
  <2>5. F!Put(buffer)
    BY <2>1, <2>2, <2>3, <2>4 DEF F!Put
  <2>6. Held'
    BY <1>n, <1>p, <2>1, <2>2, Sizes DEF Held
  <2> QED BY <2>2, <2>5, <2>6 DEF F!Next
<1>4. CASE DequeueCheck \/ PeekCheck
  <2>1. /\ ~mainProduces /\ head # tail /\ call' \in {"read", "peek"}
        /\ UNCHANGED <<mainProduces, head, tail, data, buffer, delivered>> /\ ~overrun
    BY <1>4 DEF DequeueCheck, PeekCheck, IsEmpty
  <2>2. Count >= 1
    BY <1>i, <2>1, CountMoves
  <2>3. Held'
    BY <1>n, <1>u, <2>1, <2>2 DEF Held
  <2> QED BY <2>1, <2>3 DEF Contents, Count
<1>5. CASE DequeueRead
  <2>1. /\ call = "read" /\ call' = "readDone" /\ buffer' = data[Slot(head)]
        /\ UNCHANGED <<mainProduces, head, tail, data, delivered>> /\ ~overrun
    BY <1>5 DEF DequeueRead, Slot
  <2>2. Held'
    BY <1>n, <1>u, <2>1 DEF Held, Slot
  <2> QED BY <2>1, <2>2 DEF Contents, Count
<1>6. CASE DequeueAdvance
  <2>1. /\ call = "readDone" /\ call' = "idle" /\ head' = Advance(head) /\ delivered' = buffer
        /\ UNCHANGED <<mainProduces, tail, data>> /\ ~overrun
    BY <1>6 DEF DequeueAdvance
  <2>2. Count >= 1 /\ buffer = data[Slot(head)]
    BY <2>1 DEF Held
  <2>3. F!Take
    BY <1>t, <2>1, <2>2, Taken DEF F!Take
  <2>4. Held'
    BY <1>n, <1>d, <2>1, <2>2, Sizes DEF Held
  <2> QED BY <2>3, <2>4 DEF F!Next
<1>7. CASE PeekRead
  <2>1. /\ call = "peek" /\ call' = "idle" /\ delivered' = data[Slot(head)]
        /\ UNCHANGED <<mainProduces, head, tail, data, buffer>> /\ ~overrun
    BY <1>7 DEF PeekRead, Slot
  <2>2. Count >= 1
    BY <2>1 DEF Held
  <2>3. /\ Contents \in Seq(Stored) /\ Len(Contents) = Count
        /\ \A k \in 1 .. Count : Contents[k] = data[Slot(head + k - 1)]
    BY ContentsIs DEF ContentsFacts
  <2>4. head + 1 - 1 = head
    BY <1>i, Sizes DEF Index
  <2>5. Contents # << >> /\ Head(Contents) = data[Slot(head)]
    BY <1>n, <2>2, <2>3, <2>4
  <2>6. F!Peek
    BY <2>1, <2>5 DEF F!Peek, Contents, Count
  <2>7. Held'
    BY <1>n, <1>u, <2>1 DEF Held
  <2> QED BY <2>6, <2>7 DEF F!Next
<1>8. CASE Reinitialise
  <2>1. call = "idle" /\ head' = 0 /\ tail' = 0 /\ UNCHANGED <<call, delivered>>
    BY <1>8 DEF Reinitialise
  <2>2. Count' = 0
    BY <1>t, <2>1, ApartIs DEF QueueTypeOK, Apart, Count
  <2>3. Contents' = << >>
    BY <1>t, <2>2, ContentsNextAre DEF ContentsFacts
  <2>4. Held'
    BY <2>1, <2>2, Sizes DEF Held
  <2> QED BY <2>1, <2>3, <2>4 DEF F!Next, F!Clear
<1>9. ASSUME NEW m \in Messages, EnqueueFromIsr(m)
      PROVE  Held' /\ F!Put(m)
  <2>1. /\ ~mainProduces /\ ~IsFull /\ ~overrun /\ ~Covers
        /\ data' = [data EXCEPT ![Slot(tail)] = m] /\ tail' = Advance(tail)
        /\ UNCHANGED <<mainProduces, head, call, buffer, delivered>>
    BY <1>9 DEF EnqueueFromIsr, Slot
  <2>2. Count < QueueSize
    BY <1>n, <2>1, Sizes DEF Covers
  <2>3. Slot(tail) \in Cells
    BY <1>i, SlotType, Sizes DEF Index
  <2>4. data'[Slot(tail)] = m
    BY <2>1, <2>3 DEF QueueTypeOK
  <2>5. ASSUME NEW k \in 1 .. Count PROVE data'[Slot(head + k - 1)] = data[Slot(head + k - 1)]
    <3>1. Slot(head + k - 1) # Slot(tail)
      BY <1>i, <2>2, OthersKept
    <3>2. head + k - 1 \in Nat
      BY <1>i, <1>n, Sizes DEF Index
    <3> QED BY <2>1, <3>1, <3>2, SlotType DEF QueueTypeOK
  <2>6. Contents' = Append(Contents, m)
    BY <1>t, <2>1, <2>2, <2>4, <2>5, Appended
  <2>7. Len(Contents) = Count
    BY ContentsIs DEF ContentsFacts
  <2>8. F!Put(m)
    BY <2>1, <2>2, <2>6, <2>7 DEF F!Put
  <2>9. call = "readDone" => data'[Slot(head)] = data[Slot(head)]
    <3> SUFFICES ASSUME call = "readDone" PROVE data'[Slot(head)] = data[Slot(head)]
      OBVIOUS
    <3>1. 1 \in 1 .. Count /\ head + 1 - 1 = head
      BY <1>i, <1>n, <2>1, Sizes DEF Held, Index
    <3> QED BY <2>5, <3>1
  <2>10. Held'
    <3>1. Count' = Count + 1
      BY <1>p, <2>1, <2>2
    <3> QED BY <1>n, <2>1, <2>2, <2>9, <3>1, Sizes DEF Held, Slot
  <2> QED BY <2>8, <2>10
<1>10. CASE DequeueFromIsr
  <2>1. /\ mainProduces /\ head # tail /\ delivered' = data[Slot(head)]
        /\ head' = Advance(head) /\ UNCHANGED <<mainProduces, tail, data, call, buffer>> /\ ~overrun
    BY <1>10 DEF DequeueFromIsr, IsEmpty, Slot
  <2>2. Count >= 1
    BY <1>i, <2>1, CountMoves
  <2>3. F!Take
    BY <1>t, <2>1, <2>2, Taken DEF F!Take
  <2>4. Held'
    BY <1>n, <1>d, <2>1, <2>2, Sizes DEF Held, Slot
  <2> QED BY <2>3, <2>4 DEF F!Next
<1>11. CASE UNCHANGED queueVars
  <2>1. Held'
    BY <1>u, <1>11 DEF queueVars, Held, Slot, NearWrap
  <2> QED BY <1>11, <2>1 DEF queueVars, Contents, Count
<1> QED BY <1>1, <1>2, <1>3, <1>4, <1>5, <1>6, <1>7, <1>8, <1>9, <1>10, <1>11 DEF QueueNext, F!Next

LEMMA QueueInvariant == QueueSpec => [](QueueTypeOK /\ Held)
<1>1. QueueInit => QueueTypeOK /\ Held
  BY InitTypes, InitHeld
<1>2. QueueTypeOK /\ Held /\ [QueueNext]_queueVars => QueueTypeOK' /\ Held'
  BY NextTypes, NextHeld, NextOverrun
<1> QED BY <1>1, <1>2, PTL DEF QueueSpec

(***************************************************************************)
(* The two contexts together use each queue as the FIFO queue the header   *)
(* promises, whatever either does when, until a packet that waits is       *)
(* overwritten (aci_queue.c:45-113, 163-176).                              *)
(***************************************************************************)
THEOREM QueueIsFifo == QueueSpec => IsFifo
<1>1. QueueInit => F!Init
  BY InitHeld DEF F!Init
<1>2. QueueTypeOK /\ Held /\ [QueueNext]_queueVars => [overrun' \/ F!Next]_<<Contents, delivered>>
  BY NextHeld
<1> QED BY <1>1, <1>2, QueueInvariant, PTL DEF QueueSpec, IsFifo

(***************************************************************************)
(* A packet is overwritten only with the head within QueueSize of the      *)
(* wrap: elsewhere both contexts see a full queue as full, though the test *)
(* is long past when the main context writes (aci_queue.c:77-113,          *)
(* 139-161).                                                               *)
(***************************************************************************)
THEOREM OverwrittenAtWrap == QueueSpec => OverrunAtWrap
<1>1. QueueTypeOK /\ Held /\ [QueueNext]_queueVars
          => [overrun' => overrun \/ head + QueueSize >= IndexWrap]_queueVars
  BY NextOverrun DEF NearWrap
<1> QED BY <1>1, QueueInvariant, PTL DEF QueueSpec, OverrunAtWrap
=============================================================================
