-------------------------- MODULE AciLibraryProof --------------------------
(***************************************************************************)
(* What is above the transport.                                            *)
(*                                                                         *)
(* do_aci_setup, for any number of setup messages, any size of the queues, *)
(* any bound of the guard counter and any number of calls and resets: what *)
(* it offers is in order, what it returns as SUCCESS is one, and events    *)
(* that are not its own pass it by.                                        *)
(*                                                                         *)
(* lib_aci, with either client, any number of pipes, credits, links,       *)
(* hardware errors and events under way: its picture of the pipes catches  *)
(* up with the radio, unless the radio failed with pipes open.  Credits    *)
(* are conserved by the client that counts them, the heart rate sketch,    *)
(* and its rings, of any size, are queues.                                 *)
(***************************************************************************)
EXTENDS AciSetup, HeartRate, SequenceTheorems, FiniteSetTheorems, FunctionTheorems, TLAPS

(***************************************************************************)
(* The queues hold events; two things matter of one: how many of its       *)
(* events are not responses, and whether a COMPLETE is among them.         *)
(***************************************************************************)
One(e) == IF IsForeign(e) THEN 1 ELSE 0

Reports(q) == \E k \in 1 .. Len(q) : q[k] = "complete"

LEMMA ForeignNat ==
    ASSUME NEW q \in Seq(SetupEvents)
    PROVE  /\ IsFiniteSet({k \in DOMAIN q : IsForeign(q[k])})
           /\ Foreign(q) \in Nat
<1>1. Len(q) \in Nat /\ DOMAIN q = 1 .. Len(q)
  BY LenProperties
<1>2. IsFiniteSet(1 .. Len(q))
  BY <1>1, FS_Interval
<1>3. IsFiniteSet({k \in DOMAIN q : IsForeign(q[k])})
  BY <1>1, <1>2, FS_Subset
<1> QED BY <1>3, FS_CardinalityType DEF Foreign

LEMMA NothingQueued == Foreign(<< >>) = 0 /\ ~Reports(<< >>) /\ << >> \in Seq(SetupEvents)
<1>1. << >> \in Seq(SetupEvents) /\ Len(<< >>) = 0 /\ DOMAIN << >> = 1 .. 0
  BY EmptySeq, LenProperties
<1>2. {k \in DOMAIN << >> : IsForeign(<< >>[k])} = {}
  BY <1>1
<1> QED BY <1>1, <1>2, FS_EmptySet DEF Foreign, Reports

LEMMA Queued ==
    ASSUME NEW q \in Seq(SetupEvents), NEW e \in SetupEvents
    PROVE  /\ Append(q, e) \in Seq(SetupEvents) /\ Len(Append(q, e)) = Len(q) + 1
           /\ Foreign(Append(q, e)) = Foreign(q) + One(e)
           /\ Reports(Append(q, e)) <=> Reports(q) \/ e = "complete"
<1> DEFINE r == Append(q, e)
           A == {k \in DOMAIN q : IsForeign(q[k])}
           B == {k \in DOMAIN r : IsForeign(r[k])}
<1>1. /\ r \in Seq(SetupEvents) /\ Len(r) = Len(q) + 1
      /\ \A k \in 1 .. Len(q) : r[k] = q[k]
      /\ r[Len(q) + 1] = e
  BY AppendProperties
<1>2. Len(q) \in Nat /\ DOMAIN q = 1 .. Len(q) /\ DOMAIN r = 1 .. Len(q) + 1
  BY <1>1, LenProperties
<1>3. 1 .. Len(q) + 1 = (1 .. Len(q)) \cup {Len(q) + 1} /\ Len(q) + 1 \notin 1 .. Len(q)
  BY <1>2
<1> HIDE DEF r
<1>4. B = IF IsForeign(e) THEN A \cup {Len(q) + 1} ELSE A
  BY <1>1, <1>2, <1>3
<1>5. IsFiniteSet(A) /\ Cardinality(A) \in Nat
  BY ForeignNat, FS_CardinalityType
<1>6. Cardinality(B) = Cardinality(A) + One(e)
  <2>1. Len(q) + 1 \notin A
    BY <1>2, <1>3
  <2> HIDE DEF A, B
  <2>2. Cardinality(A \cup {Len(q) + 1}) = Cardinality(A) + 1
    BY <1>5, <2>1, FS_AddElement
  <2> QED BY <1>4, <1>5, <2>2 DEF One
<1>7. Reports(r) <=> Reports(q) \/ e = "complete"
  BY <1>1, <1>2, <1>3 DEF Reports
<1>8. Foreign(r) = Foreign(q) + One(e)
  BY <1>6 DEF Foreign
<1> QED BY <1>1, <1>7, <1>8 DEF r

LEMMA Dequeued ==
    ASSUME NEW q \in Seq(SetupEvents), q # << >>
    PROVE  /\ Tail(q) \in Seq(SetupEvents) /\ Len(Tail(q)) = Len(q) - 1
           /\ Head(q) \in SetupEvents
           /\ Foreign(q) = Foreign(Tail(q)) + One(Head(q))
           /\ Reports(Tail(q)) => Reports(q)
           /\ Head(q) = "complete" => Reports(q)
<1> DEFINE t == Tail(q)
           A == {k \in DOMAIN q : IsForeign(q[k])}
           B == {k \in DOMAIN t : IsForeign(t[k])}
           C == A \ {1}
<1>1. /\ t \in Seq(SetupEvents) /\ Len(t) = Len(q) - 1
      /\ Head(q) \in SetupEvents /\ Head(q) = q[1]
      /\ \A k \in 1 .. Len(t) : t[k] = q[k + 1]
  BY HeadTailProperties
<1>2. /\ Len(q) \in Nat \ {0} /\ DOMAIN q = 1 .. Len(q) /\ DOMAIN t = 1 .. Len(q) - 1
  BY <1>1, LenProperties, EmptySeq
<1> HIDE DEF t
<1>3. IsFiniteSet(A) /\ IsFiniteSet(B) /\ Cardinality(B) \in Nat
  BY <1>1, ForeignNat, FS_CardinalityType
<1>4. ExistsBijection(B, C)
  <2> DEFINE f == [k \in B |-> k + 1]
  <2>1. \A k \in B : k \in Int /\ k + 1 \in C
    BY <1>1, <1>2
  <2>2. \A c \in C : c - 1 \in B /\ (c - 1) + 1 = c
    BY <1>1, <1>2
  <2>3. f \in Bijection(B, C)
    <3>1. f \in [B -> C]
      BY <2>1
    <3>2. \A a, b \in B : f[a] = f[b] => a = b
      BY <2>1
    <3>3. \A c \in C : \E b \in B : f[b] = c
      BY <2>2
    <3> QED BY <3>1, <3>2, <3>3, Fun_IsBij
  <2> QED BY <2>3 DEF ExistsBijection
<1>5. Cardinality(C) = Cardinality(B)
  BY <1>3, <1>4, FS_Bijection
<1>6. Cardinality(A) = Cardinality(B) + One(Head(q))
  <2>1. Cardinality(C) = IF 1 \in A THEN Cardinality(A) - 1 ELSE Cardinality(A)
    BY <1>3, FS_RemoveElement
  <2>2. 1 \in A <=> IsForeign(Head(q))
    BY <1>1, <1>2
  <2>3. Cardinality(A) \in Nat
    BY <1>3, FS_CardinalityType
  <2> QED BY <1>3, <1>5, <2>1, <2>2, <2>3 DEF One
<1>7. /\ Reports(t) => Reports(q)
      /\ Head(q) = "complete" => Reports(q)
  BY <1>1, <1>2 DEF Reports
<1>8. Foreign(q) = Foreign(t) + One(Head(q))
  BY <1>6 DEF Foreign
<1> QED BY <1>1, <1>7, <1>8 DEF t

-----------------------------------------------------------------------------
(***************************************************************************)
(* The inductive invariant.  While a call handles a CONTINUE or a          *)
(* COMPLETE, that response is still at the head of its queue; and a        *)
(* COMPLETE, wherever it is, came when the radio had all the messages.     *)
(***************************************************************************)
LocalsOK ==
    /\ pc \in {"app", "fill", "loop", "get"}
    /\ offset \in 0 .. N
    /\ i \in 0 .. Guard + 1
    /\ status \in {"mismatch", "continue", "complete"}
    /\ result \in Results
    /\ calls \in 0 .. MaxCalls /\ inits \in 0 .. MaxInits
    /\ prompt \in BOOLEAN

SetupCommandsOK == txq \in Seq(1 .. N) /\ Len(txq) <= QueueSize /\ accepted \in 0 .. N

SetupEventsOK ==
    /\ rxq \in Seq(SetupEvents) /\ Len(rxq) <= QueueSize
    /\ pending \in Seq(SetupEvents)
    /\ others \in Nat /\ seen \in Nat

Held ==
    pc = "get" \/ (pc = "fill" /\ status = "continue") =>
        rxq # << >> /\ ~IsForeign(Head(rxq))

AllTaken ==
    /\ Reports(rxq) \/ Reports(pending) => accepted = N
    /\ pc # "app" /\ status = "complete" => accepted = N
    /\ SuccessConfigured

SetupInductive ==
    /\ LocalsOK /\ SetupCommandsOK /\ SetupEventsOK
    /\ OfferedInOrder /\ Held /\ AllTaken /\ OthersReachApp

LEMMA TypeParts == SetupTypeOK <=> LocalsOK /\ SetupCommandsOK /\ SetupEventsOK
BY DEF SetupTypeOK, LocalsOK, SetupCommandsOK, SetupEventsOK

LEMMA StartedAlone ==
    LET q == <<"started">> IN q \in Seq(SetupEvents) /\ Foreign(q) = 1 /\ ~Reports(q)
<1> DEFINE q == <<"started">>
<1>1. q = Append(<< >>, "started")
  OBVIOUS
<1>2. "started" \in SetupEvents /\ IsForeign("started")
  BY DEF SetupEvents, Responses, IsForeign
<1>3. /\ q \in Seq(SetupEvents) /\ Foreign(q) = 0 + One("started")
      /\ Reports(q) <=> Reports(<< >>) \/ "started" = "complete"
  BY <1>1, <1>2, NothingQueued, Queued
<1>4. One("started") = 1 /\ "started" # "complete"
  BY <1>2 DEF One
<1> QED BY <1>3, <1>4, NothingQueued

LEMMA SetupInitInductive == SetupInit => SetupInductive
<1> SUFFICES ASSUME SetupInit PROVE SetupInductive
  OBVIOUS
<1>3. pending \in Seq(SetupEvents) /\ Foreign(pending) = 1 /\ ~Reports(pending)
  BY StartedAlone DEF SetupInit
<1>4. SetupCommandsOK
  BY SetupAssumption, EmptySeq DEF SetupInit, SetupCommandsOK
<1>5. SetupEventsOK /\ OthersReachApp
  BY SetupAssumption, <1>3, NothingQueued, EmptySeq DEF SetupInit, SetupEventsOK, OthersReachApp
<1>6. LocalsOK
  BY SetupAssumption DEF SetupInit, LocalsOK, Results
<1>7. OfferedInOrder /\ Held /\ AllTaken
  BY <1>3, NothingQueued DEF SetupInit, OfferedInOrder, Held, AllTaken, SuccessConfigured
<1> QED BY <1>4, <1>5, <1>6, <1>7 DEF SetupInductive

LEMMA NextLocalsOK == LocalsOK /\ [SetupNext]_setupVars => LocalsOK'
<1> SUFFICES ASSUME LocalsOK, [SetupNext]_setupVars PROVE LocalsOK'
  OBVIOUS
<1> USE SetupAssumption DEF LocalsOK, locals, bounds, Return
<1>1. CASE RadioTakes \/ RadioReports \/ Deliver \/ AppGet
  BY <1>1 DEF RadioTakes, RadioReports, Deliver, AppGet
<1>2. CASE AppInit
  BY <1>2 DEF AppInit, Results
<1>3. CASE Call
  BY <1>3 DEF Call, Entry, Results
<1>4. CASE FillSend \/ FillDone
  BY <1>4 DEF FillSend, FillDone
<1>5. CASE LoopSuccess \/ LoopTimeout \/ LoopOther
  BY <1>5 DEF LoopSuccess, LoopTimeout, LoopOther, Results
<1>6. CASE LoopNothing \/ LoopContinue \/ LoopComplete \/ GetEvent
  BY <1>6 DEF LoopNothing, LoopContinue, LoopComplete, GetEvent
<1>7. CASE UNCHANGED setupVars
  BY <1>7 DEF setupVars
<1> QED BY <1>1, <1>2, <1>3, <1>4, <1>5, <1>6, <1>7 DEF SetupNext, Setup

LEMMA SetupNextCommandsOK ==
    SetupCommandsOK /\ LocalsOK /\ [SetupNext]_setupVars => SetupCommandsOK'
<1> SUFFICES ASSUME SetupCommandsOK, LocalsOK, [SetupNext]_setupVars PROVE SetupCommandsOK'
  OBVIOUS
<1>1. txq \in Seq(1 .. N) /\ Len(txq) \in Nat /\ Len(txq) <= QueueSize /\ accepted \in 0 .. N
  BY LenProperties DEF SetupCommandsOK
<1>2. CASE RadioTakes
  <2>1. /\ txq # << >> /\ txq' = Tail(txq)
        /\ accepted' = accepted \/ (accepted' = accepted + 1 /\ accepted < N)
    BY <1>2 DEF RadioTakes, Expected, device
  <2>2. txq' \in Seq(1 .. N) /\ Len(txq') = Len(txq) - 1
    BY <1>1, <2>1, HeadTailProperties
  <2> QED BY <1>1, <2>1, <2>2, SetupAssumption DEF SetupCommandsOK
<1>3. CASE FillSend
  <2>1. /\ txq' = Append(txq, offset + 1) /\ Len(txq) < QueueSize
        /\ offset < N /\ offset \in 0 .. N
        /\ accepted' = accepted
    BY <1>3 DEF FillSend, LocalsOK, device
  <2>2. txq' \in Seq(1 .. N) /\ Len(txq') = Len(txq) + 1
    BY <1>1, <2>1, SetupAssumption, AppendProperties
  <2> QED BY <1>1, <2>1, <2>2, SetupAssumption DEF SetupCommandsOK
<1>4. CASE AppInit
  BY <1>4, EmptySeq, SetupAssumption DEF AppInit, SetupCommandsOK
<1>5. CASE UNCHANGED <<txq, accepted>>
  BY <1>5 DEF SetupCommandsOK
<1> QED BY <1>2, <1>3, <1>4, <1>5
        DEF SetupNext, Setup, RadioReports, Deliver, AppGet, Call, FillDone, LoopSuccess,
            LoopTimeout, LoopNothing, LoopContinue, LoopComplete, LoopOther, GetEvent,
            setupVars, queues, device

LEMMA NextOffered ==
    SetupCommandsOK /\ LocalsOK /\ OfferedInOrder /\ [SetupNext]_setupVars => OfferedInOrder'
<1> SUFFICES ASSUME SetupCommandsOK, LocalsOK, OfferedInOrder, [SetupNext]_setupVars
             PROVE  OfferedInOrder'
  OBVIOUS
<1>1. txq \in Seq(1 .. N) /\ Len(txq) \in Nat /\ offset \in Nat
  BY LenProperties, SetupAssumption DEF SetupCommandsOK, LocalsOK
<1>2. CASE RadioTakes
  <2>1. txq # << >> /\ txq' = Tail(txq) /\ UNCHANGED <<pc, offset>>
    BY <1>2 DEF RadioTakes, locals
  <2>2. Len(txq') = Len(txq) - 1 /\ \A k \in 1 .. Len(txq') : txq'[k] = txq[k + 1]
    BY <1>1, <2>1, HeadTailProperties
  <2> QED BY <1>1, <2>1, <2>2 DEF OfferedInOrder
<1>3. CASE FillSend
  <2>1. /\ txq' = Append(txq, offset + 1) /\ offset' = offset + 1
        /\ pc = "fill" /\ offset + 1 \in 1 .. N
    BY <1>1, <1>3, SetupAssumption DEF FillSend, LocalsOK
  <2>2. /\ Len(txq') = Len(txq) + 1 /\ txq'[Len(txq) + 1] = offset + 1
        /\ \A k \in 1 .. Len(txq) : txq'[k] = txq[k]
    BY <1>1, <2>1, AppendProperties
  <2>3. Len(txq) <= offset /\ \A k \in 1 .. Len(txq) : txq[k] = offset - Len(txq) + k
    BY <2>1 DEF OfferedInOrder
  <2>4. \A k \in 1 .. Len(txq') : txq'[k] = offset' - Len(txq') + k
    <3> SUFFICES ASSUME NEW k \in 1 .. Len(txq') PROVE txq'[k] = offset' - Len(txq') + k
      OBVIOUS
    <3>1. CASE k = Len(txq) + 1
      BY <1>1, <2>1, <2>2, <3>1
    <3>2. CASE k # Len(txq) + 1
      BY <1>1, <2>1, <2>2, <2>3, <3>2
    <3> QED BY <3>1, <3>2
  <2> QED BY <1>1, <2>1, <2>2, <2>3, <2>4 DEF OfferedInOrder
<1>4. CASE Call
  BY <1>1, <1>4, EmptySeq DEF Call, Entry, Return, OfferedInOrder, queues
<1>5. CASE pc' = "app"
  BY <1>5 DEF OfferedInOrder
<1>6. CASE pc # "app" /\ UNCHANGED <<txq, offset>>
  BY <1>6 DEF OfferedInOrder
<1>7. CASE UNCHANGED <<txq, offset, pc>>
  BY <1>7 DEF OfferedInOrder
<1> QED BY <1>2, <1>3, <1>4, <1>5, <1>6, <1>7
        DEF SetupNext, Setup, RadioReports, Deliver, AppGet, AppInit, FillDone, LoopSuccess,
            LoopTimeout, LoopNothing, LoopContinue, LoopComplete, LoopOther, GetEvent,
            Return, InLoop, setupVars, queues, locals

(***************************************************************************)
(* What the event queues hold.                                             *)
(***************************************************************************)
EventsPart == SetupEventsOK /\ Held /\ AllTaken /\ OthersReachApp

LEMMA TookOne ==
    ASSUME rxq \in Seq(SetupEvents), Len(rxq) <= QueueSize, pending \in Seq(SetupEvents),
           others \in Nat, seen \in Nat, QueueSize \in Nat, OthersReachApp, AllTaken,
           rxq # << >>, rxq' = Tail(rxq), seen' = seen + One(Head(rxq)),
           pc # "app" \/ pc' = "app", pc' \in {"app", "loop"},
           UNCHANGED <<pending, accepted, others, status, result>>
    PROVE  EventsPart'
<1>1. /\ rxq' \in Seq(SetupEvents) /\ Len(rxq') = Len(rxq) - 1
      /\ Foreign(rxq) = Foreign(rxq') + One(Head(rxq))
      /\ Reports(rxq') => Reports(rxq)
  BY Dequeued
<1>2. /\ Foreign(rxq') \in Nat /\ Foreign(pending) \in Nat /\ One(Head(rxq)) \in Nat
      /\ Len(rxq) \in Nat
  BY <1>1, ForeignNat, LenProperties DEF One
<1>3. SetupEventsOK'
  BY <1>1, <1>2 DEF SetupEventsOK
<1>4. OthersReachApp'
  BY <1>1, <1>2 DEF OthersReachApp
<1>5. AllTaken'
  BY <1>1 DEF AllTaken, SuccessConfigured
<1> QED BY <1>3, <1>4, <1>5 DEF EventsPart, Held

LEMMA NextEvents == SetupInductive /\ [SetupNext]_setupVars => EventsPart'
<1> SUFFICES ASSUME SetupInductive, [SetupNext]_setupVars PROVE EventsPart'
  OBVIOUS
<1>1. /\ rxq \in Seq(SetupEvents) /\ Len(rxq) <= QueueSize /\ Len(rxq) \in Nat
      /\ pending \in Seq(SetupEvents)
      /\ Foreign(rxq) \in Nat /\ Foreign(pending) \in Nat
      /\ others \in Nat /\ seen \in Nat
      /\ others = seen + Foreign(rxq) + Foreign(pending)
      /\ accepted \in 0 .. N /\ N \in Nat /\ QueueSize \in Nat \ {0}
  BY SetupAssumption, LenProperties, ForeignNat
     DEF SetupInductive, SetupEventsOK, SetupCommandsOK, OthersReachApp
<1>2. Held /\ AllTaken /\ OthersReachApp /\ pc \in {"app", "fill", "loop", "get"}
  BY DEF SetupInductive, LocalsOK
<1>3. /\ One("started") = 1 /\ One("other") = 1 /\ One("complete") = 0
      /\ One("continue") = 0 /\ One("refused") = 0
      /\ SetupEvents = Responses \cup {"started", "other"}
      /\ Responses = {"continue", "complete", "refused"}
  BY DEF One, IsForeign, Responses, SetupEvents
<1>4. CASE RadioTakes
  <2>1. UNCHANGED <<rxq, seen, pc, status, result>>
    BY <1>4 DEF RadioTakes, locals
  <2>2. CASE ~Expected
    <3>1. pending' = Append(pending, "refused") /\ UNCHANGED <<accepted, others>>
      BY <1>4, <2>2 DEF RadioTakes, device
    <3>2. /\ pending' \in Seq(SetupEvents) /\ Foreign(pending') = Foreign(pending) + 0
          /\ Reports(pending') <=> Reports(pending)
      BY <1>1, <1>3, <3>1, Queued
    <3> QED BY <1>1, <1>2, <2>1, <3>1, <3>2
            DEF EventsPart, SetupEventsOK, Held, AllTaken, OthersReachApp, SuccessConfigured
  <2>3. CASE Expected /\ accepted + 1 # N
    <3>1. /\ pending' = Append(pending, "continue") /\ others' = others
          /\ accepted' = accepted + 1 /\ accepted # N
      BY <1>1, <1>4, <2>3 DEF RadioTakes, Expected
    <3>2. /\ pending' \in Seq(SetupEvents) /\ Foreign(pending') = Foreign(pending) + 0
          /\ Reports(pending') <=> Reports(pending)
      BY <1>1, <1>3, <3>1, Queued
    <3> QED BY <1>1, <1>2, <2>1, <3>1, <3>2
            DEF EventsPart, SetupEventsOK, Held, AllTaken, OthersReachApp, SuccessConfigured
  <2>4. CASE Expected /\ accepted + 1 = N
    <3> DEFINE p == Append(pending, "complete")
    <3>1. /\ pending' = pending \o <<"complete", "started">> /\ others' = others + 1
          /\ accepted' = N
      BY <1>4, <2>4 DEF RadioTakes, Expected
    <3>2. pending' = Append(p, "started")
      BY <1>1, <3>1
    <3>3. p \in Seq(SetupEvents) /\ Foreign(p) = Foreign(pending) + 0
      BY <1>1, <1>3, Queued
    <3> HIDE DEF p
    <3>4. pending' \in Seq(SetupEvents) /\ Foreign(pending') = Foreign(p) + 1
      BY <1>3, <3>2, <3>3, Queued
    <3>5. Foreign(pending') = Foreign(pending) + 1 /\ others' = others + 1 /\ accepted' = N
      BY <1>1, <3>1, <3>3, <3>4
    <3>6. SetupEventsOK'
      BY <1>1, <2>1, <3>4, <3>5 DEF SetupEventsOK
    <3>7. OthersReachApp'
      BY <1>1, <2>1, <3>5 DEF OthersReachApp
    <3>8. Held' /\ AllTaken'
      BY <1>2, <2>1, <3>5 DEF Held, AllTaken, SuccessConfigured
    <3> QED BY <3>6, <3>7, <3>8 DEF EventsPart
  <2> QED BY <2>2, <2>3, <2>4
<1>5. CASE RadioReports
  <2>1. /\ pending' = Append(pending, "other") /\ others' = others + 1
        /\ UNCHANGED <<rxq, accepted, seen, pc, status, result>>
    BY <1>5 DEF RadioReports, locals
  <2>2. /\ pending' \in Seq(SetupEvents) /\ Foreign(pending') = Foreign(pending) + 1
        /\ Reports(pending') <=> Reports(pending)
    BY <1>1, <1>3, <2>1, Queued
  <2> QED BY <1>1, <1>2, <2>1, <2>2
          DEF EventsPart, SetupEventsOK, Held, AllTaken, OthersReachApp, SuccessConfigured
<1>6. CASE Deliver
  <2>1. /\ pending # << >> /\ Len(rxq) < QueueSize
        /\ rxq' = Append(rxq, Head(pending)) /\ pending' = Tail(pending)
        /\ UNCHANGED <<accepted, others, seen, pc, status, result>>
    BY <1>6 DEF Deliver, locals, device
  <2>2. /\ pending' \in Seq(SetupEvents) /\ Head(pending) \in SetupEvents
        /\ Foreign(pending) = Foreign(pending') + One(Head(pending))
        /\ Reports(pending') => Reports(pending)
        /\ Head(pending) = "complete" => Reports(pending)
    BY <1>1, <2>1, Dequeued
  <2>3. /\ rxq' \in Seq(SetupEvents) /\ Len(rxq') = Len(rxq) + 1
        /\ Foreign(rxq') = Foreign(rxq) + One(Head(pending))
        /\ Reports(rxq') <=> Reports(rxq) \/ Head(pending) = "complete"
    BY <1>1, <2>1, <2>2, Queued
  <2>4. rxq # << >> => rxq' # << >> /\ Head(rxq') = Head(rxq)
    <3>1. rxq # << >> => Len(rxq) > 0 /\ rxq'[1] = rxq[1] /\ Len(rxq') > 0
      BY <1>1, <2>1, <2>2, AppendProperties, EmptySeq
    <3> QED BY <1>1, <2>3, <3>1, EmptySeq
  <2>5. SetupEventsOK'
    BY <1>1, <2>1, <2>2, <2>3 DEF SetupEventsOK
  <2>6. OthersReachApp'
    <3>1. Foreign(pending') \in Nat /\ One(Head(pending)) \in Nat
      BY <2>2, ForeignNat DEF One
    <3> QED BY <1>1, <2>1, <2>2, <2>3, <3>1 DEF OthersReachApp
  <2>7. Held'
    BY <1>2, <2>1, <2>4 DEF Held
  <2>8. AllTaken'
    BY <1>2, <2>1, <2>2, <2>3 DEF AllTaken, SuccessConfigured
  <2> QED BY <2>5, <2>6, <2>7, <2>8 DEF EventsPart
<1>7. CASE AppGet
  <2>1. /\ rxq # << >> /\ rxq' = Tail(rxq) /\ pc = "app" /\ seen' = seen + One(Head(rxq))
        /\ UNCHANGED <<pending, accepted, others, pc, status, result>>
    BY <1>1, <1>7 DEF AppGet, locals, device, One
  <2> QED BY <1>1, <1>2, <2>1, TookOne
<1>8. CASE GetEvent
  <2>1. /\ rxq' = Tail(rxq) /\ pc = "get" /\ pc' = "loop"
        /\ UNCHANGED <<pending, accepted, others, seen, status, result>>
    BY <1>8 DEF GetEvent, locals, device
  <2>2. rxq # << >> /\ One(Head(rxq)) = 0
    BY <1>2, <2>1 DEF Held, One
  <2>3. seen' = seen + One(Head(rxq))
    BY <1>1, <2>1, <2>2
  <2> QED BY <1>1, <1>2, <2>1, <2>2, <2>3, TookOne
<1>9. CASE AppInit
  <2>1. /\ rxq' = << >> /\ pending' = <<"started">> /\ others' = 1 /\ seen' = 0
        /\ result' = "none" /\ pc' = "app"
    BY <1>9 DEF AppInit
  <2> QED BY <1>1, <2>1, NothingQueued, StartedAlone, EmptySeq
          DEF EventsPart, SetupEventsOK, Held, AllTaken, OthersReachApp, SuccessConfigured
<1>10. CASE UNCHANGED <<rxq, pending, accepted, others, seen>>
  <2>1. SetupEventsOK' /\ OthersReachApp'
    BY <1>1, <1>10 DEF SetupEventsOK, OthersReachApp
  <2>2. Held'
    BY <1>2, <1>10
       DEF Held, SetupNext, Setup, RadioTakes, RadioReports, Deliver, AppGet, AppInit, Call,
           FillSend, FillDone, LoopSuccess, LoopTimeout, LoopNothing, LoopContinue,
           LoopComplete, LoopOther, GetEvent, Return, IsForeign, Responses, locals, setupVars
  <2>3. AllTaken'
    <3> USE DEF AllTaken, SuccessConfigured, locals
    <3>1. Reports(rxq') \/ Reports(pending') => accepted' = N
      BY <1>2, <1>10
    <3>2. CASE LoopComplete
      <4>1. Head(rxq) = "complete" /\ rxq # << >> /\ UNCHANGED result
        BY <3>2 DEF LoopComplete
      <4>2. accepted' = N
        BY <1>1, <1>2, <1>10, <4>1, Dequeued
      <4> QED BY <1>2, <1>10, <3>1, <4>1, <4>2
    <3>3. CASE LoopSuccess \/ LoopTimeout \/ LoopOther
      BY <1>2, <1>10, <3>1, <3>3 DEF LoopSuccess, LoopTimeout, LoopOther, InLoop, Return
    <3>4. CASE Call
      BY <1>2, <1>10, <3>1, <3>4 DEF Call, Entry, Return
    <3>5. CASE FillSend \/ FillDone \/ LoopNothing \/ LoopContinue
      BY <1>2, <1>10, <3>1, <3>5 DEF FillSend, FillDone, LoopNothing, LoopContinue, InLoop
    <3>6. CASE UNCHANGED <<pc, status, result>>
      BY <1>2, <1>10, <3>1, <3>6
    <3>7. CASE RadioTakes \/ RadioReports \/ Deliver \/ AppGet \/ UNCHANGED setupVars
      BY <3>6, <3>7 DEF RadioTakes, RadioReports, Deliver, AppGet, setupVars
    <3>8. CASE AppInit
      BY <1>10, <3>1, <3>8 DEF AppInit
    <3>9. CASE GetEvent
      BY <1>2, <1>10, <3>1, <3>9 DEF GetEvent
    <3> QED BY <3>2, <3>3, <3>4, <3>5, <3>7, <3>8, <3>9 DEF SetupNext, Setup
  <2> QED BY <2>1, <2>2, <2>3 DEF EventsPart
<1> QED BY <1>4, <1>5, <1>6, <1>7, <1>8, <1>9, <1>10
        DEF SetupNext, Setup, Call, FillSend, FillDone, LoopSuccess, LoopTimeout, LoopNothing,
            LoopContinue, LoopComplete, LoopOther, queues, device, setupVars

LEMMA SetupNextInductive == SetupInductive /\ [SetupNext]_setupVars => SetupInductive'
BY NextLocalsOK, SetupNextCommandsOK, NextOffered, NextEvents DEF SetupInductive, EventsPart

LEMMA SetupAlwaysInductive == SetupSpec => []SetupInductive
BY SetupInitInductive, SetupNextInductive, PTL DEF SetupSpec

-----------------------------------------------------------------------------
(* The theorems about do_aci_setup *)

(***************************************************************************)
(* The variables keep their types; an event is only taken from a queue     *)
(* that has one (aci_setup.c:160-165).                                     *)
(***************************************************************************)
THEOREM SetupTypeCorrect == SetupSpec => []SetupTypeOK
<1>1. SetupInductive => SetupTypeOK
  BY TypeParts DEF SetupInductive
<1> QED BY SetupAlwaysInductive, <1>1, PTL

(***************************************************************************)
(* Whenever a call fills the queue, the messages it has put there follow   *)
(* one another up to the last it offered (aci_setup.c:54-79).              *)
(***************************************************************************)
THEOREM OffersInOrder == SetupSpec => []OfferedInOrder
<1>1. SetupInductive => OfferedInOrder
  BY DEF SetupInductive
<1> QED BY SetupAlwaysInductive, <1>1, PTL

(***************************************************************************)
(* SETUP_SUCCESS is only returned when the radio has all the messages,     *)
(* with answers of earlier calls still under way (aci_setup.c:120, 169).   *)
(***************************************************************************)
THEOREM SuccessIsConfigured == SetupSpec => []SuccessConfigured
<1>1. SetupInductive => SuccessConfigured
  BY DEF SetupInductive, AllTaken
<1> QED BY SetupAlwaysInductive, <1>1, PTL

(***************************************************************************)
(* Each event that is no command response is still to come, in the queue,  *)
(* or with the application (aci_setup.c:132-136, 155-165).                 *)
(***************************************************************************)
THEOREM PassesOthers == SetupSpec => []OthersReachApp
<1>1. SetupInductive => OthersReachApp
  BY DEF SetupInductive
<1> QED BY SetupAlwaysInductive, <1>1, PTL

-----------------------------------------------------------------------------
(***************************************************************************)
(* The library and its clients: commands and events.                       *)
(***************************************************************************)

CommandKinds == {"data"} \cup PlainKinds
EventKinds == {"pipeStatus", "dataCredit"} \cup PlainEvents

LEMMA CommandFields ==
    /\ \A p \in Pipes : Data(p) \in Commands /\ Data(p).cmd = "data"
    /\ \A c \in PlainKinds :
          Plain(c) \in Commands /\ Plain(c).cmd = c
    /\ \A c \in Commands :
          /\ c.cmd \in CommandKinds
          /\ c.cmd = "data" => c.pipe \in Pipes
          /\ c.cmd # "data" => c = Plain(c.cmd)
BY DEF Commands, Data, Plain, CommandKinds, PlainKinds

LEMMA EventFields ==
    /\ \A s \in SUBSET Pipes :
          PipeStatus(s) \in Events /\ PipeStatus(s).evt = "pipeStatus"
              /\ PipeStatus(s).pipes = s
    /\ \A k \in 1 .. Total :
          DataCredit(k) \in Events /\ DataCredit(k).evt = "dataCredit"
              /\ DataCredit(k).credit = k
    /\ \A e \in PlainEvents :
          Event(e) \in Events /\ Event(e).evt = e
    /\ \A e \in Events :
          /\ e.evt \in EventKinds
          /\ e.evt = "pipeStatus" => e.pipes \in SUBSET Pipes
          /\ e.evt = "dataCredit" => e.credit \in 1 .. Total
<1>1. \A s : PipeStatus(s).evt = "pipeStatus" /\ PipeStatus(s).pipes = s
  BY DEF PipeStatus
<1>2. \A k : DataCredit(k).evt = "dataCredit" /\ DataCredit(k).credit = k
  BY DEF DataCredit
<1>3. \A e : Event(e).evt = e
  BY DEF Event
<1>4. ASSUME NEW e \in Events
      PROVE  /\ e.evt \in EventKinds
             /\ e.evt = "pipeStatus" => e.pipes \in SUBSET Pipes
             /\ e.evt = "dataCredit" => e.credit \in 1 .. Total
  <2>1. CASE \E s \in SUBSET Pipes : e = PipeStatus(s)
    BY <1>1, <2>1 DEF EventKinds
  <2>2. CASE \E k \in 1 .. Total : e = DataCredit(k)
    BY <1>2, <2>2 DEF EventKinds
  <2>3. CASE \E c \in PlainEvents : e = Event(c)
    BY <1>3, <2>3 DEF EventKinds, PlainEvents
  <2> QED BY <2>1, <2>2, <2>3 DEF Events
<1> QED BY <1>1, <1>2, <1>3, <1>4 DEF Events

LEMMA ReturnedRange ==
    ASSUME NEW e \in Events
    PROVE  /\ Returned(e) \in 0 .. Total
           /\ e.evt \notin {"pipeError", "dataCredit"} => Returned(e) = 0
           /\ e.evt = "pipeError" => Returned(e) = 1
           /\ e.evt = "dataCredit" => Returned(e) = e.credit
BY EventFields, LibAciAssumption DEF Returned

-----------------------------------------------------------------------------
(***************************************************************************)
(* The command queue: which commands are in it, how many of them are data, *)
(* and that neither data nor a second connect follows a connect.           *)
(***************************************************************************)
Apart(q) ==
    \A k, m \in 1 .. Len(q) :
        q[k].cmd = "connect" /\ k < m => q[m].cmd \notin {"connect", "data"}

IsOne(c) == IF c.cmd = "data" THEN 1 ELSE 0

LEMMA PacketsNat ==
    ASSUME NEW q \in Seq(Commands)
    PROVE  /\ IsFiniteSet({k \in 1 .. Len(q) : q[k].cmd = "data"})
           /\ Packets(q) \in Nat
           /\ ~Ordered(q, "data") => Packets(q) = 0
<1> DEFINE A == {k \in 1 .. Len(q) : q[k].cmd = "data"}
<1>1. Len(q) \in Nat
  BY LenProperties
<1>2. IsFiniteSet(1 .. Len(q))
  BY <1>1, FS_Interval
<1>3. IsFiniteSet(A)
  BY <1>2, FS_Subset
<1>4. ~Ordered(q, "data") => A = {}
  BY DEF Ordered
<1>5. Packets(q) = Cardinality(A)
  BY DEF Packets
<1> QED BY <1>3, <1>4, <1>5, FS_CardinalityType, FS_EmptySet

LEMMA NoCommands ==
    /\ << >> \in Seq(Commands) /\ Len(<< >>) = 0
    /\ \A c : ~Ordered(<< >>, c)
    /\ Apart(<< >>) /\ Packets(<< >>) = 0
<1>1. << >> \in Seq(Commands) /\ Len(<< >>) = 0
  BY EmptySeq
<1>2. \A c : ~Ordered(<< >>, c)
  BY <1>1 DEF Ordered
<1>3. Apart(<< >>)
  BY <1>1 DEF Apart
<1>4. Packets(<< >>) = 0
  BY <1>1, <1>2, PacketsNat
<1> QED BY <1>1, <1>2, <1>3, <1>4

LEMMA CommandQueued ==
    ASSUME NEW q \in Seq(Commands), NEW c \in Commands
    PROVE  /\ Append(q, c) \in Seq(Commands) /\ Len(Append(q, c)) = Len(q) + 1
           /\ \A x : Ordered(Append(q, c), x) <=> Ordered(q, x) \/ c.cmd = x
           /\ Packets(Append(q, c)) = Packets(q) + IsOne(c)
           /\ Apart(q) /\ (c.cmd \in {"connect", "data"} => ~Ordered(q, "connect"))
                 => Apart(Append(q, c))
<1> DEFINE r == Append(q, c)
           A == {k \in 1 .. Len(q) : q[k].cmd = "data"}
           B == {k \in 1 .. Len(r) : r[k].cmd = "data"}
<1>1. /\ r \in Seq(Commands) /\ Len(r) = Len(q) + 1
      /\ \A k \in 1 .. Len(q) : r[k] = q[k]
      /\ r[Len(q) + 1] = c
  BY AppendProperties
<1>2. Len(q) \in Nat
  BY LenProperties
<1>3. 1 .. Len(q) + 1 = (1 .. Len(q)) \cup {Len(q) + 1} /\ Len(q) + 1 \notin 1 .. Len(q)
  BY <1>2
<1> HIDE DEF r
<1>4. B = IF c.cmd = "data" THEN A \cup {Len(q) + 1} ELSE A
  BY <1>1, <1>2, <1>3
<1>5. Packets(r) = Packets(q) + IsOne(c)
  <2>1. IsFiniteSet(A) /\ Cardinality(A) \in Nat
    BY PacketsNat, FS_CardinalityType
  <2>2. Len(q) + 1 \notin A
    BY <1>2, <1>3
  <2>3. Packets(r) = Cardinality(B) /\ Packets(q) = Cardinality(A)
    BY DEF Packets
  <2> HIDE DEF A, B
  <2>4. Cardinality(A \cup {Len(q) + 1}) = Cardinality(A) + 1
    BY <2>1, <2>2, FS_AddElement
  <2> QED BY <1>4, <2>1, <2>3, <2>4 DEF IsOne
<1>6. \A x : Ordered(r, x) <=> Ordered(q, x) \/ c.cmd = x
  BY <1>1, <1>2, <1>3 DEF Ordered
<1>7. Apart(q) /\ (c.cmd \in {"connect", "data"} => ~Ordered(q, "connect")) => Apart(r)
  <2> SUFFICES ASSUME Apart(q), c.cmd \in {"connect", "data"} => ~Ordered(q, "connect"),
                      NEW k \in 1 .. Len(r), NEW m \in 1 .. Len(r),
                      r[k].cmd = "connect", k < m
               PROVE  r[m].cmd \notin {"connect", "data"}
    BY DEF Apart
  <2>1. k \in 1 .. Len(q) /\ q[k].cmd = "connect"
    BY <1>1, <1>2
  <2>2. CASE m = Len(q) + 1
    BY <1>1, <2>1, <2>2 DEF Ordered
  <2>3. CASE m # Len(q) + 1
    <3>1. m \in 1 .. Len(q) /\ r[m] = q[m]
      BY <1>1, <1>2, <2>3
    <3> QED BY <2>1, <3>1 DEF Apart
  <2> QED BY <2>2, <2>3
<1> QED BY <1>1, <1>5, <1>6, <1>7 DEF r

LEMMA CommandTaken ==
    ASSUME NEW q \in Seq(Commands), q # << >>
    PROVE  /\ Tail(q) \in Seq(Commands) /\ Len(Tail(q)) = Len(q) - 1
           /\ Head(q) \in Commands
           /\ \A x : Ordered(q, x) <=> Ordered(Tail(q), x) \/ Head(q).cmd = x
           /\ Packets(q) = Packets(Tail(q)) + IsOne(Head(q))
           /\ Apart(q) => /\ Apart(Tail(q))
                          /\ Head(q).cmd = "connect" =>
                                ~Ordered(Tail(q), "connect") /\ ~Ordered(Tail(q), "data")
<1> DEFINE t == Tail(q)
           A == {k \in 1 .. Len(q) : q[k].cmd = "data"}
           B == {k \in 1 .. Len(t) : t[k].cmd = "data"}
           C == A \ {1}
<1>1. /\ t \in Seq(Commands) /\ Len(t) = Len(q) - 1 /\ Head(q) \in Commands /\ Head(q) = q[1]
      /\ \A k \in 1 .. Len(t) : t[k] = q[k + 1]
  BY HeadTailProperties
<1>2. Len(q) \in Nat \ {0}
  BY <1>1, LenProperties, EmptySeq
<1> HIDE DEF t
<1>3. IsFiniteSet(A) /\ IsFiniteSet(B) /\ Cardinality(A) \in Nat /\ Cardinality(B) \in Nat
  BY <1>1, PacketsNat, FS_CardinalityType
<1>4. ExistsBijection(B, C)
  <2> DEFINE f == [k \in B |-> k + 1]
  <2>1. \A k \in B : k \in Int /\ k + 1 \in C
    BY <1>1, <1>2
  <2>2. \A c \in C : c - 1 \in B /\ (c - 1) + 1 = c
    BY <1>1, <1>2
  <2>3. f \in Bijection(B, C)
    <3>1. f \in [B -> C]
      BY <2>1
    <3>2. \A a, b \in B : f[a] = f[b] => a = b
      BY <2>1
    <3>3. \A c \in C : \E b \in B : f[b] = c
      BY <2>2
    <3> QED BY <3>1, <3>2, <3>3, Fun_IsBij
  <2> QED BY <2>3 DEF ExistsBijection
<1>5. Cardinality(C) = Cardinality(B)
  BY <1>3, <1>4, FS_Bijection
<1>6. Packets(q) = Packets(t) + IsOne(Head(q))
  <2>1. Cardinality(C) = IF 1 \in A THEN Cardinality(A) - 1 ELSE Cardinality(A)
    BY <1>3, FS_RemoveElement
  <2>2. 1 \in A <=> Head(q).cmd = "data"
    BY <1>1, <1>2
  <2>3. Packets(q) = Cardinality(A) /\ Packets(t) = Cardinality(B)
    BY DEF Packets
  <2> QED BY <1>3, <1>5, <2>1, <2>2, <2>3 DEF IsOne
<1>7. \A x : Ordered(q, x) <=> Ordered(t, x) \/ Head(q).cmd = x
  <2>1. \A k \in 1 .. Len(t) : k + 1 \in 1 .. Len(q)
    BY <1>1, <1>2
  <2>2. \A k \in 1 .. Len(q) : k = 1 \/ (k - 1 \in 1 .. Len(t) /\ t[k - 1] = q[k])
    BY <1>1, <1>2
  <2>3. 1 \in 1 .. Len(q)
    BY <1>2
  <2> SUFFICES ASSUME NEW x
               PROVE  Ordered(q, x) <=> Ordered(t, x) \/ Head(q).cmd = x
    OBVIOUS
  <2>4. Ordered(t, x) => Ordered(q, x)
    BY <1>1, <2>1 DEF Ordered
  <2>5. Head(q).cmd = x => Ordered(q, x)
    BY <1>1, <2>3 DEF Ordered
  <2>6. Ordered(q, x) => Ordered(t, x) \/ Head(q).cmd = x
    BY <1>1, <2>2 DEF Ordered
  <2> QED BY <2>4, <2>5, <2>6
<1>8. ASSUME Apart(q)
      PROVE  /\ Apart(t)
             /\ Head(q).cmd = "connect" => ~Ordered(t, "connect") /\ ~Ordered(t, "data")
  <2>1. \A k \in 1 .. Len(t) : k + 1 \in 1 .. Len(q) /\ 1 < k + 1 /\ t[k] = q[k + 1]
    BY <1>1, <1>2
  <2>2. Apart(t)
    <3> SUFFICES ASSUME NEW k \in 1 .. Len(t), NEW m \in 1 .. Len(t),
                        t[k].cmd = "connect", k < m
                 PROVE  t[m].cmd \notin {"connect", "data"}
      BY DEF Apart
    <3>1. k + 1 < m + 1
      BY <1>1, <1>2
    <3> QED BY <1>8, <2>1, <3>1 DEF Apart
  <2>3. 1 \in 1 .. Len(q)
    BY <1>2
  <2> QED BY <1>1, <1>8, <2>1, <2>2, <2>3 DEF Apart, Ordered
<1> QED BY <1>1, <1>6, <1>7, <1>8 DEF t

-----------------------------------------------------------------------------
(***************************************************************************)
(* The event queue.  Errors: what an old link, or no link, may leave       *)
(* behind.  Ends: after a disconnected event there is nothing else.        *)
(* Begins: a connected event still to be handled, and since then none that *)
(* touches the credits.                                                    *)
(***************************************************************************)
Left(e) == e.evt \in {"pipeError", "refused", "advTimeout"}
Quiet(e) == e.evt \in {"pipeStatus", "attError", "refused"}

Errors(q) == \A k \in 1 .. Len(q) : Left(q[k])

Ends(q) == \A k, m \in 1 .. Len(q) : q[k].evt = "disconnected" /\ k < m => Left(q[m])

Begins(q) ==
    \E k \in 1 .. Len(q) :
        /\ q[k].evt = "connected"
        /\ \A m \in 1 .. Len(q) : /\ m < k => Left(q[m])
                                  /\ k < m => Quiet(q[m])

\* The pipes an event shows, and the last that the events of a queue show.
Shows(e) == e.evt \in {"pipeStatus", "disconnected", "advTimeout"}
Shown(e) == IF e.evt = "pipeStatus" THEN e.pipes ELSE {}
NoneShown(q) == \A k \in 1 .. Len(q) : ~Shows(q[k])
LastShown(q, s) ==
    \A k \in 1 .. Len(q) :
        Shows(q[k]) /\ (\A m \in 1 .. Len(q) : k < m => ~Shows(q[m])) => Shown(q[k]) = s

Units(q) == {u \in (1 .. Len(q)) \X (1 .. Total) : u[2] <= Returned(q[u[1]])}

LEMMA RefundsNat ==
    ASSUME NEW q \in Seq(Events)
    PROVE  /\ IsFiniteSet(Units(q)) /\ Refunds(q) = Cardinality(Units(q))
           /\ Refunds(q) \in Nat
           /\ (\A k \in 1 .. Len(q) : Quiet(q[k])) => Refunds(q) = 0
<1>1. Len(q) \in Nat /\ Total \in Nat /\ \A k \in 1 .. Len(q) : q[k] \in Events
  BY LenProperties, LibAciAssumption
<1>2. IsFiniteSet((1 .. Len(q)) \X (1 .. Total))
  <2>1. IsFiniteSet(1 .. Len(q)) /\ IsFiniteSet(1 .. Total)
    BY <1>1, FS_Interval
  <2> QED BY <2>1, FS_Product, Zenon
<1>3. IsFiniteSet(Units(q))
  BY <1>2, FS_Subset DEF Units
<1>4. Refunds(q) = Cardinality(Units(q))
  BY DEF Refunds, Units
<1>5. ASSUME \A k \in 1 .. Len(q) : Quiet(q[k])
      PROVE  Units(q) = {}
  <2> SUFFICES ASSUME NEW u \in Units(q) PROVE FALSE
    OBVIOUS
  <2>1. u[1] \in 1 .. Len(q) /\ u[2] \in 1 .. Total /\ u[2] <= Returned(q[u[1]])
    BY DEF Units
  <2>2. Returned(q[u[1]]) = 0
    BY <1>1, <1>5, <2>1, ReturnedRange DEF Quiet
  <2> QED BY <1>1, <2>1, <2>2
<1> QED BY <1>3, <1>4, <1>5, FS_CardinalityType, FS_EmptySet

LEMMA UnitsOfOne ==
    ASSUME NEW k \in Nat, NEW e \in Events
    PROVE  LET U == {u \in {k} \X (1 .. Total) : u[2] <= Returned(e)}
           IN  IsFiniteSet(U) /\ Cardinality(U) = Returned(e)
<1> DEFINE U == {u \in {k} \X (1 .. Total) : u[2] <= Returned(e)}
           n == Returned(e)
           f == [m \in 1 .. n |-> <<k, m>>]
<1>1. n \in 0 .. Total /\ Total \in Nat
  BY ReturnedRange, LibAciAssumption
<1>2. IsFiniteSet(1 .. n) /\ Cardinality(1 .. n) = n
  BY <1>1, FS_Interval
<1> HIDE DEF n
<1>3. \A m \in 1 .. n : m \in 1 .. Total /\ m <= n
  BY <1>1
<1>4. \A m \in 1 .. n : <<k, m>> \in U
  BY <1>3 DEF n
<1>5. \A u \in U : u[2] \in 1 .. n /\ u = <<k, u[2]>>
  BY <1>1 DEF n
<1>6. f \in Bijection(1 .. n, U)
  <2>1. f \in [1 .. n -> U]
    BY <1>4
  <2>2. \A a, b \in 1 .. n : f[a] = f[b] => a = b
    OBVIOUS
  <2>3. \A u \in U : \E m \in 1 .. n : f[m] = u
    BY <1>5
  <2> QED BY <2>1, <2>2, <2>3, Fun_IsBij
<1>7. ExistsBijection(1 .. n, U)
  BY <1>6 DEF ExistsBijection
<1> HIDE DEF U
<1>8. IsFiniteSet(U) /\ Cardinality(U) = n
  BY <1>2, <1>7, FS_Bijection
<1> QED BY <1>8 DEF U, n

LEMMA EventQueued ==
    ASSUME NEW q \in Seq(Events), NEW e \in Events
    PROVE  /\ Append(q, e) \in Seq(Events)
           /\ \A x : Reported(Append(q, e), x) <=> Reported(q, x) \/ e.evt = x
           /\ Refunds(Append(q, e)) = Refunds(q) + Returned(e)
           /\ Errors(q) /\ Left(e) => Errors(Append(q, e))
           /\ Ends(q) /\ (Reported(q, "disconnected") => Left(e))
                 => Ends(Append(q, e))
           /\ Errors(q) /\ e.evt = "connected" => Begins(Append(q, e))
           /\ Begins(q) /\ Quiet(e) => Begins(Append(q, e))
           /\ Shows(e) => ~NoneShown(Append(q, e)) /\ LastShown(Append(q, e), Shown(e))
           /\ ~Shows(e) => /\ NoneShown(Append(q, e)) => NoneShown(q)
                           /\ \A s : LastShown(q, s) => LastShown(Append(q, e), s)
<1> DEFINE r == Append(q, e)
           n == Len(q) + 1
<1>1. /\ r \in Seq(Events) /\ Len(r) = n
      /\ \A k \in 1 .. Len(q) : r[k] = q[k]
      /\ r[n] = e
  BY AppendProperties
<1>2. Len(q) \in Nat
  BY LenProperties
<1>3. /\ 1 .. n = (1 .. Len(q)) \cup {n} /\ n \notin 1 .. Len(q)
      /\ \A k \in 1 .. Len(q) : k < n
      /\ \A k \in 1 .. n : ~(n < k)
  BY <1>2
<1>4. n \in Nat
  BY <1>2
<1> HIDE DEF r, n
<1>5. Refunds(r) = Refunds(q) + Returned(e)
  <2> DEFINE A == Units(q)
             New == {u \in {n} \X (1 .. Total) : u[2] <= Returned(e)}
  <2>1. IsFiniteSet(A) /\ IsFiniteSet(New) /\ Cardinality(New) = Returned(e)
    BY <1>4, RefundsNat, UnitsOfOne
  <2>2. A \cap New = {}
    BY <1>3 DEF Units
  <2>3. Units(r) = A \cup New
    BY <1>1, <1>3 DEF Units
  <2>4. Refunds(q) = Cardinality(A) /\ Refunds(r) = Cardinality(Units(r))
    BY <1>1, RefundsNat
  <2>5. Cardinality(A) \in Nat /\ Returned(e) \in Nat
    BY <2>4, RefundsNat, ReturnedRange, LibAciAssumption
  <2> HIDE DEF A, New
  <2>6. Cardinality(A \cup New) = Cardinality(A) + Cardinality(New) - Cardinality(A \cap New)
    BY <2>1, FS_Union
  <2>7. Cardinality(A \cap New) = 0
    BY <2>2, FS_EmptySet
  <2> QED BY <2>1, <2>3, <2>4, <2>5, <2>6, <2>7
<1>6. \A x : Reported(r, x) <=> Reported(q, x) \/ e.evt = x
  BY <1>1, <1>3 DEF Reported
<1>7. Errors(q) /\ Left(e) => Errors(r)
  BY <1>1, <1>3 DEF Errors
<1>8. ASSUME Ends(q), Reported(q, "disconnected") => Left(e)
      PROVE  Ends(r)
  <2> SUFFICES ASSUME NEW k \in 1 .. Len(r), NEW m \in 1 .. Len(r),
                      r[k].evt = "disconnected", k < m
               PROVE  Left(r[m])
    BY DEF Ends
  <2>1. k \in 1 .. Len(q) /\ q[k].evt = "disconnected"
    BY <1>1, <1>3
  <2>2. CASE m = n
    BY <1>1, <1>8, <2>1, <2>2 DEF Reported
  <2>3. CASE m \in 1 .. Len(q)
    BY <1>1, <1>8, <2>1, <2>3 DEF Ends
  <2> QED BY <1>1, <1>3, <2>2, <2>3
<1>9. Errors(q) /\ e.evt = "connected" => Begins(r)
  BY <1>1, <1>3 DEF Errors, Begins
<1>10. ASSUME Begins(q), Quiet(e)
       PROVE  Begins(r)
  <2>1. PICK k \in 1 .. Len(q) :
           /\ q[k].evt = "connected"
           /\ \A m \in 1 .. Len(q) : /\ m < k => Left(q[m])
                                     /\ k < m => Quiet(q[m])
    BY <1>10 DEF Begins
  <2>2. k \in 1 .. n /\ ~(n < k)
    BY <1>3
  <2>3. \A m \in 1 .. n : /\ m < k => Left(r[m])
                          /\ k < m => Quiet(r[m])
    BY <1>1, <1>3, <1>10, <2>1, <2>2
  <2> QED BY <1>1, <2>1, <2>2, <2>3 DEF Begins
<1>11. Shows(e) => ~NoneShown(r) /\ LastShown(r, Shown(e))
  <2> SUFFICES ASSUME Shows(e) PROVE ~NoneShown(r) /\ LastShown(r, Shown(e))
    OBVIOUS
  <2>1. n \in 1 .. Len(r) /\ Shows(r[n])
    BY <1>1, <1>3
  <2>2. ASSUME NEW k \in 1 .. Len(r), \A m \in 1 .. Len(r) : k < m => ~Shows(r[m])
        PROVE  k = n
    BY <1>1, <1>3, <2>1, <2>2
  <2>3. ~NoneShown(r)
    BY <2>1 DEF NoneShown
  <2>4. LastShown(r, Shown(e))
    BY <1>1, <2>2 DEF LastShown
  <2> QED BY <2>3, <2>4
<1>12. ASSUME ~Shows(e)
       PROVE  /\ NoneShown(r) => NoneShown(q)
              /\ \A s : LastShown(q, s) => LastShown(r, s)
  <2>1. NoneShown(r) => NoneShown(q)
    BY <1>1, <1>3 DEF NoneShown
  <2>2. ASSUME NEW s, LastShown(q, s)
        PROVE  LastShown(r, s)
    <3> SUFFICES ASSUME NEW k \in 1 .. Len(r), Shows(r[k]),
                        \A m \in 1 .. Len(r) : k < m => ~Shows(r[m])
                 PROVE  Shown(r[k]) = s
      BY DEF LastShown
    <3>1. k \in 1 .. Len(q) /\ r[k] = q[k]
      BY <1>1, <1>3, <1>12
    <3>2. \A m \in 1 .. Len(q) : k < m => ~Shows(q[m])
      BY <1>1, <1>3
    <3> QED BY <2>2, <3>1, <3>2 DEF LastShown
  <2> QED BY <2>1, <2>2
<1> QED BY <1>1, <1>5, <1>6, <1>7, <1>8, <1>9, <1>10, <1>11, <1>12 DEF r

LEMMA EventTaken ==
    ASSUME NEW q \in Seq(Events), q # << >>
    PROVE  /\ Tail(q) \in Seq(Events) /\ Head(q) \in Events
           /\ \A x : Reported(q, x) <=> Reported(Tail(q), x) \/ Head(q).evt = x
           /\ Refunds(q) = Refunds(Tail(q)) + Returned(Head(q))
           /\ Errors(q) => Left(Head(q)) /\ Errors(Tail(q))
           /\ Ends(q) => /\ Ends(Tail(q))
                         /\ Head(q).evt = "disconnected" => Errors(Tail(q))
           /\ Begins(q) =>
                 \/ Left(Head(q)) /\ Begins(Tail(q))
                 \/ /\ Head(q).evt = "connected"
                    /\ ~Reported(Tail(q), "connected") /\ Refunds(Tail(q)) = 0
           /\ \A s : LastShown(q, s) =>
                 /\ LastShown(Tail(q), s)
                 /\ Shows(Head(q)) /\ NoneShown(Tail(q)) => Shown(Head(q)) = s
           /\ ~Shows(Head(q)) /\ NoneShown(Tail(q)) => NoneShown(q)
<1> DEFINE t == Tail(q)
           h == Head(q)
<1>1. /\ t \in Seq(Events) /\ Len(t) = Len(q) - 1 /\ h \in Events /\ h = q[1]
      /\ \A k \in 1 .. Len(t) : t[k] = q[k + 1]
  BY HeadTailProperties
<1>2. Len(q) \in Nat \ {0}
  BY <1>1, LenProperties, EmptySeq
<1> HIDE DEF t, h
<1>3. /\ 1 \in 1 .. Len(q)
      /\ \A k \in 1 .. Len(t) : k + 1 \in 1 .. Len(q) /\ 1 < k + 1 /\ k + 1 # 1
      /\ \A k \in 1 .. Len(q) :
            k = 1 \/ (k - 1 \in 1 .. Len(t) /\ (k - 1) + 1 = k /\ t[k - 1] = q[k])
      /\ \A k \in 1 .. Len(q) : ~(k < 1)
      /\ \A k, m \in 1 .. Len(t) : k < m <=> k + 1 < m + 1
  BY <1>1, <1>2
<1>4. Refunds(q) = Refunds(t) + Returned(h)
  <2> DEFINE A == Units(q)
             B == Units(t)
             New == {u \in {1} \X (1 .. Total) : u[2] <= Returned(h)}
             C == A \ New
             f == [u \in B |-> <<u[1] + 1, u[2]>>]
  <2>1. IsFiniteSet(A) /\ IsFiniteSet(B) /\ IsFiniteSet(New) /\ Cardinality(New) = Returned(h)
    BY <1>1, RefundsNat, UnitsOfOne
  <2>2. A \cap New = New
    BY <1>1, <1>3 DEF Units
  <2>3. \A u \in B : /\ u[1] \in 1 .. Len(t) /\ u[2] \in 1 .. Total /\ u = <<u[1], u[2]>>
                     /\ u[2] <= Returned(t[u[1]])
    BY DEF Units
  <2>4. \A u \in C : /\ u[1] \in 1 .. Len(q) /\ u[2] \in 1 .. Total /\ u = <<u[1], u[2]>>
                     /\ u[2] <= Returned(q[u[1]]) /\ u[1] # 1
    BY <1>1 DEF Units
  <2>5. \A u \in B : <<u[1] + 1, u[2]>> \in C
    BY <1>1, <1>3, <2>3 DEF Units
  <2>6. \A u \in C : <<u[1] - 1, u[2]>> \in B /\ <<(u[1] - 1) + 1, u[2]>> = u
    BY <1>3, <2>4 DEF Units
  <2>7. f \in Bijection(B, C)
    <3>1. f \in [B -> C]
      BY <2>5
    <3>2. \A a, b \in B : f[a] = f[b] => a = b
      <4> SUFFICES ASSUME NEW a \in B, NEW b \in B, f[a] = f[b] PROVE a = b
        OBVIOUS
      <4>1. a[1] + 1 = b[1] + 1 /\ a[2] = b[2]
        OBVIOUS
      <4>2. a[1] = b[1]
        BY <2>3, <4>1
      <4> QED BY <2>3, <4>1, <4>2
    <3>3. \A c \in C : \E b \in B : f[b] = c
      <4> SUFFICES ASSUME NEW c \in C PROVE \E b \in B : f[b] = c
        OBVIOUS
      <4>1. <<c[1] - 1, c[2]>> \in B /\ <<(c[1] - 1) + 1, c[2]>> = c
        BY <2>6
      <4> QED BY <4>1
    <3> QED BY <3>1, <3>2, <3>3, Fun_IsBij
  <2>8. ExistsBijection(B, C)
    BY <2>7 DEF ExistsBijection
  <2>9. Refunds(q) = Cardinality(A) /\ Refunds(t) = Cardinality(B)
        /\ Cardinality(A) \in Nat /\ Cardinality(B) \in Nat /\ Returned(h) \in Nat
    BY <1>1, RefundsNat, ReturnedRange, LibAciAssumption
  <2> HIDE DEF A, B, C, New, f
  <2>10. Cardinality(C) = Cardinality(B)
    BY <2>1, <2>8, FS_Bijection
  <2>11. Cardinality(C) = Cardinality(A) - Cardinality(A \cap New)
    BY <2>1, FS_Difference DEF C
  <2>12. Cardinality(C) = Cardinality(A) - Cardinality(New)
    BY <2>2, <2>11
  <2> QED BY <2>1, <2>9, <2>10, <2>12
<1>5. \A x : Reported(q, x) <=> Reported(t, x) \/ h.evt = x
  <2> SUFFICES ASSUME NEW x PROVE Reported(q, x) <=> Reported(t, x) \/ h.evt = x
    OBVIOUS
  <2>1. Reported(t, x) => Reported(q, x)
    BY <1>1, <1>3 DEF Reported
  <2>2. h.evt = x => Reported(q, x)
    BY <1>1, <1>3 DEF Reported
  <2>3. Reported(q, x) => Reported(t, x) \/ h.evt = x
    BY <1>1, <1>3 DEF Reported
  <2> QED BY <2>1, <2>2, <2>3
<1>6. Errors(q) => Left(h) /\ Errors(t)
  BY <1>1, <1>3 DEF Errors
<1>7. Ends(q) => Ends(t) /\ (h.evt = "disconnected" => Errors(t))
  <2> SUFFICES ASSUME Ends(q) PROVE Ends(t) /\ (h.evt = "disconnected" => Errors(t))
    OBVIOUS
  <2>1. Ends(t)
    BY <1>1, <1>3 DEF Ends
  <2>2. ASSUME h.evt = "disconnected", NEW k \in 1 .. Len(t)
        PROVE  Left(t[k])
    <3>1. k + 1 \in 1 .. Len(q) /\ 1 < k + 1 /\ t[k] = q[k + 1]
      BY <1>1, <1>3
    <3> QED BY <1>1, <1>3, <2>2, <3>1 DEF Ends
  <2> QED BY <2>1, <2>2 DEF Errors
<1>8. ASSUME Begins(q)
      PROVE  \/ Left(h) /\ Begins(t)
             \/ h.evt = "connected" /\ ~Reported(t, "connected") /\ Refunds(t) = 0
  <2>1. PICK k \in 1 .. Len(q) :
           /\ q[k].evt = "connected"
           /\ \A m \in 1 .. Len(q) : /\ m < k => Left(q[m])
                                     /\ k < m => Quiet(q[m])
    BY <1>8 DEF Begins
  <2>2. CASE k = 1
    <3>1. \A m \in 1 .. Len(t) : Quiet(t[m])
      BY <1>1, <1>3, <2>1, <2>2
    <3>2. ~Reported(t, "connected")
      BY <3>1 DEF Reported, Quiet
    <3>3. Refunds(t) = 0
      BY <1>1, <3>1, RefundsNat
    <3> QED BY <1>1, <2>1, <2>2, <3>2, <3>3
  <2>3. CASE k # 1
    <3>1. Left(h)
      BY <1>1, <1>2, <1>3, <2>1, <2>3
    <3>2. k - 1 \in 1 .. Len(t) /\ t[k - 1].evt = "connected"
      BY <1>3, <2>1, <2>3
    <3>3. ASSUME NEW m \in 1 .. Len(t)
          PROVE  /\ m < k - 1 => Left(t[m])
                 /\ k - 1 < m => Quiet(t[m])
      <4>1. m + 1 \in 1 .. Len(q) /\ t[m] = q[m + 1]
        BY <1>1, <1>3
      <4>2. (m < k - 1 <=> m + 1 < k) /\ (k - 1 < m <=> k < m + 1)
        BY <1>1, <1>2
      <4> QED BY <2>1, <4>1, <4>2
    <3>4. Begins(t)
      BY <3>2, <3>3 DEF Begins
    <3> QED BY <3>1, <3>4
  <2> QED BY <2>2, <2>3
<1>9. ASSUME NEW s, LastShown(q, s)
      PROVE  /\ LastShown(t, s)
             /\ Shows(h) /\ NoneShown(t) => Shown(h) = s
  <2>1. LastShown(t, s)
    <3> SUFFICES ASSUME NEW k \in 1 .. Len(t), Shows(t[k]),
                        \A m \in 1 .. Len(t) : k < m => ~Shows(t[m])
                 PROVE  Shown(t[k]) = s
      BY DEF LastShown
    <3>1. k + 1 \in 1 .. Len(q) /\ t[k] = q[k + 1]
      BY <1>1, <1>3
    <3>2. ASSUME NEW m \in 1 .. Len(q), k + 1 < m
          PROVE  ~Shows(q[m])
      <4>1. m - 1 \in 1 .. Len(t) /\ t[m - 1] = q[m] /\ k < m - 1
        BY <1>1, <1>2, <1>3, <3>2
      <4> QED BY <4>1
    <3> QED BY <1>9, <3>1, <3>2 DEF LastShown
  <2>2. ASSUME Shows(h), NoneShown(t)
        PROVE  Shown(h) = s
    <3>1. \A m \in 1 .. Len(q) : 1 < m => ~Shows(q[m])
      BY <1>1, <1>3, <2>2 DEF NoneShown
    <3> QED BY <1>1, <1>3, <1>9, <2>2, <3>1 DEF LastShown
  <2> QED BY <2>1, <2>2
<1>10. ~Shows(h) /\ NoneShown(t) => NoneShown(q)
  BY <1>1, <1>3 DEF NoneShown
<1> QED BY <1>1, <1>4, <1>5, <1>6, <1>7, <1>8, <1>9, <1>10 DEF t, h

-----------------------------------------------------------------------------
(* The invariant of both clients *)

LinkOK ==
    /\ seeking => ~linked
    /\ ~linked => piped = {} /\ held = 0

\* The last pipes the events under way show are the radio's; if they show
\* none, the library has them, or has closed them with a disconnect.
PictureOK ==
    ~stale => /\ LastShown(evs, piped)
              /\ NoneShown(evs) =>
                    \/ open = piped
                    \/ open = {} /\ linked /\ Ordered(cmds, "disconnect")

Shape == TypeOK /\ LinkOK /\ PictureOK

LEMMA TypeFacts ==
    ASSUME TypeOK
    PROVE  /\ cmds \in Seq(Commands) /\ Len(cmds) \in Nat /\ Len(cmds) <= Size
           /\ evs \in Seq(Events) /\ held \in Nat /\ held <= Total
           /\ credits \in Nat /\ credits < CreditWrap
           /\ CreditWrap \in Nat \ {0} /\ Total < CreditWrap
           /\ Packets(cmds) \in Nat /\ Refunds(evs) \in Nat
           /\ ~Ordered(cmds, "data") => Packets(cmds) = 0
           /\ Total \in Nat \ {0} /\ Size \in Nat \ {0}
<1>1. /\ cmds \in Seq(Commands) /\ Len(cmds) <= Size /\ evs \in Seq(Events)
      /\ credits \in 0 .. CreditWrap - 1 /\ held \in 0 .. Total
      /\ Total \in Nat \ {0} /\ Size \in Nat \ {0}
      /\ CreditWrap \in Nat /\ Total < CreditWrap
  BY LibAciAssumption DEF TypeOK
<1>2. Len(cmds) \in Nat
  BY <1>1, LenProperties
<1>3. Packets(cmds) \in Nat /\ (~Ordered(cmds, "data") => Packets(cmds) = 0)
  BY <1>1, PacketsNat
<1>4. Refunds(evs) \in Nat
  BY <1>1, RefundsNat
<1> QED BY <1>1, <1>2, <1>3, <1>4

\* What a queue of commands is that a step leaves behind.
Fine(r) == r \in Seq(Commands) /\ Len(r) <= Size

\* Events are put in or taken out, and what the queue shows stays.
Alike(q, r) ==
    /\ r \in Seq(Events)
    /\ NoneShown(r) => NoneShown(q)
    /\ \A s : LastShown(q, s) => LastShown(r, s)

LEMMA InitShape ==
    ASSUME Init
    PROVE  /\ Shape
           /\ \A x : Ordered(cmds, x) <=> x = "connect"
           /\ Apart(cmds) /\ Errors(evs) /\ Ends(evs) /\ \A x : ~Reported(evs, x)
<1>1. /\ cmds \in Seq(Commands) /\ Len(cmds) = 1
      /\ \A x : Ordered(cmds, x) <=> x = "connect"
      /\ Apart(cmds)
  <2>1. cmds = Append(<< >>, Plain("connect"))
    BY DEF Init
  <2>2. Plain("connect") \in Commands /\ Plain("connect").cmd = "connect"
    BY CommandFields DEF PlainKinds
  <2>3. /\ Append(<< >>, Plain("connect")) \in Seq(Commands)
        /\ Len(Append(<< >>, Plain("connect"))) = Len(<< >>) + 1
        /\ \A x : Ordered(Append(<< >>, Plain("connect")), x)
                     <=> Ordered(<< >>, x) \/ Plain("connect").cmd = x
        /\ Apart(Append(<< >>, Plain("connect")))
    BY <2>2, NoCommands, CommandQueued
  <2> QED BY <2>1, <2>2, <2>3, NoCommands
<1>2. evs = << >> /\ evs \in Seq(Events) /\ Len(evs) = 0
  BY EmptySeq DEF Init
<1>3. /\ \A x : ~Reported(evs, x)
      /\ Errors(evs) /\ Ends(evs) /\ LastShown(evs, {})
  BY <1>2 DEF Reported, Errors, Ends, LastShown
<1>4. TypeOK
  <2>1. linked \in BOOLEAN /\ seeking \in BOOLEAN /\ timed \in BOOLEAN /\ stale \in BOOLEAN
    BY DEF Init
  <2>2. /\ held \in 0 .. Total /\ links \in 0 .. MaxLinks /\ failures \in 0 .. MaxFailures
        /\ credits \in 0 .. CreditWrap - 1 /\ 1 <= Size
    BY LibAciAssumption DEF Init
  <2>3. open \subseteq Pipes /\ piped \subseteq Pipes
    BY DEF Init
  <2> QED BY <1>1, <1>2, <2>1, <2>2, <2>3 DEF TypeOK
<1>5. LinkOK /\ PictureOK
  BY <1>3 DEF Init, LinkOK, PictureOK
<1> QED BY <1>1, <1>3, <1>4, <1>5 DEF Shape

-----------------------------------------------------------------------------
(* What a step of each kind does to the picture *)

\* The radio's pipes and the library's stay.
LEMMA AlikeStep ==
    ASSUME Shape, TypeOK', LinkOK', Alike(evs, evs'), UNCHANGED <<open, piped, stale>>,
           linked /\ Ordered(cmds, "disconnect") => linked' /\ Ordered(cmds', "disconnect")
    PROVE  Shape'
BY DEF Shape, PictureOK, Alike

\* The radio reports its pipes.
LEMMA ShownStep ==
    ASSUME TypeOK', LinkOK', ~NoneShown(evs'), LastShown(evs', piped')
    PROVE  Shape'
BY DEF Shape, PictureOK

\* The library takes over what an event shows.
LEMMA GetShownStep ==
    ASSUME Shape, TypeOK', LinkOK', UNCHANGED <<piped, stale>>,
           evs # << >>, evs' = Tail(evs), Shows(Head(evs)), open' = Shown(Head(evs))
    PROVE  Shape'
<1>1. evs \in Seq(Events)
  BY DEF Shape, TypeOK
<1>2. ASSUME ~stale
      PROVE  LastShown(evs', piped) /\ (NoneShown(evs') => open' = piped)
  BY <1>1, <1>2, EventTaken DEF Shape, PictureOK
<1> QED BY <1>2 DEF Shape, PictureOK

-----------------------------------------------------------------------------
(* Queues *)

LEMMA EventPut ==
    ASSUME TypeOK, NEW e \in Events, evs' = Append(evs, e)
    PROVE  /\ evs' \in Seq(Events)
           /\ ~Shows(e) => Alike(evs, evs')
           /\ Shows(e) => ~NoneShown(evs') /\ LastShown(evs', Shown(e))
BY EventQueued, TypeFacts DEF Alike

LEMMA Unqueued ==
    ASSUME TypeOK, NEW x, Get(x)
    PROVE  /\ Head(evs) \in Events /\ Head(evs).evt = x
           /\ evs # << >> /\ evs' = Tail(evs) /\ evs' \in Seq(Events)
           /\ ~Shows(Head(evs)) => Alike(evs, evs')
<1>1. evs \in Seq(Events) /\ evs # << >> /\ evs' = Tail(evs) /\ Head(evs).evt = x
  BY DEF Get, TypeOK
<1> QED BY <1>1, EventTaken DEF Alike

LEMMA TakenOut ==
    ASSUME TypeOK, NEW c, Takes(c)
    PROVE  /\ Fine(cmds') /\ Head(cmds) \in Commands /\ Head(cmds).cmd = c
           /\ \A x : Ordered(cmds, x) <=> Ordered(cmds', x) \/ c = x
           /\ Packets(cmds) = Packets(cmds') + IsOne(Head(cmds)) /\ Packets(cmds') \in Nat
           /\ Apart(cmds) =>
                 /\ Apart(cmds')
                 /\ c = "connect" => ~Ordered(cmds', "connect") /\ ~Ordered(cmds', "data")
<1>1. /\ cmds \in Seq(Commands) /\ Len(cmds) \in Nat /\ Len(cmds) <= Size /\ Size \in Nat
      /\ cmds # << >> /\ cmds' = Tail(cmds) /\ Head(cmds).cmd = c
  BY TypeFacts DEF Takes
<1>2. /\ Tail(cmds) \in Seq(Commands) /\ Len(Tail(cmds)) = Len(cmds) - 1
      /\ Head(cmds) \in Commands
      /\ \A x : Ordered(cmds, x) <=> Ordered(Tail(cmds), x) \/ Head(cmds).cmd = x
      /\ Packets(cmds) = Packets(Tail(cmds)) + IsOne(Head(cmds))
      /\ Apart(cmds) =>
            /\ Apart(Tail(cmds))
            /\ Head(cmds).cmd = "connect" =>
                  ~Ordered(Tail(cmds), "connect") /\ ~Ordered(Tail(cmds), "data")
  BY <1>1, CommandTaken
<1>3. Packets(Tail(cmds)) \in Nat
  BY <1>2, PacketsNat
<1>4. Len(Tail(cmds)) <= Size
  BY <1>1, <1>2
<1> QED BY <1>1, <1>2, <1>3, <1>4 DEF Fine

(***************************************************************************)
(* What the commands a client issues in one step do to the queue: n of     *)
(* them are data, and a connect is among them only if c is one.            *)
(***************************************************************************)
Adds(q, r, n, c) ==
    /\ Fine(r)
    /\ \A x : Ordered(q, x) => Ordered(r, x)
    /\ \A x \in {"connect", "disconnect"} : Ordered(r, x) => Ordered(q, x) \/ x = c
    /\ n = 0 => (Ordered(r, "data") <=> Ordered(q, "data"))
    /\ Packets(r) = Packets(q) + n
    /\ Apart(q) /\ ((n = 0 /\ c # "connect") \/ ~Ordered(q, "connect")) => Apart(r)

LEMMA NothingAdded ==
    ASSUME NEW q \in Seq(Commands), Len(q) <= Size, NEW c
    PROVE  Adds(q, q, 0, c)
<1>1. Packets(q) \in Nat
  BY PacketsNat
<1>2. Packets(q) = Packets(q) + 0
  BY <1>1
<1> QED BY <1>2 DEF Adds, Fine

LEMMA PlainAdded ==
    ASSUME NEW q \in Seq(Commands), Len(q) < Size, NEW c \in PlainKinds
    PROVE  Adds(q, Append(q, Plain(c)), 0, c)
<1> DEFINE d == Plain(c)
<1>1. d \in Commands /\ d.cmd = c /\ IsOne(d) = 0 /\ c # "data"
  BY CommandFields DEF IsOne, PlainKinds
<1> HIDE DEF d
<1>2. /\ Append(q, d) \in Seq(Commands) /\ Len(Append(q, d)) = Len(q) + 1
      /\ \A x : Ordered(Append(q, d), x) <=> Ordered(q, x) \/ c = x
      /\ Packets(Append(q, d)) = Packets(q) + 0
      /\ Apart(q) /\ (c # "connect" \/ ~Ordered(q, "connect")) => Apart(Append(q, d))
  BY <1>1, CommandQueued
<1>3. Len(Append(q, d)) <= Size
  BY <1>2, LenProperties, LibAciAssumption
<1> QED BY <1>1, <1>2, <1>3 DEF Adds, Fine, d

LEMMA DataAdded ==
    ASSUME NEW q \in Seq(Commands), Len(q) < Size, NEW p \in Pipes
    PROVE  Adds(q, Append(q, Data(p)), 1, "other")
<1> DEFINE d == Data(p)
<1>1. d \in Commands /\ d.cmd = "data" /\ IsOne(d) = 1
  BY CommandFields DEF IsOne
<1> HIDE DEF d
<1>2. /\ Append(q, d) \in Seq(Commands) /\ Len(Append(q, d)) = Len(q) + 1
      /\ \A x : Ordered(Append(q, d), x) <=> Ordered(q, x) \/ "data" = x
      /\ Packets(Append(q, d)) = Packets(q) + 1
      /\ Apart(q) /\ ~Ordered(q, "connect") => Apart(Append(q, d))
  BY <1>1, CommandQueued
<1>3. Len(Append(q, d)) <= Size
  BY <1>2, LenProperties, LibAciAssumption
<1> QED BY <1>2, <1>3 DEF Adds, Fine, d

LEMMA Answered ==
    ASSUME TypeOK, NEW c \in PlainKinds, Answer(c)
    PROVE  Adds(cmds, cmds', 0, c)
<1>1. cmds \in Seq(Commands) /\ Len(cmds) <= Size
  BY TypeFacts
<1> QED BY <1>1, NothingAdded, PlainAdded DEF Answer, Room

-----------------------------------------------------------------------------
(* The picture: the steps of the radio *)

LEMMA RadioShape == Shape /\ Radio => Shape'
<1> SUFFICES ASSUME Shape, Radio PROVE Shape'
  OBVIOUS
<1>1. TypeOK /\ LinkOK
  BY DEF Shape
<1>2. /\ Total \in Nat /\ MaxLinks \in Nat /\ MaxFailures \in Nat
      /\ cmds \in Seq(Commands) /\ Len(cmds) <= Size
  BY <1>1, LibAciAssumption DEF TypeOK
<1>3. /\ \A s \in SUBSET Pipes : /\ PipeStatus(s) \in Events /\ Shows(PipeStatus(s))
                                 /\ Shown(PipeStatus(s)) = s
      /\ \A k \in 1 .. Total : DataCredit(k) \in Events /\ ~Shows(DataCredit(k))
      /\ \A x \in {"disconnected", "advTimeout"} :
            Event(x) \in Events /\ Shows(Event(x)) /\ Shown(Event(x)) = {}
      /\ \A x \in PlainEvents \ {"disconnected", "advTimeout"} :
            Event(x) \in Events /\ ~Shows(Event(x))
  BY EventFields DEF Shows, Shown, PlainEvents
<1>4. CASE RadioConnects
  <2>1. /\ seeking /\ linked' = TRUE /\ seeking' = FALSE
        /\ evs' = Append(evs, Event("connected")) /\ links' = links + 1 /\ links < MaxLinks
        /\ UNCHANGED <<open, credits, timed, cmds, piped, held, failures, stale>>
    BY <1>4 DEF RadioConnects, Report, library
  <2>2. Alike(evs, evs')
    BY <1>1, <1>3, <2>1, EventPut DEF PlainEvents
  <2>3. links' \in 0 .. MaxLinks /\ evs' \in Seq(Events)
    BY <1>1, <1>2, <2>1, <2>2 DEF TypeOK, Alike
  <2>4. TypeOK' /\ LinkOK'
    BY <1>1, <2>1, <2>3 DEF TypeOK, LinkOK
  <2> QED BY <2>1, <2>2, <2>4, AlikeStep
<1>5. CASE RadioTimesOut
  <2>1. /\ seeking /\ seeking' = FALSE /\ stale' = FALSE
        /\ evs' = Append(evs, Event("advTimeout"))
        /\ UNCHANGED <<open, credits, timed, cmds, linked, piped, held, links, failures>>
    BY <1>5 DEF RadioTimesOut, Report, library
  <2>2. evs' \in Seq(Events) /\ ~NoneShown(evs') /\ LastShown(evs', {})
    BY <1>1, <1>3, <2>1, EventPut
  <2>3. TypeOK' /\ LinkOK'
    BY <1>1, <2>1, <2>2 DEF TypeOK, LinkOK
  <2>4. piped' = {}
    BY <1>1, <2>1 DEF LinkOK
  <2> QED BY <2>2, <2>3, <2>4, ShownStep
<1>6. CASE PeerRefuses
  <2>1. /\ evs' = Append(evs, Event("attError"))
        /\ UNCHANGED <<open, credits, timed, cmds, linked, seeking, piped, held, links, failures, stale>>
    BY <1>6 DEF PeerRefuses, Report, library, radio, history
  <2>2. Alike(evs, evs') /\ evs' \in Seq(Events)
    BY <1>1, <1>3, <2>1, EventPut DEF PlainEvents
  <2>3. TypeOK' /\ LinkOK'
    BY <1>1, <2>1, <2>2 DEF TypeOK, LinkOK
  <2> QED BY <2>1, <2>2, <2>3, AlikeStep
<1>7. ASSUME Drop, Fine(cmds')
      PROVE  Shape'
  <2>1. /\ linked' = FALSE /\ piped' = {} /\ held' = 0 /\ stale' = FALSE
        /\ evs' = Append(evs, Event("disconnected"))
        /\ UNCHANGED <<open, credits, timed, seeking, links, failures>>
    BY <1>7 DEF Drop, Report, library
  <2>2. evs' \in Seq(Events) /\ ~NoneShown(evs') /\ LastShown(evs', {})
    BY <1>1, <1>3, <2>1, EventPut
  <2>3. held' \in 0 .. Total
    BY <1>2, <2>1
  <2>4. TypeOK' /\ LinkOK'
    BY <1>1, <1>7, <2>1, <2>2, <2>3 DEF TypeOK, LinkOK, Fine
  <2> QED BY <2>1, <2>2, <2>4, ShownStep
<1>8. CASE RadioLoses
  BY <1>2, <1>7, <1>8 DEF RadioLoses, Fine
<1>9. CASE RadioFails
  <2> DEFINE e == Event("started")
             f == Event("hwError")
             q == Append(evs, e)
  <2>1. /\ linked' = FALSE /\ seeking' = FALSE /\ piped' = {} /\ held' = 0
        /\ stale' = (stale \/ piped # {}) /\ failures' = failures + 1 /\ failures < MaxFailures
        /\ evs' = Append(q, f)
        /\ UNCHANGED <<open, credits, timed, cmds, links>>
    BY <1>9 DEF RadioFails, library
  <2>2. e \in Events /\ f \in Events /\ ~Shows(e) /\ ~Shows(f) /\ evs \in Seq(Events)
    BY <1>1, <1>3, TypeFacts DEF PlainEvents
  <2> HIDE DEF e, f
  <2>3. /\ q \in Seq(Events) /\ (NoneShown(q) => NoneShown(evs))
        /\ LastShown(evs, piped) => LastShown(q, piped)
    BY <2>2, EventQueued
  <2> HIDE DEF q
  <2>4. /\ evs' \in Seq(Events) /\ (NoneShown(evs') => NoneShown(q))
        /\ LastShown(q, piped) => LastShown(evs', piped)
    BY <2>1, <2>2, <2>3, EventQueued
  <2>5. failures' \in 0 .. MaxFailures /\ held' \in 0 .. Total
    BY <1>1, <1>2, <2>1 DEF TypeOK
  <2>6. TypeOK' /\ LinkOK'
    BY <1>1, <2>1, <2>4, <2>5 DEF TypeOK, LinkOK
  <2>7. PictureOK'
    BY <2>1, <2>3, <2>4 DEF Shape, PictureOK
  <2> QED BY <2>6, <2>7 DEF Shape
<1>10. ASSUME NEW s \in SUBSET Pipes, RadioOpens(s)
       PROVE  Shape'
  <2>1. /\ linked /\ piped' = s /\ evs' = Append(evs, PipeStatus(s)) /\ stale' = FALSE
        /\ UNCHANGED <<open, credits, timed, cmds, linked, seeking, held, links, failures>>
    BY <1>10 DEF RadioOpens, Report, library
  <2>2. evs' \in Seq(Events) /\ ~NoneShown(evs') /\ LastShown(evs', s)
    BY <1>1, <1>3, <2>1, EventPut
  <2>3. TypeOK' /\ LinkOK'
    BY <1>1, <2>1, <2>2 DEF TypeOK, LinkOK
  <2> QED BY <2>1, <2>2, <2>3, ShownStep
<1>11. ASSUME NEW k \in 1 .. Total, RadioCredits(k)
       PROVE  Shape'
  <2>1. /\ k <= held /\ held' = held - k /\ evs' = Append(evs, DataCredit(k))
        /\ UNCHANGED <<open, credits, timed, cmds, linked, seeking, piped, links, failures, stale>>
    BY <1>11 DEF RadioCredits, Report, library, history
  <2>2. Alike(evs, evs') /\ evs' \in Seq(Events)
    BY <1>1, <1>3, <2>1, EventPut
  <2>3. held' \in 0 .. Total /\ (held = 0 => held' = 0)
    BY <1>1, <1>2, <2>1 DEF TypeOK
  <2>4. TypeOK' /\ LinkOK'
    BY <1>1, <2>1, <2>2, <2>3 DEF TypeOK, LinkOK
  <2> QED BY <2>1, <2>2, <2>4, AlikeStep
<1>12. CASE RadioTakesConnect
  <2>1. /\ ~linked /\ seeking' = TRUE
        /\ UNCHANGED <<open, credits, timed, evs, linked, piped, held, links, failures, stale>>
    BY <1>12 DEF RadioTakesConnect, library, history
  <2>2. Fine(cmds')
    BY <1>1, <1>12, TakenOut DEF RadioTakesConnect
  <2>3. Alike(evs, evs')
    BY <1>1, <2>1 DEF Alike, TypeOK
  <2>4. TypeOK' /\ LinkOK'
    BY <1>1, <2>1, <2>2 DEF TypeOK, LinkOK, Fine
  <2> QED BY <2>1, <2>3, <2>4, AlikeStep
<1>13. CASE RadioTakesDisconnect
  BY <1>1, <1>7, <1>13, TakenOut DEF RadioTakesDisconnect
<1>14. CASE RadioTakesData
  <2>1. UNCHANGED <<open, credits, timed, linked, seeking, piped, links, failures, stale>>
    BY <1>14 DEF RadioTakesData, library, history
  <2>2. Fine(cmds') /\ (Ordered(cmds, "disconnect") => Ordered(cmds', "disconnect"))
    BY <1>1, <1>14, TakenOut DEF RadioTakesData
  <2>3. CASE Taken
    <3>1. evs' = evs /\ held' = held + 1 /\ held < Total /\ piped # {}
      BY <1>14, <2>3 DEF RadioTakesData, Taken
    <3>2. held' \in 0 .. Total /\ Alike(evs, evs')
      BY <1>1, <1>2, <3>1 DEF TypeOK, Alike
    <3>3. TypeOK' /\ LinkOK'
      BY <1>1, <2>1, <2>2, <3>1, <3>2 DEF TypeOK, LinkOK, Fine
    <3> QED BY <2>1, <2>2, <3>2, <3>3, AlikeStep
  <2>4. CASE ~Taken
    <3>1. evs' = Append(evs, Event("pipeError")) /\ held' = held
      BY <1>14, <2>4 DEF RadioTakesData, Report
    <3>2. Alike(evs, evs') /\ evs' \in Seq(Events)
      BY <1>1, <1>3, <3>1, EventPut DEF PlainEvents
    <3>3. TypeOK' /\ LinkOK'
      BY <1>1, <2>1, <2>2, <3>1, <3>2 DEF TypeOK, LinkOK, Fine
    <3> QED BY <2>1, <2>2, <3>2, <3>3, AlikeStep
  <2> QED BY <2>3, <2>4
<1>15. CASE RadioTakesOther
  <2>1. UNCHANGED <<open, credits, timed, evs, linked, seeking, piped, held, links, failures, stale>>
    BY <1>15 DEF RadioTakesOther, library, radio, history
  <2>2. Fine(cmds') /\ (Ordered(cmds, "disconnect") => Ordered(cmds', "disconnect"))
    BY <1>1, <1>15, TakenOut DEF RadioTakesOther
  <2>3. Alike(evs, evs')
    BY <1>1, <2>1 DEF Alike, TypeOK
  <2>4. TypeOK' /\ LinkOK'
    BY <1>1, <2>1, <2>2 DEF TypeOK, LinkOK, Fine
  <2> QED BY <2>1, <2>2, <2>3, <2>4, AlikeStep
<1>16. ASSUME NEW c \in PlainKinds, RadioRefuses(c)
       PROVE  Shape'
  <2>1. /\ c = "disconnect" => ~linked
        /\ evs' = Append(evs, Event("refused"))
        /\ UNCHANGED <<open, credits, timed, linked, seeking, piped, held, links, failures, stale>>
    BY <1>16 DEF RadioRefuses, Report, library, radio, history
  <2>2. Fine(cmds') /\ (linked /\ Ordered(cmds, "disconnect") => Ordered(cmds', "disconnect"))
    BY <1>1, <1>16, <2>1, TakenOut DEF RadioRefuses
  <2>3. Alike(evs, evs') /\ evs' \in Seq(Events)
    BY <1>1, <1>3, <2>1, EventPut DEF PlainEvents
  <2>4. TypeOK' /\ LinkOK'
    BY <1>1, <2>1, <2>2, <2>3 DEF TypeOK, LinkOK, Fine
  <2> QED BY <2>1, <2>2, <2>3, <2>4, AlikeStep
<1> QED BY <1>4, <1>5, <1>6, <1>8, <1>9, <1>10, <1>11, <1>12, <1>13, <1>14, <1>15, <1>16 DEF Radio

-----------------------------------------------------------------------------
(* The picture: the steps of a client *)

\* Commands, with which the credits may change.
LEMMA CommandShape ==
    ASSUME Shape, Fine(cmds'), \A x : Ordered(cmds, x) => Ordered(cmds', x),
           credits' \in 0 .. CreditWrap - 1,
           UNCHANGED <<open, timed, evs, linked, seeking, piped, held, links, failures, stale>>
    PROVE  Shape'
<1>1. TypeOK' /\ LinkOK'
  BY DEF Shape, TypeOK, LinkOK, Fine
<1>2. Alike(evs, evs')
  BY DEF Shape, TypeOK, Alike
<1> QED BY <1>1, <1>2, AlikeStep

LEMMA DisconnectShape == Shape /\ Disconnect => Shape'
<1> SUFFICES ASSUME Shape, Disconnect PROVE Shape'
  OBVIOUS
<1>1. /\ open # {} /\ Len(cmds) < Size /\ cmds' = Append(cmds, Plain("disconnect"))
      /\ open' = {}
      /\ UNCHANGED <<credits, timed, evs, linked, seeking, piped, held, links, failures, stale>>
  BY DEF Disconnect, LibDisconnect, Room, radio, history
<1>2. cmds \in Seq(Commands) /\ Plain("disconnect") \in Commands
      /\ Plain("disconnect").cmd = "disconnect"
  BY CommandFields DEF Shape, TypeOK, PlainKinds
<1>3. /\ cmds' \in Seq(Commands) /\ Len(cmds') = Len(cmds) + 1
      /\ Ordered(cmds', "disconnect")
  BY <1>1, <1>2, CommandQueued
<1>4. Len(cmds') <= Size
  BY <1>1, <1>3, TypeFacts DEF Shape
<1>5. TypeOK' /\ LinkOK'
  BY <1>1, <1>3, <1>4 DEF Shape, TypeOK, LinkOK
<1>6. PictureOK'
  BY <1>1, <1>3 DEF Shape, LinkOK, PictureOK
<1> QED BY <1>5, <1>6 DEF Shape

\* Handling of an event that shows nothing ...
LEMMA HandledShape ==
    ASSUME Shape, NEW x, Get(x), x \notin {"pipeStatus", "disconnected", "advTimeout"},
           Fine(cmds'), \A y : Ordered(cmds, y) => Ordered(cmds', y),
           credits' \in 0 .. CreditWrap - 1, timed' \in BOOLEAN,
           UNCHANGED <<open, linked, seeking, piped, held, links, failures, stale>>
    PROVE  Shape'
<1>1. Alike(evs, evs') /\ evs' \in Seq(Events)
  <2>1. Head(evs).evt = x /\ evs' \in Seq(Events) /\ (~Shows(Head(evs)) => Alike(evs, evs'))
    BY Unqueued DEF Shape
  <2> QED BY <2>1 DEF Shows
<1>2. TypeOK' /\ LinkOK'
  BY <1>1 DEF Shape, TypeOK, LinkOK, Fine
<1> QED BY <1>1, <1>2, AlikeStep

\* ... and of one that does.
LEMMA ShowingShape ==
    ASSUME Shape, NEW x \in {"pipeStatus", "disconnected", "advTimeout"}, Get(x),
           Fine(cmds'), credits' \in 0 .. CreditWrap - 1, timed' \in BOOLEAN,
           open' = Shown(Head(evs)),
           UNCHANGED <<linked, seeking, piped, held, links, failures, stale>>
    PROVE  Shape'
<1>1. /\ Head(evs) \in Events /\ Head(evs).evt = x /\ Shows(Head(evs))
      /\ evs # << >> /\ evs' = Tail(evs) /\ evs' \in Seq(Events)
  BY Unqueued DEF Shape, Shows
<1>2. open' \in SUBSET Pipes
  BY <1>1, EventFields DEF Shown
<1>3. TypeOK' /\ LinkOK'
  BY <1>1, <1>2 DEF Shape, TypeOK, LinkOK, Fine
<1> QED BY <1>1, <1>3, GetShownStep

LEMMA Wraps ==
    ASSUME NEW n \in Nat, NEW b \in Nat \ {0}
    PROVE  n % b \in 0 .. b - 1 /\ (n < b => n % b = n)
OBVIOUS

\* Any event, whatever commands of kind c the client answers it with.
Handles(c) ==
    \/ GetConnected /\ Adds(cmds, cmds', 0, c)
    \/ (\E p \in Pipes : GetPipeStatus(p)) \/ GetDataCredit \/ GetPipeError \/ GetHwError
    \/ \E e \in {"disconnected", "advTimeout"} : GetDisconnected(e) /\ Adds(cmds, cmds', 0, c)
    \/ \E e \in {"started", "refused"} : GetNoted(e)

LEMMA HandlesShape == ASSUME NEW c, Shape, Handles(c) PROVE Shape'
<1>1. /\ TypeOK /\ credits \in 0 .. CreditWrap - 1 /\ timed \in BOOLEAN /\ Fine(cmds)
      /\ Total \in 0 .. CreditWrap - 1 /\ CreditWrap \in Nat \ {0}
  BY LibAciAssumption DEF Shape, TypeOK, Fine
<1>2. CASE GetConnected /\ Adds(cmds, cmds', 0, c)
  <2>1. /\ Get("connected") /\ credits' = Total /\ timed' = FALSE
        /\ UNCHANGED <<open, linked, seeking, piped, held, links, failures, stale>>
    BY <1>2 DEF GetConnected, radio, history
  <2> QED BY <1>1, <1>2, <2>1, HandledShape DEF Adds
<1>3. ASSUME NEW p \in Pipes, GetPipeStatus(p)
      PROVE  Shape'
  <2>1. /\ Get("pipeStatus") /\ open' = Head(evs).pipes /\ timed' = (timed \/ p \in open')
        /\ Answer("other") \/ cmds' = cmds
        /\ UNCHANGED <<credits, linked, seeking, piped, held, links, failures, stale>>
    BY <1>3 DEF GetPipeStatus, radio, history
  <2>2. open' = Shown(Head(evs))
    BY <2>1 DEF Get, Shown
  <2>3. Fine(cmds')
    BY <1>1, <2>1, Answered DEF Adds, PlainKinds
  <2> QED BY <1>1, <2>1, <2>2, <2>3, ShowingShape
<1>4. CASE GetDataCredit
  <2>1. /\ Get("dataCredit") /\ credits' = (credits + Head(evs).credit) % CreditWrap
        /\ UNCHANGED <<open, timed, cmds, linked, seeking, piped, held, links, failures, stale>>
    BY <1>4 DEF GetDataCredit, radio, history
  <2>2. Head(evs).credit \in 1 .. Total
    BY <1>1, <2>1, Unqueued, EventFields
  <2>3. credits + Head(evs).credit \in Nat
    BY <1>1, <2>2
  <2>4. credits' \in 0 .. CreditWrap - 1
    BY <1>1, <2>1, <2>3, Wraps
  <2> QED BY <1>1, <2>1, <2>4, HandledShape
<1>5. CASE GetPipeError
  <2>1. PICK x \in {"pipeError", "attError"} :
           Get(x) /\ credits' \in {credits, (credits + 1) % CreditWrap}
    BY <1>5 DEF GetPipeError
  <2>2. UNCHANGED <<open, timed, cmds, linked, seeking, piped, held, links, failures, stale>>
    BY <1>5 DEF GetPipeError, radio, history
  <2>3. credits + 1 \in Nat
    BY <1>1
  <2>4. credits' \in 0 .. CreditWrap - 1
    BY <1>1, <2>1, <2>3, Wraps
  <2> QED BY <1>1, <2>1, <2>2, <2>4, HandledShape
<1>6. CASE GetHwError
  <2>1. /\ Get("hwError") /\ Answer("connect")
        /\ UNCHANGED <<open, credits, timed, linked, seeking, piped, held, links, failures, stale>>
    BY <1>6 DEF GetHwError, library, radio, history
  <2>2. Adds(cmds, cmds', 0, "connect")
    BY <1>1, <2>1, Answered DEF PlainKinds
  <2> QED BY <1>1, <2>1, <2>2, HandledShape DEF Adds
<1>7. ASSUME NEW e \in {"disconnected", "advTimeout"}, GetDisconnected(e), Adds(cmds, cmds', 0, c)
      PROVE  Shape'
  <2>1. /\ Get(e) /\ open' = {} /\ credits' = Total
        /\ UNCHANGED <<timed, linked, seeking, piped, held, links, failures, stale>>
    BY <1>7 DEF GetDisconnected, radio, history
  <2>2. open' = Shown(Head(evs))
    BY <2>1 DEF Get, Shown
  <2> QED BY <1>1, <1>7, <2>1, <2>2, ShowingShape DEF Adds
<1>8. ASSUME NEW e \in {"started", "refused"}, GetNoted(e)
      PROVE  Shape'
  <2>1. /\ Get(e)
        /\ UNCHANGED <<open, credits, timed, cmds, linked, seeking, piped, held, links, failures, stale>>
    BY <1>8 DEF GetNoted, library, radio, history
  <2> QED BY <1>1, <2>1, HandledShape
<1> QED BY <1>2, <1>3, <1>4, <1>5, <1>6, <1>7, <1>8 DEF Handles

\* The uart client.
LEMMA NextShape == Shape /\ [Next]_vars => Shape'
<1> SUFFICES ASSUME Shape, [Next]_vars PROVE Shape'
  OBVIOUS
<1>1. /\ TypeOK /\ cmds \in Seq(Commands) /\ Len(cmds) <= Size /\ credits \in 0 .. CreditWrap - 1
      /\ Tx \in Pipes
  BY LibAciAssumption DEF Shape, TypeOK
<1>2. CASE SendLine
  <2>1. /\ Len(cmds) < Size /\ cmds' = Append(cmds, Data(Tx))
        /\ UNCHANGED <<open, credits, timed, evs, linked, seeking, piped, held, links, failures, stale>>
    BY <1>2 DEF SendLine, Room, library, radio, history
  <2>2. Adds(cmds, cmds', 1, "other")
    BY <1>1, <2>1, DataAdded
  <2> QED BY <1>1, <2>1, <2>2, CommandShape DEF Adds
<1>3. CASE SendOther
  <2>1. /\ Answer("other")
        /\ UNCHANGED <<open, credits, timed, evs, linked, seeking, piped, held, links, failures, stale>>
    BY <1>3 DEF SendOther, library, radio, history
  <2>2. Adds(cmds, cmds', 0, "other")
    BY <1>1, <2>1, Answered DEF PlainKinds
  <2> QED BY <1>1, <2>1, <2>2, CommandShape DEF Adds
<1>4. CASE EventGet
  <2>1. \A c \in {"other", "connect"} : Answer(c) => Adds(cmds, cmds', 0, c)
    BY <1>1, Answered DEF PlainKinds
  <2>2. Handles("other") \/ Handles("connect")
    BY <1>1, <1>4, <2>1 DEF EventGet, Handles
  <2> QED BY <2>2, HandlesShape
<1>5. CASE UNCHANGED vars
  <2>1. UNCHANGED <<open, credits, timed, cmds, evs, linked, seeking, piped, held, links, failures, stale>>
    BY <1>5 DEF vars, library, radio, history
  <2>2. Fine(cmds')
    BY <1>1, <2>1 DEF Fine
  <2> QED BY <1>1, <2>1, <2>2, CommandShape
<1> QED BY <1>2, <1>3, <1>4, <1>5, RadioShape, DisconnectShape DEF Next

\* The heart rate client.
LEMMA HeartEventHandles ==
    ASSUME TypeOK, HeartEvent
    PROVE  \/ UNCHANGED vars
           \/ Handles("other")
           \/ GetDisconnected("disconnected") /\ Answer("connect")
<1>1. cmds \in Seq(Commands) /\ Len(cmds) <= Size /\ Heart \in Pipes
  BY HeartRateAssumption DEF TypeOK, Services
<1>2. Answer("other") => Adds(cmds, cmds', 0, "other")
  BY Answered DEF PlainKinds
<1>3. cmds' = cmds => Adds(cmds, cmds', 0, "other")
  BY <1>1, NothingAdded
<1>4. CASE \E e \in {"started", "refused"} : GetNoted(e)
  BY <1>4 DEF Handles
<1>5. CASE GetConnected /\ UNCHANGED cmds
  BY <1>3, <1>5 DEF Handles
<1>6. CASE GetDisconnected("advTimeout") /\ Answer("other")
  BY <1>2, <1>6 DEF Handles
<1>7. CASE GetPipeStatus(Heart) \/ GetDataCredit \/ GetPipeError \/ GetHwError
  BY <1>1, <1>7 DEF Handles
<1> QED BY <1>4, <1>5, <1>6, <1>7 DEF HeartEvent

\* What the main loop sends: nothing, a value to be read, a packet, or both.
Sends(n) ==
    /\ Adds(cmds, cmds', n, "other") /\ credits' = credits - n
    /\ n = 1 => open # {} /\ credits >= 1
    /\ UNCHANGED <<open, timed, evs, linked, seeking, piped, held, links, failures, stale>>

LEMMA SendFromBufferSends ==
    ASSUME NEW s \in Services, TypeOK, SendFromBuffer(s)
    PROVE  \E n \in {0, 1} : Sends(n)
<1>1. UNCHANGED <<open, timed, evs, linked, seeking, piped, held, links, failures, stale>>
  BY DEF SendFromBuffer, radio, history
<1>2. cmds \in Seq(Commands) /\ Len(cmds) \in Nat /\ Len(cmds) <= Size /\ credits \in Nat
      /\ Size \in Nat
  BY TypeFacts
<1>3. Heart \in Pipes /\ Battery \in Pipes
  BY HeartRateAssumption DEF Services
<1>4. CASE UNCHANGED <<cmds, credits>>
  <2>1. Adds(cmds, cmds', 0, "other") /\ credits' = credits - 0
    BY <1>2, <1>4, NothingAdded
  <2> QED BY <1>1, <2>1 DEF Sends
<1>5. CASE UpdateHeartRate /\ ~UNCHANGED <<cmds, credits>>
  <2>1. /\ open # {} /\ credits >= 1 /\ Len(cmds) < Size
        /\ cmds' = Append(cmds, Data(Heart)) /\ credits' = credits - 1
    BY <1>2, <1>5 DEF UpdateHeartRate, Send, Room
  <2>2. Adds(cmds, cmds', 1, "other")
    BY <1>2, <1>3, <2>1, DataAdded
  <2> QED BY <1>1, <2>1, <2>2 DEF Sends
<1>6. CASE \E v : UpdateBattery(v) /\ ~UNCHANGED <<cmds, credits>>
  <2> DEFINE set == Append(cmds, Plain("other"))
  <2>1. /\ Len(cmds) < Size
        /\ \/ cmds' = set /\ credits' = credits
           \/ /\ open # {} /\ credits >= 1 /\ Len(set) < Size
              /\ cmds' = Append(set, Data(Battery)) /\ credits' = credits - 1
    BY <1>2, <1>6 DEF UpdateBattery, Room
  <2>2. Adds(cmds, set, 0, "other")
    BY <1>2, <2>1, PlainAdded DEF PlainKinds
  <2>3. set \in Seq(Commands)
    BY <2>2 DEF Adds, Fine
  <2> HIDE DEF set
  <2>4. CASE cmds' = set /\ credits' = credits
    <3>1. credits' = credits - 0
      BY <1>2, <2>4
    <3> QED BY <1>1, <2>2, <2>4, <3>1 DEF Sends
  <2>5. CASE /\ open # {} /\ credits >= 1 /\ Len(set) < Size
             /\ cmds' = Append(set, Data(Battery)) /\ credits' = credits - 1
    <3>1. Adds(set, cmds', 1, "other")
      BY <1>3, <2>3, <2>5, DataAdded
    <3>2. Packets(cmds') = Packets(cmds) + 1
      <4>1. Packets(cmds) \in Nat
        BY <1>2, PacketsNat
      <4>2. Packets(set) = Packets(cmds) + 0 /\ Packets(cmds') = Packets(set) + 1
        BY <2>2, <3>1 DEF Adds
      <4> QED BY <4>1, <4>2
    <3>3. Adds(cmds, cmds', 1, "other")
      BY <2>2, <3>1, <3>2 DEF Adds
    <3> QED BY <1>1, <2>5, <3>3 DEF Sends
  <2> QED BY <2>1, <2>4, <2>5
<1> QED BY <1>4, <1>5, <1>6 DEF SendFromBuffer

LEMMA SendsShape == ASSUME NEW n \in {0, 1}, Shape, Sends(n) PROVE Shape'
<1>1. credits' \in 0 .. CreditWrap - 1
  BY TypeFacts DEF Sends, Shape
<1> QED BY <1>1, CommandShape DEF Sends, Adds

LEMMA HeartNextShape == Shape /\ [HeartNext]_heartVars => Shape'
<1> SUFFICES ASSUME Shape, [HeartNext]_heartVars PROVE Shape'
  OBVIOUS
<1>1. TypeOK
  BY DEF Shape
<1>2. CASE HeartEvent
  <2>1. Answer("connect") => Adds(cmds, cmds', 0, "connect")
    BY <1>1, Answered DEF PlainKinds
  <2>2. UNCHANGED vars \/ Handles("other") \/ Handles("connect")
    BY <1>1, <1>2, <2>1, HeartEventHandles DEF Handles
  <2> QED BY <2>2, NextShape, HandlesShape
<1>3. ASSUME NEW s \in Services, SendFromBuffer(s)
      PROVE  Shape'
  BY <1>1, <1>3, SendFromBufferSends, SendsShape
<1>4. CASE UNCHANGED vars
  BY <1>4, NextShape
<1>5. CASE \E s \in Services : (\E v \in Values[s] : Sample(s, v)) \/ Erase(s) \/ Advance(s)
  BY <1>4, <1>5 DEF Sample, Erase, Advance
<1>6. CASE Radio
  BY <1>6, RadioShape
<1> QED BY <1>2, <1>3, <1>4, <1>5, <1>6 DEF HeartNext, heartVars

-----------------------------------------------------------------------------
(* The ledger of the client that counts, until the radio fails *)

\* A connect is only on its way, and the radio only seeks, between two links,
\* and what the last link left behind is before it.
CommandsOK ==
    /\ Apart(cmds)
    /\ Ordered(cmds, "connect") => ~linked /\ ~seeking
    /\ seeking => ~Ordered(cmds, "data")

\* Between two links the disconnected event is still to be handled, or only
\* what is left behind is and no pipe is open.
Over == Reported(evs, "disconnected") \/ Reported(evs, "advTimeout")

EventsOK ==
    /\ Ends(evs)
    /\ ~Reported(evs, "hwError")
    /\ Over => ~linked /\ ~seeking /\ ~Ordered(cmds, "connect")
    /\ ~(Reported(evs, "disconnected") /\ Reported(evs, "advTimeout"))
    /\ ~linked => Reported(evs, "disconnected") \/ (open = {} /\ Errors(evs))

\* In a link the connected event is still to be handled and nothing was sent,
\* or the credits make the total.
Fresh == open = {} /\ held = 0 /\ ~Ordered(cmds, "data") /\ Begins(evs)
Accounted == ~Reported(evs, "connected") /\ credits + Outstanding = Total
CreditsOK == linked => Fresh \/ Accounted

Ledger == CommandsOK /\ EventsOK /\ CreditsOK

LEMMA InitLedger == Init => Ledger
<1> SUFFICES ASSUME Init PROVE Ledger
  OBVIOUS
<1>1. /\ \A x : Ordered(cmds, x) <=> x = "connect"
      /\ Apart(cmds) /\ Errors(evs) /\ Ends(evs) /\ \A x : ~Reported(evs, x)
  BY InitShape
<1> QED BY <1>1 DEF Init, Ledger, CommandsOK, EventsOK, Over, CreditsOK

\* An event is put into the queue that does not end a link or the search for one.
LEMMA Reporting ==
    ASSUME TypeOK, NEW x \in EventKinds, NEW e \in Events, e.evt = x, evs' = Append(evs, e)
    PROVE  /\ evs' \in Seq(Events)
           /\ \A y : Reported(evs', y) <=> Reported(evs, y) \/ y = x
           /\ Refunds(evs') = Refunds(evs) + Returned(e)
           /\ Returned(e) \in Nat /\ Refunds(evs) \in Nat
           /\ Errors(evs) /\ Left(e) => Errors(evs')
           /\ Ends(evs) /\ (Reported(evs, "disconnected") => Left(e)) => Ends(evs')
           /\ Errors(evs) /\ x = "connected" => Begins(evs')
           /\ Begins(evs) /\ Quiet(e) => Begins(evs')
<1>1. evs \in Seq(Events) /\ Refunds(evs) \in Nat /\ Total \in Nat
  BY TypeFacts
<1>2. Returned(e) \in Nat
  BY <1>1, ReturnedRange
<1> QED BY <1>1, <1>2, EventQueued

LEMMA ConnectsLedger == Shape /\ Ledger /\ RadioConnects => Ledger'
<1> SUFFICES ASSUME Shape, Ledger, RadioConnects PROVE Ledger'
  OBVIOUS
<1> DEFINE e == Event("connected")
<1>1. /\ seeking /\ linked' = TRUE /\ seeking' = FALSE
      /\ evs' = Append(evs, e) /\ UNCHANGED <<open, credits, cmds, piped, held>>
  BY DEF RadioConnects, Report, library
<1>2. e \in Events /\ e.evt = "connected"
  BY EventFields DEF PlainEvents
<1> HIDE DEF e
<1>3. /\ \A x : Reported(evs', x) <=> Reported(evs, x) \/ x = "connected"
      /\ Ends(evs) /\ ~Reported(evs, "disconnected") => Ends(evs')
      /\ Errors(evs) => Begins(evs')
  BY <1>1, <1>2, Reporting DEF Shape, EventKinds, PlainEvents
<1>4. /\ ~linked /\ ~Ordered(cmds, "data") /\ ~Ordered(cmds, "connect")
      /\ ~Over /\ held = 0 /\ open = {} /\ Errors(evs)
  BY <1>1 DEF Shape, LinkOK, Ledger, CommandsOK, EventsOK, Over
<1>5. CommandsOK' /\ EventsOK'
  BY <1>1, <1>3, <1>4 DEF Ledger, CommandsOK, EventsOK, Over
<1>6. CreditsOK'
  BY <1>1, <1>3, <1>4 DEF CreditsOK, Fresh
<1> QED BY <1>5, <1>6 DEF Ledger

LEMMA TimesOutLedger == Shape /\ Ledger /\ RadioTimesOut => Ledger'
<1> SUFFICES ASSUME Shape, Ledger, RadioTimesOut PROVE Ledger'
  OBVIOUS
<1> DEFINE e == Event("advTimeout")
<1>1. /\ seeking /\ seeking' = FALSE /\ evs' = Append(evs, e)
      /\ UNCHANGED <<open, credits, cmds, linked, piped, held>>
  BY DEF RadioTimesOut, Report, library
<1>2. e \in Events /\ e.evt = "advTimeout" /\ Left(e)
  BY EventFields DEF PlainEvents, Left
<1> HIDE DEF e
<1>3. /\ \A x : Reported(evs', x) <=> Reported(evs, x) \/ x = "advTimeout"
      /\ Ends(evs) => Ends(evs')
      /\ Errors(evs) => Errors(evs')
  BY <1>1, <1>2, Reporting DEF Shape, EventKinds, PlainEvents
<1>4. ~linked /\ ~Ordered(cmds, "connect") /\ ~Over /\ open = {} /\ Errors(evs)
  BY <1>1 DEF Shape, LinkOK, Ledger, CommandsOK, EventsOK, Over
<1>5. CommandsOK' /\ EventsOK'
  BY <1>1, <1>3, <1>4 DEF Ledger, CommandsOK, EventsOK, Over
<1>6. CreditsOK'
  BY <1>1, <1>4 DEF CreditsOK
<1> QED BY <1>5, <1>6 DEF Ledger

\* Pipes and answers of the peer: nothing of the credits.
LEMMA QuietLedger ==
    ASSUME Shape, Ledger, linked, NEW e \in Events, e.evt \in {"pipeStatus", "attError"},
           evs' = Append(evs, e), UNCHANGED <<open, credits, cmds, linked, seeking, held>>
    PROVE  Ledger'
<1>1. Quiet(e) /\ Returned(e) = 0
  BY ReturnedRange DEF Quiet
<1>2. /\ \A x : Reported(evs', x) <=> Reported(evs, x) \/ x = e.evt
      /\ Refunds(evs') = Refunds(evs) + 0 /\ Refunds(evs) \in Nat
      /\ Ends(evs) /\ ~Reported(evs, "disconnected") => Ends(evs')
      /\ Begins(evs) => Begins(evs')
  BY <1>1, Reporting DEF Shape, EventKinds, PlainEvents
<1>3. ~Over
  BY DEF Ledger, EventsOK
<1>4. CommandsOK' /\ EventsOK'
  BY <1>2, <1>3 DEF Ledger, CommandsOK, EventsOK, Over
<1>5. Outstanding' = Outstanding
  BY <1>2 DEF Outstanding
<1>6. CreditsOK'
  BY <1>2, <1>5 DEF Ledger, CreditsOK, Fresh, Accounted
<1> QED BY <1>4, <1>6 DEF Ledger

LEMMA CreditsLedger ==
    ASSUME NEW k \in 1 .. Total, Shape, Ledger, RadioCredits(k)
    PROVE  Ledger'
<1> DEFINE e == DataCredit(k)
<1>1. /\ k <= held /\ held' = held - k /\ evs' = Append(evs, e)
      /\ UNCHANGED <<open, credits, cmds, linked, seeking, piped>>
  BY DEF RadioCredits, Report, library
<1>2. e \in Events /\ e.evt = "dataCredit" /\ Returned(e) = k
  BY EventFields, ReturnedRange
<1> HIDE DEF e
<1>3. /\ \A x : Reported(evs', x) <=> Reported(evs, x) \/ x = "dataCredit"
      /\ Refunds(evs') = Refunds(evs) + k
      /\ Ends(evs) /\ ~Reported(evs, "disconnected") => Ends(evs')
  BY <1>1, <1>2, Reporting DEF Shape, EventKinds
<1>4. held # 0
  BY <1>1, TypeFacts DEF Shape
<1>5. linked /\ ~Over /\ Accounted
  BY <1>4 DEF Shape, LinkOK, Ledger, EventsOK, CreditsOK, Fresh
<1>6. CommandsOK' /\ EventsOK'
  BY <1>1, <1>3, <1>5 DEF Ledger, CommandsOK, EventsOK, Over
<1>7. Outstanding' = Outstanding
  BY <1>1, <1>3, TypeFacts DEF Shape, Outstanding
<1>8. Accounted'
  BY <1>1, <1>3, <1>5, <1>7 DEF Accounted
<1> QED BY <1>6, <1>8 DEF Ledger, CreditsOK

LEMMA DropLedger ==
    ASSUME Shape, Ledger, linked, Drop, Apart(cmds'),
           Ordered(cmds', "connect") => Ordered(cmds, "connect")
    PROVE  Ledger'
<1> DEFINE e == Event("disconnected")
<1>1. linked' = FALSE /\ evs' = Append(evs, e) /\ seeking' = seeking
  BY DEF Drop, Report
<1>2. e \in Events /\ e.evt = "disconnected"
  BY EventFields DEF PlainEvents
<1> HIDE DEF e
<1>3. /\ \A x : Reported(evs', x) <=> Reported(evs, x) \/ x = "disconnected"
      /\ Ends(evs) /\ ~Reported(evs, "disconnected") => Ends(evs')
  BY <1>1, <1>2, Reporting DEF Shape, EventKinds, PlainEvents
<1>4. ~seeking /\ ~Ordered(cmds, "connect") /\ ~Over
  BY DEF Shape, LinkOK, Ledger, CommandsOK, EventsOK
<1>5. CommandsOK' /\ EventsOK'
  BY <1>1, <1>3, <1>4 DEF Ledger, CommandsOK, EventsOK, Over
<1> QED BY <1>1, <1>5 DEF Ledger, CreditsOK

LEMMA TakesConnectLedger == Shape /\ Ledger /\ RadioTakesConnect => Ledger'
<1> SUFFICES ASSUME Shape, Ledger, RadioTakesConnect PROVE Ledger'
  OBVIOUS
<1>1. ~linked /\ Takes("connect") /\ UNCHANGED <<open, evs, linked>>
  BY DEF RadioTakesConnect, library
<1>2. /\ \A x : Ordered(cmds, x) <=> Ordered(cmds', x) \/ x = "connect"
      /\ Apart(cmds') /\ ~Ordered(cmds', "connect") /\ ~Ordered(cmds', "data")
  BY <1>1, TakenOut DEF Shape, Ledger, CommandsOK
<1>3. ~linked /\ ~seeking /\ ~Over
  BY <1>2 DEF Ledger, CommandsOK, EventsOK
<1>4. CommandsOK' /\ EventsOK'
  BY <1>1, <1>2, <1>3 DEF Ledger, CommandsOK, EventsOK, Over
<1> QED BY <1>1, <1>4 DEF Ledger, CreditsOK

\* A command that is no data is taken or refused.
LEMMA RefusedLedger ==
    ASSUME Shape, Ledger, NEW c \in PlainKinds, Takes(c),
           evs' = evs \/ evs' = Append(evs, Event("refused")),
           UNCHANGED <<open, credits, linked, seeking, held>>
    PROVE  Ledger'
<1> DEFINE e == Event("refused")
<1>1. e \in Events /\ e.evt = "refused" /\ Left(e) /\ Quiet(e) /\ Returned(e) = 0
  BY EventFields, ReturnedRange DEF PlainEvents, Left, Quiet
<1>2. /\ \A x : Ordered(cmds, x) <=> Ordered(cmds', x) \/ x = c
      /\ Packets(cmds) = Packets(cmds') /\ Apart(cmds')
  <2>1. /\ \A x : Ordered(cmds, x) <=> Ordered(cmds', x) \/ c = x
        /\ Packets(cmds) = Packets(cmds') + IsOne(Head(cmds)) /\ Packets(cmds') \in Nat
        /\ Head(cmds).cmd = c /\ Apart(cmds')
    BY TakenOut DEF Shape, Ledger, CommandsOK
  <2>2. IsOne(Head(cmds)) = 0
    BY <2>1 DEF IsOne, PlainKinds
  <2> QED BY <2>1, <2>2
<1> HIDE DEF e
<1>3. /\ \A x : x # "refused" => (Reported(evs', x) <=> Reported(evs, x))
      /\ Refunds(evs') = Refunds(evs)
      /\ Ends(evs) => Ends(evs')
      /\ Errors(evs) => Errors(evs')
      /\ Begins(evs) => Begins(evs')
  <2>1. CASE evs' = evs
    BY <2>1
  <2>2. CASE evs' = Append(evs, e)
    <3>1. /\ \A x : Reported(evs', x) <=> Reported(evs, x) \/ x = "refused"
          /\ Refunds(evs') = Refunds(evs) + 0 /\ Refunds(evs) \in Nat
          /\ Ends(evs) => Ends(evs')
          /\ Errors(evs) => Errors(evs')
          /\ Begins(evs) => Begins(evs')
      BY <1>1, <2>2, Reporting DEF Shape, EventKinds, PlainEvents
    <3> QED BY <3>1
  <2> QED BY <2>1, <2>2 DEF e
<1>4. CommandsOK'
  BY <1>2 DEF Ledger, CommandsOK, PlainKinds
<1>5. EventsOK'
  BY <1>2, <1>3 DEF Ledger, EventsOK, Over
<1>6. Outstanding' = Outstanding
  BY <1>2, <1>3 DEF Outstanding
<1>7. CreditsOK'
  BY <1>2, <1>3, <1>6 DEF Ledger, CreditsOK, Fresh, Accounted, PlainKinds
<1> QED BY <1>4, <1>5, <1>7 DEF Ledger

LEMMA TakesDataLedger == Shape /\ Ledger /\ RadioTakesData => Ledger'
<1> SUFFICES ASSUME Shape, Ledger, RadioTakesData PROVE Ledger'
  OBVIOUS
<1>1. Takes("data") /\ UNCHANGED <<open, credits, linked, seeking, piped>>
  BY DEF RadioTakesData, library
<1>2. /\ \A x : Ordered(cmds, x) <=> Ordered(cmds', x) \/ x = "data"
      /\ Packets(cmds) = Packets(cmds') + 1 /\ Packets(cmds') \in Nat
      /\ Apart(cmds')
  BY <1>1, TakenOut DEF Shape, Ledger, CommandsOK, IsOne
<1>3. ~Fresh
  BY <1>2 DEF Fresh
<1>4. CommandsOK'
  BY <1>1, <1>2 DEF Ledger, CommandsOK
<1>5. CASE Taken
  <2>1. held' = held + 1 /\ evs' = evs
    BY <1>5 DEF RadioTakesData
  <2>2. EventsOK'
    BY <1>1, <1>2, <2>1 DEF Ledger, EventsOK, Over
  <2>3. Outstanding' = Outstanding
    BY <1>2, <2>1, TypeFacts DEF Shape, Outstanding
  <2>4. CreditsOK'
    BY <1>1, <1>3, <2>1, <2>3 DEF Ledger, CreditsOK, Accounted
  <2> QED BY <1>4, <2>2, <2>4 DEF Ledger
<1>6. CASE ~Taken
  <2> DEFINE e == Event("pipeError")
  <2>1. evs' = Append(evs, e) /\ held' = held
    BY <1>6 DEF RadioTakesData, Report
  <2>2. e \in Events /\ e.evt = "pipeError" /\ Left(e) /\ Returned(e) = 1
    BY EventFields, ReturnedRange DEF PlainEvents, Left
  <2> HIDE DEF e
  <2>3. /\ \A x : Reported(evs', x) <=> Reported(evs, x) \/ x = "pipeError"
        /\ Refunds(evs') = Refunds(evs) + 1
        /\ Errors(evs) => Errors(evs')
        /\ Ends(evs) => Ends(evs')
    BY <2>1, <2>2, Reporting DEF Shape, EventKinds, PlainEvents
  <2>4. EventsOK'
    BY <1>1, <1>2, <2>3 DEF Ledger, EventsOK, Over
  <2>5. Outstanding' = Outstanding
    BY <1>2, <2>1, <2>3, TypeFacts DEF Shape, Outstanding
  <2>6. CreditsOK'
    BY <1>1, <1>3, <2>3, <2>5 DEF Ledger, CreditsOK, Accounted
  <2> QED BY <1>4, <2>4, <2>6 DEF Ledger
<1> QED BY <1>5, <1>6

LEMMA RadioLedger == Shape /\ Ledger /\ Radio /\ failures' = failures => Ledger'
<1> SUFFICES ASSUME Shape, Ledger, Radio, failures' = failures PROVE Ledger'
  OBVIOUS
<1>1. CASE PeerRefuses
  <2>1. /\ linked /\ evs' = Append(evs, Event("attError"))
        /\ UNCHANGED <<open, credits, cmds, linked, seeking, held>>
    BY <1>1 DEF PeerRefuses, Report, library, radio
  <2>2. Event("attError") \in Events /\ Event("attError").evt = "attError"
    BY EventFields DEF PlainEvents
  <2> QED BY <2>1, <2>2, QuietLedger
<1>2. ASSUME NEW s \in SUBSET Pipes, RadioOpens(s)
      PROVE  Ledger'
  <2>1. /\ linked /\ evs' = Append(evs, PipeStatus(s))
        /\ UNCHANGED <<open, credits, cmds, linked, seeking, held>>
    BY <1>2 DEF RadioOpens, Report, library
  <2>2. PipeStatus(s) \in Events /\ PipeStatus(s).evt = "pipeStatus"
    BY EventFields
  <2> QED BY <2>1, <2>2, QuietLedger
<1>3. CASE RadioLoses
  BY <1>3, DropLedger DEF RadioLoses, Ledger, CommandsOK
<1>4. CASE RadioTakesDisconnect
  <2>1. /\ linked /\ Drop /\ Apart(cmds')
        /\ Ordered(cmds', "connect") => Ordered(cmds, "connect")
    BY <1>4, TakenOut DEF RadioTakesDisconnect, Shape, Ledger, CommandsOK
  <2> QED BY <2>1, DropLedger
<1>5. CASE RadioTakesOther
  <2>1. Takes("other") /\ evs' = evs /\ UNCHANGED <<open, credits, linked, seeking, held>>
    BY <1>5 DEF RadioTakesOther, library, radio
  <2> QED BY <2>1, RefusedLedger DEF PlainKinds
<1>6. ASSUME NEW c \in PlainKinds, RadioRefuses(c)
      PROVE  Ledger'
  <2>1. /\ Takes(c) /\ evs' = Append(evs, Event("refused"))
        /\ UNCHANGED <<open, credits, linked, seeking, held>>
    BY <1>6 DEF RadioRefuses, Report, library, radio
  <2> QED BY <2>1, RefusedLedger
<1>7. ~RadioFails
  BY TypeFacts DEF RadioFails, Shape, TypeOK
<1> QED BY <1>1, <1>2, <1>3, <1>4, <1>5, <1>6, <1>7, ConnectsLedger, TimesOutLedger,
           CreditsLedger, TakesConnectLedger, TakesDataLedger DEF Radio

-----------------------------------------------------------------------------
(* The ledger: the steps of the client *)

LEMMA SendsLedger == ASSUME NEW n \in {0, 1}, Shape, Ledger, Sends(n) PROVE Ledger'
<1>1. /\ Adds(cmds, cmds', n, "other") /\ credits' = credits - n
      /\ n = 1 => open # {}
      /\ UNCHANGED <<open, evs, linked, seeking, held>>
  BY DEF Sends
<1>2. /\ Ordered(cmds', "connect") <=> Ordered(cmds, "connect")
      /\ n = 0 => (Ordered(cmds', "data") <=> Ordered(cmds, "data"))
      /\ Packets(cmds') = Packets(cmds) + n
      /\ Apart(cmds) /\ (n = 0 \/ ~Ordered(cmds, "connect")) => Apart(cmds')
  BY <1>1 DEF Adds
<1>3. n = 1 => ~Fresh /\ ~seeking /\ ~Ordered(cmds, "connect")
  BY <1>1 DEF Shape, LinkOK, Ledger, CommandsOK, EventsOK, Over, Fresh
<1>4. CommandsOK' /\ EventsOK'
  BY <1>1, <1>2, <1>3 DEF Ledger, CommandsOK, EventsOK, Over
<1>5. credits' + Outstanding' = credits + Outstanding
  BY <1>1, <1>2, TypeFacts DEF Shape, Outstanding
<1>6. CreditsOK'
  BY <1>1, <1>2, <1>3, <1>5 DEF Ledger, CreditsOK, Fresh, Accounted
<1> QED BY <1>4, <1>6 DEF Ledger

\* What the client takes out of the event queue.
LEMMA Gets ==
    ASSUME Shape, NEW x, Get(x)
    PROVE  LET h == Head(evs)
           IN  /\ h \in Events /\ h.evt = x /\ x \in EventKinds
               /\ \A y : Reported(evs, y) <=> Reported(evs', y) \/ x = y
               /\ Refunds(evs) = Refunds(evs') + Returned(h)
               /\ Refunds(evs') \in Nat /\ Returned(h) \in Nat
               /\ Ends(evs) => Ends(evs') /\ (x = "disconnected" => Errors(evs'))
               /\ Errors(evs) => Left(h) /\ Errors(evs')
               /\ Begins(evs) =>
                     \/ Left(h) /\ Begins(evs')
                     \/ x = "connected" /\ ~Reported(evs', "connected") /\ Refunds(evs') = 0
<1>1. evs # << >> /\ evs \in Seq(Events) /\ evs' = Tail(evs) /\ Head(evs).evt = x
  BY DEF Get, Shape, TypeOK
<1>2. Tail(evs) \in Seq(Events) /\ Head(evs) \in Events
  BY <1>1, EventTaken
<1>3. Refunds(Tail(evs)) \in Nat /\ Returned(Head(evs)) \in Nat /\ x \in EventKinds
  <2>1. Refunds(Tail(evs)) \in Nat
    BY <1>2, RefundsNat
  <2>2. Returned(Head(evs)) \in 0 .. Total
    BY <1>2, ReturnedRange
  <2>3. x \in EventKinds
    BY <1>1, <1>2, EventFields
  <2> QED BY <2>1, <2>2, <2>3
<1> QED BY <1>1, <1>2, <1>3, EventTaken

LEMMA ConnectedLedger ==
    ASSUME Shape, Ledger, GetConnected, Adds(cmds, cmds', 0, "other")
    PROVE  Ledger'
<1> DEFINE h == Head(evs)
<1>1. /\ Get("connected") /\ credits' = Total
      /\ UNCHANGED <<open, linked, seeking, piped, held>>
  BY DEF GetConnected, radio
<1>2. /\ h.evt = "connected"
      /\ \A y : Reported(evs, y) <=> Reported(evs', y) \/ y = "connected"
      /\ Ends(evs) => Ends(evs')
      /\ Errors(evs) => Left(h)
      /\ Begins(evs) => Left(h) \/ (~Reported(evs', "connected") /\ Refunds(evs') = 0)
  BY <1>1, Gets
<1>3. ~Left(h)
  BY <1>2 DEF Left
<1>4. /\ Ordered(cmds', "connect") <=> Ordered(cmds, "connect")
      /\ Ordered(cmds', "data") <=> Ordered(cmds, "data")
      /\ Packets(cmds') = Packets(cmds) + 0 /\ (Apart(cmds) => Apart(cmds'))
  BY DEF Adds
<1>5. CommandsOK' /\ EventsOK'
  BY <1>1, <1>2, <1>3, <1>4 DEF Ledger, CommandsOK, EventsOK, Over
<1>6. CreditsOK'
  <2> SUFFICES ASSUME linked PROVE Accounted'
    BY <1>1 DEF CreditsOK
  <2>1. Fresh
    BY <1>2 DEF Ledger, CreditsOK, Accounted
  <2>2. Packets(cmds') = 0 /\ held = 0 /\ Total \in Nat
    BY <1>4, <2>1, TypeFacts DEF Shape, Fresh
  <2>3. ~Reported(evs', "connected") /\ Refunds(evs') = 0
    BY <1>2, <1>3, <2>1 DEF Fresh
  <2> QED BY <1>1, <2>2, <2>3 DEF Accounted, Outstanding
<1> QED BY <1>5, <1>6 DEF Ledger

LEMMA PipeStatusLedger ==
    ASSUME Shape, Ledger, NEW p, GetPipeStatus(p)
    PROVE  Ledger'
<1> DEFINE h == Head(evs)
<1>1. /\ Get("pipeStatus") /\ UNCHANGED <<credits, linked, seeking, held>>
      /\ Answer("other") \/ cmds' = cmds
  BY DEF GetPipeStatus, radio
<1>2. /\ h \in Events /\ h.evt = "pipeStatus"
      /\ \A y : Reported(evs, y) <=> Reported(evs', y) \/ y = "pipeStatus"
      /\ Refunds(evs) = Refunds(evs') + Returned(h) /\ Refunds(evs') \in Nat
      /\ Ends(evs) => Ends(evs')
      /\ Errors(evs) => Left(h)
      /\ Begins(evs) => Left(h)
  BY <1>1, Gets
<1>3. ~Left(h) /\ Returned(h) = 0
  BY <1>2, ReturnedRange DEF Left
<1>4. Adds(cmds, cmds', 0, "other")
  <2>1. TypeOK /\ cmds \in Seq(Commands) /\ Len(cmds) <= Size
    BY DEF Shape, TypeOK
  <2> QED BY <1>1, <2>1, Answered, NothingAdded DEF PlainKinds
<1>5. /\ Ordered(cmds', "connect") <=> Ordered(cmds, "connect")
      /\ Ordered(cmds', "data") <=> Ordered(cmds, "data")
      /\ Packets(cmds') = Packets(cmds) + 0 /\ (Apart(cmds) => Apart(cmds'))
  BY <1>4 DEF Adds
<1>6. CommandsOK' /\ EventsOK'
  BY <1>1, <1>2, <1>3, <1>5 DEF Ledger, CommandsOK, EventsOK, Over
<1>7. Outstanding' = Outstanding
  BY <1>1, <1>2, <1>3, <1>5, TypeFacts DEF Shape, Outstanding
<1>8. CreditsOK'
  BY <1>1, <1>2, <1>3, <1>7 DEF Ledger, CreditsOK, Fresh, Accounted
<1> QED BY <1>6, <1>8 DEF Ledger

\* Credits that come back, or none, with an event that is no more than that.
LEMMA RefundLedger ==
    ASSUME Shape, Ledger, NEW x, Get(x),
           x \in {"dataCredit", "pipeError", "attError", "started", "refused"},
           credits' = (credits + Returned(Head(evs))) % CreditWrap,
           UNCHANGED <<open, cmds, linked, seeking, held>>
    PROVE  Ledger'
<1> DEFINE h == Head(evs)
<1>1. /\ h \in Events /\ h.evt = x
      /\ \A y : Reported(evs, y) <=> Reported(evs', y) \/ x = y
      /\ Refunds(evs) = Refunds(evs') + Returned(h)
      /\ Refunds(evs') \in Nat /\ Returned(h) \in Nat
      /\ Ends(evs) => Ends(evs')
      /\ Errors(evs) => Errors(evs')
      /\ Begins(evs) => Begins(evs') \/ x = "connected"
  BY Gets
<1>2. \A y \in {"connected", "disconnected", "advTimeout", "hwError"} :
          Reported(evs, y) <=> Reported(evs', y)
  BY <1>1
<1>3. CommandsOK' /\ EventsOK'
  BY <1>1, <1>2 DEF Ledger, CommandsOK, EventsOK, Over
<1>4. Accounted => Accounted'
  <2> SUFFICES ASSUME Accounted PROVE Accounted'
    OBVIOUS
  <2>1. credits + Packets(cmds) + held + Refunds(evs') + Returned(h) = Total
    BY <1>1, TypeFacts DEF Shape, Accounted, Outstanding
  <2>2. /\ credits \in Nat /\ Packets(cmds) \in Nat /\ held \in Nat
        /\ Total \in Nat /\ Total < CreditWrap /\ CreditWrap \in Nat \ {0}
    BY TypeFacts DEF Shape
  <2>3. ASSUME NEW c \in Nat, NEW p \in Nat, NEW k \in Nat, NEW r \in Nat, NEW b \in Nat,
               NEW t \in Nat, NEW w \in Nat, c + p + k + r + b = t, t < w
        PROVE  c + b \in Nat /\ c + b < w
    BY <2>3
  <2>4. credits + Returned(h) \in Nat /\ credits + Returned(h) < CreditWrap
        /\ CreditWrap \in Nat \ {0}
    <3> HIDE DEF h
    <3> QED BY <1>1, <2>1, <2>2, <2>3
  <2>5. credits' = credits + Returned(h)
    BY <2>4, Wraps
  <2>6. Outstanding' = Packets(cmds) + held + Refunds(evs')
    BY DEF Outstanding
  <2>7. credits' + Outstanding' = Total
    <3> HIDE DEF h
    <3> QED BY <1>1, <2>1, <2>2, <2>5, <2>6
  <2> QED BY <1>2, <2>7 DEF Accounted
<1>5. Fresh => Fresh'
  BY <1>1 DEF Fresh
<1> QED BY <1>3, <1>4, <1>5 DEF Ledger, CreditsOK

LEMMA DisconnectedLedger ==
    ASSUME Shape, Ledger, GetDisconnected("disconnected"), Answer("connect")
    PROVE  Ledger'
<1>1. Get("disconnected") /\ open' = {} /\ UNCHANGED <<linked, seeking>>
  BY DEF GetDisconnected, radio
<1>2. /\ \A y : Reported(evs, y) <=> Reported(evs', y) \/ y = "disconnected"
      /\ Ends(evs') /\ Errors(evs')
  BY <1>1, Gets DEF Ledger, EventsOK
<1>3. ~Reported(evs', "disconnected")
  BY <1>2 DEF Errors, Reported, Left
<1>4. ~linked /\ ~seeking /\ ~Ordered(cmds, "connect") /\ ~Reported(evs', "advTimeout")
  BY <1>2 DEF Ledger, EventsOK, Over
<1>5. Apart(cmds')
  <2>1. Adds(cmds, cmds', 0, "connect")
    BY Answered DEF Shape, PlainKinds
  <2> QED BY <1>4, <2>1 DEF Adds, Ledger, CommandsOK
<1>6. CommandsOK' /\ EventsOK'
  BY <1>1, <1>2, <1>3, <1>4, <1>5 DEF Ledger, CommandsOK, EventsOK, Over
<1> QED BY <1>1, <1>4, <1>6 DEF Ledger, CreditsOK

\* The end of advertising; of a link it would have to be answered with a connect.
LEMMA AdvTimeoutLedger ==
    ASSUME Shape, Ledger, GetDisconnected("advTimeout"), Adds(cmds, cmds', 0, "other")
    PROVE  Ledger'
<1>1. Get("advTimeout") /\ open' = {} /\ UNCHANGED <<linked, seeking>>
  BY DEF GetDisconnected, radio
<1>2. /\ \A y : Reported(evs, y) <=> Reported(evs', y) \/ y = "advTimeout"
      /\ Ends(evs') /\ (Errors(evs) => Errors(evs'))
  BY <1>1, Gets DEF Ledger, EventsOK
<1>3. /\ ~linked /\ ~seeking /\ ~Ordered(cmds, "connect") /\ ~Reported(evs, "disconnected")
      /\ Errors(evs)
  BY <1>2 DEF Ledger, EventsOK, Over
<1>4. ~Ordered(cmds', "connect") /\ Apart(cmds')
  BY <1>3 DEF Adds, Ledger, CommandsOK
<1>5. CommandsOK' /\ EventsOK'
  BY <1>1, <1>2, <1>3, <1>4 DEF Ledger, CommandsOK, EventsOK, Over
<1> QED BY <1>1, <1>3, <1>5 DEF Ledger, CreditsOK

LEMMA HeartEventLedger == ASSUME Shape, Ledger, HeartEvent PROVE Ledger'
<1>1. TypeOK /\ cmds \in Seq(Commands) /\ Len(cmds) <= Size
      /\ credits \in Nat /\ credits < CreditWrap /\ CreditWrap \in Nat \ {0}
  BY TypeFacts DEF Shape
<1>2. CASE UNCHANGED vars
  <2>1. Sends(0)
    <3>1. UNCHANGED <<open, credits, timed, cmds, evs, linked, seeking, piped, held, links, failures, stale>>
      BY <1>2 DEF vars, library, radio, history
    <3>2. Adds(cmds, cmds', 0, "other") /\ credits' = credits - 0
      BY <1>1, <3>1, NothingAdded
    <3> QED BY <3>1, <3>2 DEF Sends
  <2> QED BY <2>1, SendsLedger
<1>3. CASE GetDataCredit
  <2>1. /\ Get("dataCredit") /\ credits' = (credits + Head(evs).credit) % CreditWrap
        /\ UNCHANGED <<open, cmds, linked, seeking, held>>
    BY <1>3 DEF GetDataCredit, radio
  <2>2. Returned(Head(evs)) = Head(evs).credit
    BY <2>1 DEF Get, Returned
  <2> QED BY <2>1, <2>2, RefundLedger
<1>4. ASSUME NEW x \in {"pipeError", "attError", "started", "refused"}, Get(x),
             credits' = IF x = "pipeError" THEN (credits + 1) % CreditWrap ELSE credits,
             UNCHANGED <<open, cmds, linked, seeking, held>>
      PROVE  Ledger'
  <2>1. Returned(Head(evs)) = IF x = "pipeError" THEN 1 ELSE 0
    BY <1>4 DEF Get, Returned
  <2>2. credits + 0 = credits /\ credits % CreditWrap = credits
    BY <1>1, Wraps
  <2>3. credits' = (credits + Returned(Head(evs))) % CreditWrap
    BY <1>4, <2>1, <2>2
  <2> QED BY <1>4, <2>3, RefundLedger
<1>5. CASE GetPipeError
  BY <1>4, <1>5 DEF GetPipeError, radio
<1>6. CASE \E e \in {"started", "refused"} : GetNoted(e)
  BY <1>4, <1>6 DEF GetNoted, library, radio
<1>7. ~GetHwError
  <2>1. Get("hwError") => Reported(evs, "hwError")
    BY Gets
  <2> QED BY <2>1 DEF GetHwError, Ledger, EventsOK
<1>8. CASE GetConnected /\ UNCHANGED cmds
  BY <1>1, <1>8, NothingAdded, ConnectedLedger
<1>9. CASE GetDisconnected("advTimeout") /\ Answer("other")
  BY <1>1, <1>9, Answered, AdvTimeoutLedger DEF PlainKinds
<1> QED BY <1>2, <1>3, <1>5, <1>6, <1>7, <1>8, <1>9, PipeStatusLedger, DisconnectedLedger
        DEF HeartEvent

HeartInductive == Shape /\ (failures = 0 => Ledger)

LEMMA HeartNextInductive == HeartInductive /\ [HeartNext]_heartVars => HeartInductive'
<1> SUFFICES ASSUME HeartInductive, [HeartNext]_heartVars PROVE HeartInductive'
  OBVIOUS
<1>1. Shape /\ Shape' /\ TypeOK
  BY HeartNextShape DEF HeartInductive, Shape
<1>2. SUFFICES ASSUME failures' = 0 PROVE Ledger'
  BY <1>1 DEF HeartInductive
<1>3. CASE Radio
  <2>1. failures' = failures \/ failures' = failures + 1
    BY <1>3 DEF Radio, RadioConnects, RadioTimesOut, PeerRefuses, RadioLoses, Drop, RadioFails,
                RadioOpens, RadioCredits, RadioTakesConnect, RadioTakesDisconnect,
                RadioTakesData, RadioTakesOther, RadioRefuses, history
  <2>2. failures = 0
    BY <1>1, <1>2, <2>1 DEF TypeOK
  <2> QED BY <1>1, <1>2, <1>3, <2>2, RadioLedger DEF HeartInductive
<1>4. CASE HeartEvent
  <2>1. failures' = failures
    BY <1>4 DEF HeartEvent, vars, history, GetConnected, GetPipeStatus, GetDisconnected,
                GetDataCredit, GetPipeError, GetHwError, GetNoted
  <2> QED BY <1>1, <1>2, <1>4, <2>1, HeartEventLedger DEF HeartInductive
<1>5. ASSUME NEW s \in Services, SendFromBuffer(s)
      PROVE  Ledger'
  <2>1. PICK n \in {0, 1} : Sends(n)
    BY <1>1, <1>5, SendFromBufferSends
  <2>2. failures' = failures
    BY <2>1 DEF Sends
  <2> QED BY <1>1, <1>2, <2>1, <2>2, SendsLedger DEF HeartInductive
<1>6. CASE UNCHANGED vars
  <2>1. UNCHANGED <<open, credits, timed, cmds, evs, linked, seeking, piped, held, links, failures, stale>>
    BY <1>6 DEF vars, library, radio, history
  <2>2. Adds(cmds, cmds', 0, "other") /\ credits' = credits - 0
    BY <1>1, <2>1, NothingAdded, TypeFacts
  <2>3. Sends(0)
    BY <2>1, <2>2 DEF Sends
  <2> QED BY <1>1, <1>2, <2>1, <2>3, SendsLedger DEF HeartInductive
<1>7. CASE \E s \in Services : (\E v \in Values[s] : Sample(s, v)) \/ Erase(s) \/ Advance(s)
  BY <1>6, <1>7 DEF Sample, Erase, Advance
<1> QED BY <1>3, <1>4, <1>5, <1>6, <1>7 DEF HeartNext, heartVars

(* Either sketch: the ledger is kept by the one that counts.               *)
Inductive == Shape /\ (at # Uart => HeartInductive)

LEMMA HeartPlaces == at # Uart /\ HeartNext => at' # Uart
BY DEF HeartNext, HeartEvent, Sample, SendFromBuffer, Erase, Advance, Then, Stopped, Uart, sketch

LEMMA AlwaysInductive == EitherSpec => []Inductive
<1>1. EitherInit => Inductive
  BY InitShape, InitLedger DEF EitherInit, Inductive, HeartInductive
<1>2. Inductive /\ [EitherNext]_heartVars => Inductive'
  <2> SUFFICES ASSUME Inductive, [EitherNext]_heartVars PROVE Inductive'
    OBVIOUS
  <2>1. CASE at # Uart /\ [HeartNext]_heartVars
    <3>1. HeartInductive'
      BY <2>1, HeartNextInductive DEF Inductive
    <3> QED BY <3>1 DEF Inductive, HeartInductive
  <2>2. CASE at = Uart /\ [Next]_vars /\ UNCHANGED sketch
    <3>1. Shape' /\ at' = at
      BY <2>2, NextShape DEF Inductive, sketch
    <3> QED BY <2>2, <3>1 DEF Inductive, Uart
  <2> QED BY <2>1, <2>2 DEF EitherNext, heartVars
<1> QED BY <1>1, <1>2, PTL DEF EitherSpec

-----------------------------------------------------------------------------
(* The theorems about the library *)

(***************************************************************************)
(* The variables keep their types: the command queue is never overfilled   *)
(* and the radio never holds more packets than it has credits for, with    *)
(* the client that counts credits and with the one that sends without      *)
(* (lib_aci.c:395-419, 594-604).                                           *)
(***************************************************************************)
THEOREM TypeCorrect == EitherSpec => []TypeOK
<1>1. Inductive => TypeOK
  BY DEF Inductive, Shape
<1> QED BY AlwaysInductive, <1>1, PTL

(***************************************************************************)
(* Handling the events brings the library's pipes to the radio's, whatever *)
(* was on its way when the link was lost, with either client, as long as   *)
(* the radio has not failed with pipes open and shown none since: the      *)
(* clients handle a hardware error without closing pipes                   *)
(* (lib_aci.c:323-345, 581-604).                                           *)
(***************************************************************************)
THEOREM PictureCatchesUp == EitherSpec => []PictureCurrent
<1>1. Shape => PictureCurrent
  <2>1. evs = << >> => NoneShown(evs)
    <3>1. Len(<< >>) = 0
      OBVIOUS
    <3> QED BY <3>1 DEF NoneShown
  <2> QED BY <2>1 DEF Shape, PictureOK, PictureCurrent, Handled
<1>2. Inductive => PictureCurrent
  BY <1>1 DEF Inductive
<1> QED BY AlwaysInductive, <1>2, PTL

(***************************************************************************)
(* The heart rate sketch counts right in every link, whatever the links    *)
(* before it left on its way, as long as the radio has had no hardware     *)
(* error (lib_aci.c:594-604, and .ino:402-427 of the sketch).              *)
(***************************************************************************)
THEOREM CreditsConserved == EitherSpec => []CreditsAccounted
<1>1. Inductive => CreditsAccounted
  <2> SUFFICES ASSUME HeartInductive, LinkKnown PROVE credits + Outstanding = Total
    BY DEF CreditsAccounted, Inductive
  <2>1. linked /\ ~Reported(evs, "connected") /\ Ledger
    BY DEF LinkKnown, HeartInductive
  <2>2. ~Begins(evs)
    BY <2>1 DEF Begins, Reported
  <2> QED BY <2>1, <2>2 DEF Ledger, CreditsOK, Fresh, Accounted
<1> QED BY AlwaysInductive, <1>1, PTL

-----------------------------------------------------------------------------
(***************************************************************************)
(* The rings of samples.  Of the slots counted from the first, so many are *)
(* full and the others empty, and the interrupt fills the first of those;  *)
(* the sample the loop has looked at stays first until it is erased.       *)
(***************************************************************************)
Used(s, n) ==
    /\ n \in 0 .. BuffSize[s]
    /\ insert[s] = (First(s) + n) % BuffSize[s]
    /\ \A m \in 0 .. BuffSize[s] - 1 : Nth(s, m) # NoData <=> m < n

Ring(s) == \E n \in 0 .. BuffSize[s] : Used(s, n)

RingTypes ==
    /\ DOMAIN buffer = Services
    /\ \A s \in Services :
          /\ DOMAIN buffer[s] = Slot(s)
          /\ \A k \in Slot(s) : buffer[s][k] \in Values[s] \cup {NoData}
          /\ insert[s] \in Slot(s) /\ fetch[s] \in Slot(s)
    /\ DOMAIN insert = Services /\ fetch \in [Services -> Nat] /\ DOMAIN taken = Services

Taking == \A s \in Services : at = <<"erase", s>> =>
              taken[s] = buffer[s][fetch[s]] /\ taken[s] # NoData

Rings == RingTypes /\ (\A s \in Services : Ring(s)) /\ Taking

LEMMA RingSizes ==
    ASSUME NEW s \in Services
    PROVE  BuffSize[s] \in Nat \ {0} /\ Slot(s) = 0 .. BuffSize[s] - 1 /\ NoData \notin Values[s]
BY HeartRateAssumption DEF Slot

LEMMA Wrapped ==
    ASSUME NEW b \in Nat \ {0}, NEW q \in 0 .. 1, NEW r \in 0 .. b - 1
    PROVE  (b * q + r) % b = r
OBVIOUS

\* The slots that follow one another from slot f.
LEMMA Around ==
    ASSUME NEW b \in Nat \ {0}, NEW f \in 0 .. b - 1, NEW m \in 0 .. b
    PROVE  (f + m) % b = IF f + m < b THEN f + m ELSE f + m - b
<1>1. CASE f + m < b
  <2>1. (b * 0 + (f + m)) % b = f + m
    BY <1>1, Wrapped
  <2>2. b * 0 + (f + m) = f + m
    OBVIOUS
  <2> QED BY <1>1, <2>1, <2>2
<1>2. CASE ~(f + m < b)
  <2>1. f + m - b \in 0 .. b - 1
    BY <1>2
  <2>2. (b * 1 + (f + m - b)) % b = f + m - b
    BY <2>1, Wrapped
  <2>3. b * 1 + (f + m - b) = f + m
    OBVIOUS
  <2> QED BY <1>2, <2>2, <2>3
<1> QED BY <1>1, <1>2

\* The n-th slot of a ring from slot f.
At(s, f, n) == (f + n) % BuffSize[s]

LEMMA Places ==
    ASSUME NEW s \in Services, NEW f \in Slot(s)
    PROVE  /\ At(s, f, 0) = f /\ At(s, f, BuffSize[s]) = f
           /\ \A m \in 0 .. BuffSize[s] : At(s, f, m) \in Slot(s)
           /\ \A k, m \in 0 .. BuffSize[s] - 1 : At(s, f, k) = At(s, f, m) => k = m
           /\ Following(s, f) \in Slot(s)
           /\ \A m \in 0 .. BuffSize[s] - 1 :
                 /\ At(s, Following(s, f), m) = At(s, f, m + 1)
                 /\ Following(s, At(s, f, m)) = At(s, f, m + 1)
<1> DEFINE b == BuffSize[s]
           P(g, m) == IF g + m < b THEN g + m ELSE g + m - b
           h == Following(s, f)
<1>1. b \in Nat \ {0} /\ f \in 0 .. b - 1 /\ Slot(s) = 0 .. b - 1
  BY RingSizes
<1>2. h \in 0 .. b - 1 /\ h = IF f = b - 1 THEN 0 ELSE f + 1
  BY <1>1 DEF Following
<1>3. \A g \in 0 .. b - 1 : \A m \in 0 .. b : At(s, g, m) = P(g, m)
  BY <1>1, Around DEF At
<1> HIDE DEF b, h
<1>4. At(s, f, 0) = f /\ At(s, f, b) = f
  BY <1>1, <1>3
<1>5. \A m \in 0 .. b : At(s, f, m) \in 0 .. b - 1
  BY <1>1, <1>3
<1>6. ASSUME NEW k \in 0 .. b - 1, NEW m \in 0 .. b - 1, At(s, f, k) = At(s, f, m)
      PROVE  k = m
  <2>1. P(f, k) = P(f, m)
    BY <1>1, <1>3, <1>6
  <2> QED BY <1>1, <2>1
<1>7. ASSUME NEW m \in 0 .. b - 1
      PROVE  /\ At(s, h, m) = At(s, f, m + 1)
             /\ Following(s, At(s, f, m)) = At(s, f, m + 1)
  <2>1. At(s, f, m) = P(f, m) /\ At(s, f, m + 1) = P(f, m + 1) /\ At(s, h, m) = P(h, m)
    <3>1. m \in 0 .. b /\ m + 1 \in 0 .. b
      BY <1>1
    <3> HIDE DEF P
    <3> QED BY <1>1, <1>2, <1>3, <3>1
  <2>2. P(h, m) = P(f, m + 1)
    BY <1>1, <1>2
  <2>3. Following(s, P(f, m)) = P(f, m + 1)
    BY <1>1 DEF Following, b
  <2> QED BY <2>1, <2>2, <2>3
<1> QED BY <1>1, <1>2, <1>4, <1>5, <1>6, <1>7 DEF b, h

LEMMA FirstSlot ==
    ASSUME RingTypes, NEW s \in Services
    PROVE  First(s) \in Slot(s)
<1>1. fetch[s] \in Slot(s)
  BY DEF RingTypes
<1>2. Following(s, fetch[s]) \in Slot(s)
  BY <1>1, Places
<1> QED BY <1>1, <1>2 DEF First

\* How many slots are full is what the ring counts.
LEMMA FilledIs ==
    ASSUME NEW s \in Services, NEW n, Used(s, n)
    PROVE  Filled(s) = n
<1> DEFINE b == BuffSize[s]
           Good(p) == /\ \A m \in 0 .. p - 1 : Nth(s, m) # NoData
                      /\ p < b => Nth(s, p) = NoData
<1>1. b \in Nat \ {0} /\ n \in 0 .. b
  BY RingSizes DEF Used
<1>2. \A m \in 0 .. b - 1 : Nth(s, m) # NoData <=> m < n
  BY DEF Used
<1> HIDE DEF b
<1>3. Good(n)
  <2>1. \A m \in 0 .. n - 1 : m \in 0 .. b - 1 /\ m < n
    BY <1>1
  <2>2. n < b => n \in 0 .. b - 1 /\ ~(n < n)
    BY <1>1
  <2> QED BY <1>2, <2>1, <2>2
<1>4. ASSUME NEW p \in 0 .. b, Good(p)
      PROVE  p = n
  <2>1. CASE p < n
    <3>1. p \in 0 .. b - 1
      BY <1>1, <2>1
    <3> QED BY <1>1, <1>2, <1>4, <2>1, <3>1
  <2>2. CASE n < p
    <3>1. n \in 0 .. p - 1 /\ n \in 0 .. b - 1 /\ ~(n < n)
      BY <1>1, <2>2
    <3> QED BY <1>2, <1>4, <3>1
  <2> QED BY <1>1, <2>1, <2>2
<1>5. Filled(s) = CHOOSE p \in 0 .. b : Good(p)
  BY DEF Filled, b
<1> HIDE DEF Good
<1>6. Filled(s) \in 0 .. b /\ Good(Filled(s))
  BY <1>1, <1>3, <1>5
<1> QED BY <1>4, <1>6

FilledTells == \A s \in Services : \A n \in 0 .. BuffSize[s] : Used(s, n) => Filled(s) = n

LEMMA FilledNow == FilledTells
BY FilledIs DEF FilledTells

LEMMA FilledNext == FilledTells'
BY FilledNow, PTL

LEMMA FilledAfter ==
    ASSUME NEW s \in Services, NEW n \in 0 .. BuffSize[s], Used(s, n)'
    PROVE  Filled(s)' = n
BY FilledNext DEF FilledTells

LEMMA ContentsAre ==
    ASSUME NEW s \in Services, NEW n, Used(s, n), Rings
    PROVE  /\ Contents(s) = [k \in 1 .. n |-> Nth(s, k - 1)]
           /\ n \in Nat /\ n <= BuffSize[s]
           /\ Contents(s) \in Seq(Values[s]) /\ Len(Contents(s)) = n
<1>1. BuffSize[s] \in Nat \ {0} /\ n \in 0 .. BuffSize[s] /\ First(s) \in Slot(s)
  BY RingSizes, FirstSlot DEF Used, Rings
<1>2. Contents(s) = [k \in 1 .. n |-> Nth(s, k - 1)]
  BY FilledIs DEF Contents
<1>3. \A k \in 1 .. n : k - 1 \in 0 .. BuffSize[s] - 1 /\ k - 1 \in 0 .. BuffSize[s] /\ k - 1 < n
  BY <1>1
<1>4. \A k \in 1 .. n : Nth(s, k - 1) # NoData
  BY <1>3 DEF Used
<1>5. \A k \in 1 .. n : Nth(s, k - 1) = buffer[s][At(s, First(s), k - 1)]
  BY DEF Nth, At
<1>6. \A k \in 1 .. n : At(s, First(s), k - 1) \in Slot(s)
  BY <1>1, <1>3, Places
<1>7. \A k \in 1 .. n : Nth(s, k - 1) \in Values[s]
  BY <1>4, <1>5, <1>6 DEF Rings, RingTypes
<1>8. [k \in 1 .. n |-> Nth(s, k - 1)] \in Seq(Values[s])
  BY <1>1, <1>7, IsASeq
<1>9. Len(Contents(s)) = n
  BY <1>1, <1>2
<1> QED BY <1>1, <1>2, <1>8, <1>9

-----------------------------------------------------------------------------
(* The steps, and what they are to a ring as a queue *)

Inserted(s) ==
    /\ Len(Contents(s)) < BuffSize[s]
    /\ \E v \in Values[s] : Contents(s)' = Append(Contents(s), v)
    /\ taken'[s] = taken[s]

Removed(s) ==
    /\ Contents(s) # << >>
    /\ taken'[s] = Head(Contents(s))
    /\ Contents(s)' = Tail(Contents(s))

LookedAt(s) ==
    /\ Contents(s) # << >>
    /\ taken'[s] = Head(Contents(s))
    /\ Contents(s)' = Contents(s)

Unmoved(s) == Contents(s)' = Contents(s) /\ taken'[s] = taken[s]

RingStep(s) == Inserted(s) \/ Removed(s) \/ LookedAt(s) \/ Unmoved(s)

\* A step that does not touch the ring.
LEMMA RingUntouched ==
    ASSUME NEW s \in Services, Ring(s), First(s)' = First(s),
           buffer'[s] = buffer[s], insert'[s] = insert[s]
    PROVE  Ring(s)' /\ Contents(s)' = Contents(s)
<1>1. \A m : Nth(s, m)' = Nth(s, m)
  BY DEF Nth
<1>2. PICK n \in 0 .. BuffSize[s] : Used(s, n)
  BY DEF Ring
<1>3. Used(s, n)'
  BY <1>1, <1>2 DEF Used
<1>4. Filled(s) = n /\ Filled(s)' = n
  BY <1>2, <1>3, FilledIs, FilledAfter
<1> QED BY <1>1, <1>3, <1>4 DEF Contents, Ring

LEMMA SampleOnRing ==
    ASSUME Rings, NEW s \in Services, NEW v \in Values[s], Sample(s, v)
    PROVE  Rings' /\ \A t \in Services : RingStep(t)
<1> DEFINE b == BuffSize[s]
           f == First(s)
           p == insert[s]
<1>1. /\ buffer[s][p] = NoData
      /\ buffer' = [buffer EXCEPT ![s][p] = v]
      /\ insert' = [insert EXCEPT ![s] = Following(s, @)]
      /\ UNCHANGED <<fetch, at, taken>>
  BY DEF Sample
<1>2. RingTypes /\ b \in Nat \ {0} /\ f \in Slot(s) /\ p \in Slot(s) /\ v # NoData
      /\ Slot(s) = 0 .. b - 1
  BY RingSizes, FirstSlot DEF Rings, RingTypes
<1>3. \A t : First(t)' = First(t)
  BY <1>1 DEF First
<1>4. \A t \in Services : t # s => buffer'[t] = buffer[t] /\ insert'[t] = insert[t]
  BY <1>1, <1>2 DEF RingTypes
<1>5. /\ DOMAIN buffer' = Services /\ DOMAIN insert' = Services
      /\ DOMAIN buffer'[s] = Slot(s) /\ buffer'[s][p] = v
      /\ \A k \in Slot(s) : k # p => buffer'[s][k] = buffer[s][k]
      /\ insert'[s] = Following(s, p)
  BY <1>1, <1>2 DEF RingTypes
<1>6. Following(s, p) \in Slot(s)
  BY <1>2, Places
<1>7. RingTypes'
  <2>1. \A k \in Slot(s) : buffer'[s][k] \in Values[s] \cup {NoData}
    BY <1>2, <1>5 DEF RingTypes
  <2> QED BY <1>1, <1>2, <1>4, <1>5, <1>6, <2>1 DEF RingTypes
<1>8. PICK n \in 0 .. b : Used(s, n)
  BY DEF Rings, Ring
<1>9. p = At(s, f, n) /\ \A m \in 0 .. b - 1 : Nth(s, m) # NoData <=> m < n
  BY <1>8 DEF Used, At
<1> HIDE DEF f, p
<1>9a. /\ At(s, f, 0) = f /\ At(s, f, b) = f
       /\ \A m \in 0 .. b : At(s, f, m) \in Slot(s)
       /\ \A k, m \in 0 .. b - 1 : At(s, f, k) = At(s, f, m) => k = m
       /\ \A m \in 0 .. b - 1 : Following(s, At(s, f, m)) = At(s, f, m + 1)
  <2>1. f \in Slot(s)
    BY <1>2
  <2> QED BY <2>1, Places
<1> HIDE DEF b
<1>10. n < b
  <2>1. CASE n = b
    <3>1. p = f /\ p = At(s, f, 0)
      BY <1>9, <1>9a, <2>1
    <3>2. Nth(s, 0) = NoData
      BY <1>1, <3>1 DEF Nth, At, f
    <3> QED BY <1>2, <1>9, <2>1, <3>2
  <2> QED BY <1>2, <2>1
<1>11. n \in 0 .. b - 1 /\ n + 1 \in 0 .. b
  BY <1>2, <1>10
<1>12. \A m \in 0 .. b - 1 : Nth(s, m)' = IF m = n THEN v ELSE Nth(s, m)
  <2> SUFFICES ASSUME NEW m \in 0 .. b - 1
               PROVE  Nth(s, m)' = IF m = n THEN v ELSE Nth(s, m)
    OBVIOUS
  <2>1. Nth(s, m) = buffer[s][At(s, f, m)] /\ Nth(s, m)' = buffer'[s][At(s, f, m)]
    BY <1>3 DEF Nth, At, f
  <2>2. At(s, f, m) \in Slot(s) /\ (At(s, f, m) = p => m = n)
    <3>1. m \in 0 .. b
      BY <1>2
    <3> QED BY <1>9, <1>11, <1>9a, <3>1
  <2> QED BY <1>5, <1>9, <2>1, <2>2
<1>13. Used(s, n + 1)'
  <2>1. insert'[s] = At(s, f, n + 1)
    BY <1>5, <1>9, <1>11, <1>9a
  <2>2. \A m \in 0 .. b - 1 : Nth(s, m)' # NoData <=> m < n + 1
    <3> SUFFICES ASSUME NEW m \in 0 .. b - 1 PROVE Nth(s, m)' # NoData <=> m < n + 1
      OBVIOUS
    <3>1. m < n + 1 <=> m < n \/ m = n
      BY <1>2, <1>11
    <3> QED BY <1>2, <1>9, <1>12, <3>1
  <2> QED BY <1>3, <1>11, <2>1, <2>2 DEF Used, At, b, f
<1>14. Taking'
  <2> SUFFICES ASSUME NEW t \in Services, at = <<"erase", t>>
               PROVE  taken[t] = buffer'[t][fetch[t]] /\ taken[t] # NoData
    BY <1>1 DEF Taking
  <2>1. taken[t] = buffer[t][fetch[t]] /\ taken[t] # NoData
    BY DEF Rings, Taking
  <2>2. CASE t # s
    BY <1>4, <2>1, <2>2
  <2>3. CASE t = s
    BY <1>1, <1>2, <1>5, <2>1, <2>3 DEF RingTypes, p
  <2> QED BY <2>2, <2>3
<1>15. \A t \in Services : t # s => Ring(t)' /\ Unmoved(t)
  BY <1>1, <1>3, <1>4, RingUntouched DEF Rings, Unmoved
<1>16. Rings'
  <2>1. Ring(s)'
    BY <1>11, <1>13 DEF Ring, b
  <2> QED BY <1>7, <1>14, <1>15, <2>1 DEF Rings
<1>17. Inserted(s)
  <2>1. /\ Contents(s) = [k \in 1 .. n |-> Nth(s, k - 1)]
        /\ Contents(s) \in Seq(Values[s]) /\ Len(Contents(s)) = n
    BY <1>8, ContentsAre
  <2>2. Contents(s)' = [k \in 1 .. n + 1 |-> Nth(s, k - 1)']
    <3>1. Filled(s)' = n + 1
      BY <1>11, <1>13, FilledAfter DEF b
    <3> QED BY <3>1 DEF Contents
  <2>3. Contents(s)' = Append(Contents(s), v)
    <3>1. \A k \in 1 .. n + 1 : k - 1 \in 0 .. b - 1 /\ (k - 1 = n <=> k = n + 1)
      BY <1>2, <1>11
    <3>2. \A k \in 1 .. n + 1 : k # n + 1 => k \in 1 .. n
      BY <1>11
    <3>3. Contents(s)' = [k \in 1 .. n + 1 |-> IF k = n + 1 THEN v ELSE Contents(s)[k]]
      BY <1>12, <2>1, <2>2, <3>1, <3>2
    <3> HIDE DEF b
    <3>4. Append(Contents(s), v) = [k \in 1 .. n + 1 |-> IF k = n + 1 THEN v ELSE Contents(s)[k]]
      BY <2>1 DEF Append
    <3> QED BY <3>3, <3>4
  <2> QED BY <1>1, <1>10, <2>1, <2>3 DEF Inserted, b
<1> QED BY <1>15, <1>16, <1>17 DEF RingStep

\* The places in the main loop are told apart.
LEMMA LoopPlaces ==
    ASSUME NEW s \in Services, NEW t \in Services
    PROVE  /\ Then(s) \in {<<"send">>, <<"event">>}
           /\ \A p \in {<<"loop">>, <<"send">>, <<"event">>, Stopped} :
                  p # <<"erase", t>> /\ p # <<"advance", t>>
           /\ <<"erase", s>> # <<"advance", t>>
           /\ <<"erase", s>> = <<"erase", t>> => s = t
           /\ <<"advance", s>> = <<"advance", t>> => s = t
BY DEF Then, Stopped

\* A step of which the rings do not notice anything.
LEMMA ElsewhereOnRing ==
    ASSUME Rings, UNCHANGED <<buffer, insert, taken>>,
           fetch' \in [Services -> Nat], \A s \in Services : fetch'[s] \in Slot(s),
           \A s \in Services : First(s)' = First(s),
           UNCHANGED <<at, fetch>> \/ \A s \in Services : at' # <<"erase", s>>
    PROVE  Rings' /\ \A s \in Services : Unmoved(s)
<1>1. RingTypes'
  BY DEF Rings, RingTypes
<1>2. \A s \in Services : Ring(s)' /\ Unmoved(s)
  BY RingUntouched DEF Rings, Unmoved
<1>3. Taking'
  BY DEF Rings, Taking
<1> QED BY <1>1, <1>2, <1>3 DEF Rings

LEMMA FetchRange == RingTypes => fetch \in [Services -> Nat] /\ \A s \in Services : fetch[s] \in Slot(s)
BY DEF RingTypes

LEMMA AdvanceOnRing ==
    ASSUME Rings, NEW s \in Services, Advance(s)
    PROVE  Rings' /\ \A t \in Services : Unmoved(t)
<1>1. /\ at = <<"advance", s>> /\ at' = Then(s)
      /\ fetch' = [fetch EXCEPT ![s] = Following(s, @)]
      /\ UNCHANGED <<buffer, insert, taken>>
  BY DEF Advance
<1>2. RingTypes /\ fetch \in [Services -> Nat] /\ \A t \in Services : fetch[t] \in Slot(t)
  BY FetchRange DEF Rings
<1>3. Following(s, fetch[s]) \in Slot(s) /\ Slot(s) \subseteq Nat
  BY <1>2, Places, RingSizes
<1>4. fetch' \in [Services -> Nat] /\ \A t \in Services : fetch'[t] \in Slot(t)
  BY <1>1, <1>2, <1>3
<1>5. \A t \in Services : First(t)' = First(t)
  <2> SUFFICES ASSUME NEW t \in Services PROVE First(t)' = First(t)
    OBVIOUS
  <2>1. at' # <<"advance", t>> /\ (at = <<"advance", t>> <=> t = s)
    BY <1>1, LoopPlaces
  <2> QED BY <1>1, <1>2, <2>1 DEF First
<1>6. \A t \in Services : at' # <<"erase", t>>
  BY <1>1, LoopPlaces
<1> QED BY <1>1, <1>4, <1>5, <1>6, ElsewhereOnRing

LEMMA SendOnRing ==
    ASSUME Rings, NEW s \in Services, SendFromBuffer(s)
    PROVE  Rings' /\ \A t \in Services : RingStep(t)
<1> DEFINE v == buffer[s][fetch[s]]
<1>1. /\ at \in {<<"loop">>, <<"send">>}
      /\ UNCHANGED <<buffer, insert, fetch>>
      /\ \/ v = NoData /\ at' = Then(s) /\ UNCHANGED taken
         \/ v # NoData /\ at' = <<"erase", s>> /\ taken' = [taken EXCEPT ![s] = v]
  BY DEF SendFromBuffer, Starts
<1>2. RingTypes /\ fetch \in [Services -> Nat] /\ \A t \in Services : fetch[t] \in Slot(t)
  BY FetchRange DEF Rings
<1>3. \A t \in Services : at # <<"advance", t>> /\ at' # <<"advance", t>>
  BY <1>1, LoopPlaces
<1>4. \A t \in Services : First(t) = fetch[t] /\ First(t)' = First(t)
  BY <1>1, <1>3 DEF First
<1>5. CASE v = NoData
  <2>1. UNCHANGED taken /\ \A t \in Services : at' # <<"erase", t>>
    BY <1>1, <1>5, LoopPlaces
  <2> QED BY <1>1, <1>2, <1>4, <2>1, ElsewhereOnRing DEF RingStep
<1>6. CASE v # NoData
  <2>1. at' = <<"erase", s>> /\ taken' = [taken EXCEPT ![s] = v]
    BY <1>1, <1>6
  <2>2. /\ DOMAIN taken' = Services /\ taken'[s] = v
        /\ \A t \in Services : t # s => taken'[t] = taken[t]
    BY <1>2, <2>1 DEF RingTypes
  <2>3. \A t \in Services : Ring(t)' /\ Contents(t)' = Contents(t)
    BY <1>1, <1>4, RingUntouched DEF Rings
  <2>4. \A t \in Services : at' = <<"erase", t>> => t = s
    BY <2>1, LoopPlaces
  <2>5. Taking'
    BY <1>1, <1>6, <2>2, <2>4 DEF Taking
  <2>6. RingTypes'
    BY <1>1, <1>2, <2>2 DEF RingTypes
  <2>7. LookedAt(s)
    <3>1. PICK n \in 0 .. BuffSize[s] : Used(s, n)
      BY DEF Rings, Ring
    <3>2. BuffSize[s] \in Nat \ {0} /\ At(s, fetch[s], 0) = fetch[s]
      BY <1>2, RingSizes, Places
    <3>3. Nth(s, 0) = v
      BY <1>4, <3>2 DEF Nth, At
    <3>4. 0 < n
      <4>1. 0 \in 0 .. BuffSize[s] - 1
        BY <3>2
      <4> QED BY <1>6, <3>1, <3>3, <4>1 DEF Used
    <3>5. /\ Contents(s) = [k \in 1 .. n |-> Nth(s, k - 1)] /\ n \in Nat
          /\ Contents(s) \in Seq(Values[s]) /\ Len(Contents(s)) = n
      BY <3>1, ContentsAre
    <3>6. Contents(s) # << >> /\ Head(Contents(s)) = Nth(s, 0)
      BY <3>4, <3>5
    <3> QED BY <2>2, <2>3, <3>3, <3>6 DEF LookedAt
  <2> QED BY <2>2, <2>3, <2>5, <2>6, <2>7 DEF Rings, RingStep, Unmoved
<1> QED BY <1>5, <1>6

LEMMA EraseOnRing ==
    ASSUME Rings, NEW s \in Services, Erase(s)
    PROVE  Rings' /\ \A t \in Services : RingStep(t)
<1> DEFINE b == BuffSize[s]
           f == fetch[s]
           g == Following(s, f)
<1>1. /\ at = <<"erase", s>> /\ at' = <<"advance", s>>
      /\ buffer' = [buffer EXCEPT ![s][f] = NoData]
      /\ UNCHANGED <<insert, fetch, taken>>
  BY DEF Erase
<1>2. RingTypes /\ b \in Nat \ {0} /\ f \in Slot(s) /\ Slot(s) = 0 .. b - 1 /\ NoData \notin Values[s]
  BY RingSizes DEF Rings, RingTypes
<1>3. /\ At(s, f, 0) = f /\ At(s, f, b) = f
      /\ \A m \in 0 .. b : At(s, f, m) \in Slot(s)
      /\ \A k, m \in 0 .. b - 1 : At(s, f, k) = At(s, f, m) => k = m
      /\ \A m \in 0 .. b - 1 : At(s, g, m) = At(s, f, m + 1)
  <2> HIDE DEF f
  <2>1. f \in Slot(s)
    BY <1>2
  <2> QED BY <2>1, Places
<1>4. /\ DOMAIN buffer' = Services /\ DOMAIN buffer'[s] = Slot(s) /\ buffer'[s][f] = NoData
      /\ \A k \in Slot(s) : k # f => buffer'[s][k] = buffer[s][k]
      /\ \A t \in Services : t # s => buffer'[t] = buffer[t]
  BY <1>1, <1>2 DEF RingTypes
<1>5. First(s) = f /\ First(s)' = g
  BY <1>1, LoopPlaces DEF First
<1>6. \A t \in Services : t # s => First(t)' = First(t)
  BY <1>1, LoopPlaces DEF First
<1>7. taken[s] = buffer[s][f] /\ buffer[s][f] # NoData
  BY <1>1 DEF Rings, Taking
<1>8. PICK n \in 0 .. b : Used(s, n)
  BY DEF Rings, Ring
<1>9. insert[s] = At(s, f, n) /\ \A m \in 0 .. b - 1 : Nth(s, m) # NoData <=> m < n
  BY <1>5, <1>8 DEF Used, At
<1>10. \A m \in 0 .. b - 1 : Nth(s, m) = buffer[s][At(s, f, m)] /\ Nth(s, m)' = buffer'[s][At(s, g, m)]
  BY <1>5 DEF Nth, At
<1> HIDE DEF b, f, g
<1>11. 0 \in 0 .. b - 1 /\ 0 < n /\ n - 1 \in 0 .. b /\ n - 1 \in 0 .. b - 1
  <2>1. 0 \in 0 .. b - 1
    BY <1>2
  <2>2. Nth(s, 0) # NoData
    BY <1>3, <1>7, <1>10, <2>1
  <2>3. 0 < n
    BY <1>9, <2>1, <2>2
  <2> QED BY <1>2, <2>1, <2>3
<1>12. \A m \in 0 .. b - 1 : m + 1 < b => Nth(s, m)' = Nth(s, m + 1)
  <2> SUFFICES ASSUME NEW m \in 0 .. b - 1, m + 1 < b PROVE Nth(s, m)' = Nth(s, m + 1)
    OBVIOUS
  <2>1. m + 1 \in 0 .. b - 1 /\ m + 1 \in 0 .. b /\ m + 1 # 0
    BY <1>2
  <2>2. At(s, f, m + 1) \in Slot(s) /\ At(s, f, m + 1) # f
    BY <1>3, <1>11, <2>1
  <2> QED BY <1>3, <1>4, <1>10, <2>1, <2>2
<1>13. Nth(s, b - 1)' = NoData
  <2>1. b - 1 \in 0 .. b - 1 /\ b - 1 + 1 = b
    BY <1>2
  <2>2. At(s, g, b - 1) = f
    BY <1>3, <2>1
  <2> QED BY <1>4, <1>10, <2>1, <2>2
<1>14. Used(s, n - 1)'
  <2>1. insert'[s] = At(s, g, n - 1)
    <3>1. n - 1 + 1 = n
      BY <1>11
    <3> QED BY <1>1, <1>3, <1>9, <1>11, <3>1
  <2>2. \A m \in 0 .. b - 1 : Nth(s, m)' # NoData <=> m < n - 1
    <3> SUFFICES ASSUME NEW m \in 0 .. b - 1 PROVE Nth(s, m)' # NoData <=> m < n - 1
      OBVIOUS
    <3>1. CASE m + 1 < b
      <4>1. m + 1 \in 0 .. b - 1 /\ (m + 1 < n <=> m < n - 1)
        BY <1>2, <1>11, <3>1
      <4> QED BY <1>9, <1>12, <3>1, <4>1
    <3>2. CASE ~(m + 1 < b)
      <4>1. m = b - 1 /\ ~(m < n - 1)
        BY <1>2, <1>11, <3>2
      <4> QED BY <1>13, <4>1
    <3> QED BY <3>1, <3>2
  <2> QED BY <1>5, <1>11, <2>1, <2>2 DEF Used, At, b
<1>15. RingTypes'
  <2>1. \A k \in Slot(s) : buffer'[s][k] \in Values[s] \cup {NoData}
    BY <1>2, <1>4 DEF RingTypes
  <2> QED BY <1>1, <1>2, <1>4, <2>1 DEF RingTypes
<1>16. Taking'
  BY <1>1, LoopPlaces DEF Taking
<1>17. \A t \in Services : t # s => Ring(t)' /\ Unmoved(t)
  BY <1>1, <1>4, <1>6, RingUntouched DEF Rings, Unmoved
<1>18. Rings'
  <2>1. Ring(s)'
    BY <1>11, <1>14 DEF Ring, b
  <2> QED BY <1>15, <1>16, <1>17, <2>1 DEF Rings
<1>19. Removed(s)
  <2>1. /\ Contents(s) = [k \in 1 .. n |-> Nth(s, k - 1)]
        /\ Contents(s) \in Seq(Values[s]) /\ Len(Contents(s)) = n
    BY <1>8, ContentsAre
  <2>2. Contents(s)' = [k \in 1 .. n - 1 |-> Nth(s, k - 1)']
    <3>1. Filled(s)' = n - 1
      BY <1>11, <1>14, FilledAfter DEF b
    <3> QED BY <3>1 DEF Contents
  <2>3. Contents(s) # << >> /\ Head(Contents(s)) = buffer[s][f]
    BY <1>3, <1>10, <1>11, <2>1
  <2>4. Contents(s)' = Tail(Contents(s))
    <3>1. \A k \in 1 .. n - 1 : k - 1 \in 0 .. b - 1 /\ k - 1 + 1 = k /\ k < b /\ k + 1 \in 1 .. n /\ k + 1 - 1 = k
      BY <1>2, <1>11
    <3>2. \A k \in 1 .. n - 1 : Nth(s, k - 1)' = Nth(s, k)
      BY <1>12, <3>1
    <3>3. \A k \in 1 .. n - 1 : Contents(s)[k + 1] = Nth(s, k)
      BY <2>1, <3>1
    <3>4. Tail(Contents(s)) = [k \in 1 .. n - 1 |-> Contents(s)[k + 1]]
      BY <2>1 DEF Tail
    <3>5. Contents(s)' = [k \in 1 .. n - 1 |-> Nth(s, k)]
      BY <2>2, <3>2
    <3>6. Tail(Contents(s)) = [k \in 1 .. n - 1 |-> Nth(s, k)]
      BY <3>3, <3>4
    <3> QED BY <3>5, <3>6
  <2> QED BY <1>1, <1>7, <2>3, <2>4 DEF Removed
<1> QED BY <1>17, <1>18, <1>19 DEF RingStep

LEMMA RingsInit == EitherInit => Rings /\ \A s \in Services : Contents(s) = << >>
<1> SUFFICES ASSUME EitherInit PROVE Rings /\ \A s \in Services : Contents(s) = << >>
  OBVIOUS
<1>1. /\ buffer = [s \in Services |-> [k \in Slot(s) |-> NoData]]
      /\ insert = [s \in Services |-> 0] /\ fetch = [s \in Services |-> 0]
      /\ at \in {<<"loop">>, Uart} /\ taken = [s \in Services |-> NoData]
  BY DEF EitherInit
<1>2. \A s \in Services : BuffSize[s] \in Nat \ {0} /\ Slot(s) = 0 .. BuffSize[s] - 1 /\ 0 \in Slot(s)
  BY RingSizes
<1>3. RingTypes
  BY <1>1, <1>2 DEF RingTypes
<1>4. Taking
  BY <1>1, LoopPlaces DEF Taking, Uart
<1>5. ASSUME NEW s \in Services PROVE Used(s, 0)
  <2>1. First(s) = 0
    BY <1>1, LoopPlaces DEF First, Uart
  <2>2. 0 \in Slot(s) /\ BuffSize[s] \in Nat \ {0}
    BY <1>2
  <2>3. /\ At(s, 0, 0) = 0
        /\ \A m \in 0 .. BuffSize[s] : At(s, 0, m) \in Slot(s)
    BY <2>2, Places
  <2>4. \A m \in 0 .. BuffSize[s] - 1 : Nth(s, m) = NoData
    <3> SUFFICES ASSUME NEW m \in 0 .. BuffSize[s] - 1 PROVE Nth(s, m) = NoData
      OBVIOUS
    <3>1. m \in 0 .. BuffSize[s]
      BY <2>2
    <3>2. Nth(s, m) = buffer[s][At(s, 0, m)] /\ At(s, 0, m) \in Slot(s)
      BY <2>1, <2>3, <3>1 DEF Nth, At
    <3> QED BY <1>1, <3>2
  <2>5. insert[s] = At(s, First(s), 0) /\ 0 \in 0 .. BuffSize[s]
    BY <1>1, <2>1, <2>2, <2>3
  <2>6. \A m \in 0 .. BuffSize[s] - 1 : Nth(s, m) # NoData <=> m < 0
    BY <2>2, <2>4
  <2> QED BY <2>5, <2>6 DEF Used, At
<1>6. \A s \in Services : Ring(s)
  BY <1>2, <1>5 DEF Ring
<1>7. Rings
  BY <1>3, <1>4, <1>6 DEF Rings
<1>8. ASSUME NEW s \in Services PROVE Contents(s) = << >>
  <2>1. Contents(s) = [k \in 1 .. 0 |-> Nth(s, k - 1)]
    BY <1>5, <1>7, ContentsAre
  <2> QED BY <2>1
<1> QED BY <1>7, <1>8

LEMMA RingsNext == Rings /\ [EitherNext]_heartVars => Rings' /\ \A s \in Services : RingStep(s)
<1> SUFFICES ASSUME Rings, [EitherNext]_heartVars
             PROVE  Rings' /\ \A s \in Services : RingStep(s)
  OBVIOUS
<1>1. fetch \in [Services -> Nat] /\ \A s \in Services : fetch[s] \in Slot(s)
  BY FetchRange DEF Rings
<1>2. CASE UNCHANGED sketch
  <2>1. UNCHANGED <<buffer, insert, fetch, at, taken>>
    BY <1>2 DEF sketch
  <2>2. \A s \in Services : First(s)' = First(s)
    BY <2>1 DEF First
  <2> QED BY <1>1, <2>1, <2>2, ElsewhereOnRing DEF RingStep
<1>3. CASE HeartEvent
  <2>1. /\ UNCHANGED <<buffer, insert, fetch, taken>>
        /\ at \in {<<"event">>, <<"loop">>} /\ at' \in {<<"loop">>, Stopped}
    BY <1>3 DEF HeartEvent
  <2>2. \A s \in Services : at # <<"advance", s>> /\ at' # <<"advance", s>> /\ at' # <<"erase", s>>
    BY <2>1, LoopPlaces
  <2>3. \A s \in Services : First(s)' = First(s)
    BY <2>1, <2>2 DEF First
  <2> QED BY <1>1, <2>1, <2>2, <2>3, ElsewhereOnRing DEF RingStep
<1>4. ASSUME NEW s \in Services, NEW v \in Values[s], Sample(s, v)
      PROVE  Rings' /\ \A t \in Services : RingStep(t)
  BY <1>4, SampleOnRing
<1>5. ASSUME NEW s \in Services, SendFromBuffer(s) \/ Erase(s) \/ Advance(s)
      PROVE  Rings' /\ \A t \in Services : RingStep(t)
  BY <1>5, SendOnRing, EraseOnRing, AdvanceOnRing DEF RingStep
<1> QED BY <1>2, <1>3, <1>4, <1>5 DEF EitherNext, HeartNext, heartVars

-----------------------------------------------------------------------------
(***************************************************************************)
(* Every sample that was inserted in a ring is taken once, in its turn,    *)
(* wherever the timer interrupt comes in the main loop: the rings of the   *)
(* heart rate sketch are queues of any size (heart_rate.cpp:74-113,        *)
(* battery.cpp:63-102).                                                    *)
(***************************************************************************)
THEOREM SamplesInTurn == EitherSpec => SamplesFifo
<1>1. EitherInit => Rings /\ HeartRing!Init /\ BatteryRing!Init
  BY RingsInit DEF HeartRing!Init, BatteryRing!Init, EitherInit, Services
<1>2. Rings /\ [EitherNext]_heartVars =>
          /\ Rings'
          /\ [HeartRing!Next]_<<Contents(Heart), taken[Heart]>>
          /\ [BatteryRing!Next]_<<Contents(Battery), taken[Battery]>>
  <2> SUFFICES ASSUME Rings, [EitherNext]_heartVars
               PROVE  /\ Rings'
                      /\ [HeartRing!Next]_<<Contents(Heart), taken[Heart]>>
                      /\ [BatteryRing!Next]_<<Contents(Battery), taken[Battery]>>
    OBVIOUS
  <2>1. Rings' /\ RingStep(Heart) /\ RingStep(Battery)
    BY RingsNext DEF Services
  <2>2. [HeartRing!Next]_<<Contents(Heart), taken[Heart]>>
    BY <2>1 DEF RingStep, Inserted, Removed, LookedAt, Unmoved,
                Services, HeartRing!Next, HeartRing!Put, HeartRing!Take, HeartRing!Peek
  <2>3. [BatteryRing!Next]_<<Contents(Battery), taken[Battery]>>
    BY <2>1 DEF RingStep, Inserted, Removed, LookedAt, Unmoved,
                Services, BatteryRing!Next, BatteryRing!Put, BatteryRing!Take, BatteryRing!Peek
  <2> QED BY <2>1, <2>2, <2>3
<1> QED BY <1>1, <1>2, PTL DEF EitherSpec, SamplesFifo, HeartRing!Spec, BatteryRing!Spec
=============================================================================
