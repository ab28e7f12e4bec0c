---------------------------- MODULE EncoderProof ---------------------------
(***************************************************************************)
(* Proofs about Encoder: its types; that the counters of wheels that turn  *)
(* too fast, or are stopped and started, run ahead of them by no more than *)
(* the levels at the start explain; and that slow wheels are counted       *)
(* exactly.                                                                *)
(***************************************************************************)
EXTENDS Encoder, TLAPS

-----------------------------------------------------------------------------
(* Counting modulo a word *)

LEMMA ModUnique ==
    ASSUME NEW w \in Nat \ {0}, NEW q \in Nat, NEW r \in 0 .. w - 1
    PROVE  (w * q + r) % w = r
OBVIOUS

LEMMA ModStep ==
    ASSUME NEW w \in Nat \ {0}, NEW n \in Nat
    PROVE  ((n % w) + 1) % w = (n + 1) % w
<1> DEFINE r == n % w
           q == n \div w
<1>1. r \in 0 .. w - 1 /\ q \in Nat /\ n = w * q + r
  OBVIOUS
<1>2. CASE r + 1 < w
  <2>1. r + 1 \in 0 .. w - 1 /\ n + 1 = w * q + (r + 1)
    BY <1>1, <1>2
  <2>2. (n + 1) % w = r + 1
    BY <1>1, <2>1, ModUnique
  <2>3. (r + 1) % w = r + 1
    BY <1>1, <1>2
  <2> QED BY <2>2, <2>3
<1>3. CASE r + 1 = w
  <2>1. n + 1 = w * (q + 1) + 0 /\ q + 1 \in Nat /\ 0 \in 0 .. w - 1
    <3> HIDE DEF q, r
    <3> QED BY <1>1, <1>3
  <2>2. (n + 1) % w = 0
    <3> HIDE DEF q, r
    <3> QED BY ONLY <2>1, ModUnique, w \in Nat \ {0}
  <2>3. (r + 1) % w = 0
    BY <1>3
  <2> QED BY <2>2, <2>3
<1> QED BY <1>1, <1>2, <1>3

LEMMA WordIs == Byte \in Nat \ {0} /\ Word \in Nat \ {0}
<1>1. Byte \in Nat \ {0}
  BY EncoderAssumption
<1>2. Byte * Byte \in Nat \ {0}
  BY <1>1
<1> QED BY <1>1, <1>2 DEF Word

(***************************************************************************)
(* The routine counts up by one, modulo a word, or not at all.             *)
(***************************************************************************)
LEMMA IncrementedType ==
    ASSUME NEW e \in Encoders, counter[e] \in 0 .. Word - 1
    PROVE  Incremented(e) \in 0 .. Word - 1 /\ Incremented(e) <= counter[e] + 1
<1>1. (counter[e] + 1) % Word \in 0 .. Word - 1 /\ (counter[e] + 1) % Word <= counter[e] + 1
  BY WordIs
<1> QED BY <1>1 DEF Incremented

-----------------------------------------------------------------------------
(* The types *)

Types ==
    /\ slow \in BOOLEAN /\ flagged \in BOOLEAN
    /\ isr \in {"off", "on"} /\ (isr = "off" => unread = {} /\ current = {})
    /\ high \subseteq Pins /\ unread \subseteq Pins /\ current \subseteq Pins \ unread
    /\ last \in [Encoders -> SUBSET Pins]
    /\ \A e \in Encoders : last[e] \subseteq PinsOf(e)
    /\ counter \in [Encoders -> 0 .. Word - 1]
    /\ edges \in [Encoders -> Nat]
    /\ target \in Encoders

LEMMA InitTypes == Init => Types
<1> SUFFICES ASSUME Init PROVE Types
  OBVIOUS
<1>1. counter \in [Encoders -> 0 .. Word - 1] /\ edges \in [Encoders -> Nat]
  BY WordIs DEF Init
<1>2. last \in [Encoders -> SUBSET Pins] /\ \A e \in Encoders : last[e] = {}
  BY DEF Init
<1>3. slow \in BOOLEAN /\ high \subseteq Pins
  BY DEF Init
<1> QED BY <1>1, <1>2, <1>3 DEF Init, Types, Encoders

LEMMA ByteCells ==
    ASSUME NEW n \in 0 .. Word - 1
    PROVE  /\ (n \div Byte) * Byte \in 0 .. Word - 1 /\ n % Byte \in 0 .. Word - 1
           /\ ((n \div Byte) * Byte) % Byte = 0
<1>1. n \div Byte \in Nat
  BY WordIs
<1>2. ((n \div Byte) * Byte) % Byte = 0
  BY WordIs, <1>1
<1>3. n = (Byte * (n \div Byte)) + (n % Byte) /\ n % Byte \in 0 .. Byte - 1
  BY WordIs
<1>4. (n \div Byte) * Byte \in Nat /\ (n \div Byte) * Byte <= n /\ n % Byte <= n
  BY WordIs, <1>1, <1>3
<1> QED BY WordIs, <1>2, <1>3, <1>4

LEMMA NextTypes == Types /\ [Next]_vars => Types'
<1> SUFFICES ASSUME Types, [Next]_vars PROVE Types'
  OBVIOUS
<1> USE DEF Types, world, routine, main
<1>1. CASE \E e \in Encoders : \E p \in PinsOf(e) : Edge(e, p)
  <2>1. flagged' \in BOOLEAN
    BY <1>1 DEF Edge
  <2>2. edges' \in [Encoders -> Nat]
    BY <1>1 DEF Edge
  <2>3. high' \subseteq Pins
    BY <1>1 DEF Edge, Toggle, Pins
  <2> QED BY <1>1, <2>1, <2>2, <2>3 DEF Edge, history
<1>2. CASE IsrStart \/ \E p \in Pins : IsrRead(p)
  BY <1>2 DEF IsrStart, IsrRead, history
<1>3. CASE IsrCount
  <2>1. counter' \in [Encoders -> 0 .. Word - 1]
    BY <1>3, IncrementedType DEF IsrCount
  <2>2. last' \in [Encoders -> SUBSET Pins] /\ \A e \in Encoders : last'[e] \subseteq PinsOf(e)
    BY <1>3 DEF IsrCount
  <2> QED BY <1>3, <2>1, <2>2 DEF IsrCount, history
<1>4. CASE GetHigh
  BY <1>4 DEF GetHigh, history
<1>5. CASE ResetHigh
  BY <1>5, ByteCells DEF ResetHigh, history
<1>6. CASE ResetLast
  BY <1>6 DEF ResetLast, history
<1>7. CASE \E e \in Encoders : GetLow(e) \/ ResetLow(e) \/ Start(e) \/ Stop(e)
  BY <1>7, ByteCells DEF GetLow, ResetLow, Start, Stop, history
<1>8. CASE UNCHANGED vars
  BY <1>8 DEF vars, history
<1> QED BY <1>1, <1>2, <1>3, <1>4, <1>5, <1>6, <1>7, <1>8 DEF Next

(***************************************************************************)
(* In every reachable state the variables the counting reads have their    *)
(* types: counters fit a word (encoder.h, encoder.c:70-83).                *)
(***************************************************************************)
THEOREM TypesHold == Spec => []Types
BY InitTypes, NextTypes, PTL DEF Spec

-----------------------------------------------------------------------------
(* Pins *)

LEMMA PinsApart ==
    /\ A("left") # B("left") /\ A("left") # A("right") /\ A("left") # B("right")
    /\ B("left") # A("right") /\ B("left") # B("right") /\ A("right") # B("right")
BY DEF A, B

LEMMA PinsApartOf ==
    \A e, d \in Encoders : /\ A(e) # B(e)
                           /\ e # d => PinsOf(e) \cap PinsOf(d) = {}
BY PinsApart DEF Encoders, PinsOf

\* The levels at the pin p in two level sets, compared.
Differ(s, t, p) == IF p \in s <=> p \in t THEN 0 ELSE 1

LEMMA DifferIs ==
    ASSUME NEW s, NEW t, NEW p
    PROVE  /\ Differ(s, t, p) \in {0, 1}
           /\ Differ(s, t, p) <= Differ(s, Toggle(t, p), p) + 1
           /\ Differ(s, Toggle(t, p), p) <= Differ(s, t, p) + 1
           /\ \A q : q # p => Differ(s, Toggle(t, p), q) = Differ(s, t, q)
BY DEF Differ, Toggle

-----------------------------------------------------------------------------
(* What the routine can still count *)

LastState == last["left"] \cup last["right"]

\* The routine has read the pin p.
Seen(p) == isr = "on" /\ p \notin unread

\* What p can still add without another edge, and what it has done since it was
\* read.
Waits(p) == IF Seen(p) THEN Differ(LastState, current, p) + Differ(current, high, p)
                       ELSE Differ(LastState, high, p)
Missed(p) == IF Seen(p) THEN Differ(current, high, p) ELSE 0

Pending(e) == Waits(A(e)) + Waits(B(e))
Later(e) == Missed(A(e)) + Missed(B(e))

\* The routine has been called, or is running.
Called == IF flagged \/ isr = "on" THEN 1 ELSE 0

\* What the levels at the start add to the edges of e.
Early(e) == IF began \cap PinsOf(e) = {} THEN 0 ELSE 1

(***************************************************************************)
(* Before the routine has counted for the first time, lastState need not   *)
(* show the levels.  But it is an edge that calls the routine, and the     *)
(* routine reads each pin after that edge.                                 *)
(***************************************************************************)
First ==
    /\ \A e \in Encoders : /\ counter[e] = 0 /\ last[e] = {}
                           /\ Later(e) <= edges[e]
                           /\ Early(e) = 0 => Pending(e) <= edges[e]
    /\ Later("left") + Later("right") + Called <= edges["left"] + edges["right"]

(***************************************************************************)
(* After that, what can be counted is what edges have changed.             *)
(***************************************************************************)
Settled ==
    /\ \A e \in Encoders : counter[e] + Pending(e) <= edges[e] + Early(e)
    /\ counter["left"] + Pending("left") + counter["right"] + Pending("right")
           <= edges["left"] + edges["right"]

Ahead == ~slow => First \/ Settled

LEMMA PinTypes ==
    \A p : /\ Waits(p) \in Nat /\ Missed(p) \in Nat /\ Waits(p) <= 2
           /\ ~Seen(p) => Missed(p) = 0
<1> SUFFICES ASSUME NEW p
             PROVE  /\ Waits(p) \in Nat /\ Missed(p) \in Nat /\ Waits(p) <= 2
                    /\ ~Seen(p) => Missed(p) = 0
  OBVIOUS
<1>1. /\ Differ(LastState, current, p) \in {0, 1} /\ Differ(current, high, p) \in {0, 1}
      /\ Differ(LastState, high, p) \in {0, 1}
  BY DifferIs
<1> QED BY <1>1 DEF Waits, Missed

LEMMA AheadTypes ==
    /\ \A e \in Encoders : Pending(e) \in Nat /\ Later(e) \in Nat /\ Early(e) \in {0, 1}
    /\ Called \in {0, 1}
BY PinTypes DEF Pending, Later, Early, Called

LEMMA InitAhead == Init => Ahead
<1> SUFFICES ASSUME Init PROVE First
  BY DEF Ahead
<1>1. /\ isr = "off" /\ ~flagged /\ began = high
      /\ \A e \in Encoders : last[e] = {} /\ counter[e] = 0 /\ edges[e] = 0
  BY DEF Init
<1>2. \A p : Missed(p) = 0
  BY <1>1 DEF Missed, Seen
<1>3. \A e \in Encoders : Later(e) = 0
  BY <1>2 DEF Later
<1>4. Called = 0
  BY <1>1 DEF Called
<1>5. ASSUME NEW e \in Encoders, Early(e) = 0 PROVE Pending(e) = 0
  <2>1. high \cap PinsOf(e) = {} /\ LastState = {}
    BY <1>1, <1>5 DEF Early, LastState, Encoders
  <2>2. A(e) \notin high /\ B(e) \notin high /\ ~Seen(A(e)) /\ ~Seen(B(e))
    BY <1>1, <2>1 DEF PinsOf, Seen
  <2> QED BY <2>1, <2>2 DEF Pending, Waits, Differ
<1> QED BY <1>1, <1>3, <1>4, <1>5 DEF First, Encoders

-----------------------------------------------------------------------------
(* The steps of the routine *)

\* An edge makes at most one more of either kind, at its own pin.
LEMMA EdgeAt ==
    ASSUME NEW p, high' = Toggle(high, p), UNCHANGED <<routine, last>>
    PROVE  /\ Waits(p)' <= Waits(p) + 1 /\ Missed(p)' <= Missed(p) + 1
           /\ \A q : q # p => Waits(q)' = Waits(q) /\ Missed(q)' = Missed(q)
           /\ isr = "off" => Missed(p)' = 0
<1>1. \A q : Seen(q)' = Seen(q) /\ LastState' = LastState /\ current' = current
  BY DEF Seen, LastState, routine
<1>2. /\ Differ(LastState, current, p) \in {0, 1} /\ Differ(current, high, p) \in {0, 1}
      /\ Differ(LastState, high, p) \in {0, 1}
      /\ Differ(current, Toggle(high, p), p) \in {0, 1}
      /\ Differ(LastState, Toggle(high, p), p) \in {0, 1}
      /\ Differ(current, Toggle(high, p), p) <= Differ(current, high, p) + 1
      /\ Differ(LastState, Toggle(high, p), p) <= Differ(LastState, high, p) + 1
  BY DifferIs
<1>3. \A q : q # p => /\ Differ(current, Toggle(high, p), q) = Differ(current, high, q)
                      /\ Differ(LastState, Toggle(high, p), q) = Differ(LastState, high, q)
  BY DEF Differ, Toggle
<1>4. \A q : /\ Waits(q)' = IF Seen(q) THEN Differ(LastState, current, q)
                                             + Differ(current, Toggle(high, p), q)
                                       ELSE Differ(LastState, Toggle(high, p), q)
             /\ Missed(q)' = IF Seen(q) THEN Differ(current, Toggle(high, p), q) ELSE 0
  BY <1>1 DEF Waits, Missed, Differ, Seen, LastState
<1>5. Waits(p)' <= Waits(p) + 1 /\ Missed(p)' <= Missed(p) + 1
  BY <1>2, <1>4 DEF Waits, Missed
<1>6. \A q : q # p => Waits(q)' = Waits(q) /\ Missed(q)' = Missed(q)
  BY <1>3, <1>4 DEF Waits, Missed
<1>7. isr = "off" => Missed(p)' = 0
  BY <1>4 DEF Seen
<1> QED BY <1>5, <1>6, <1>7

\* Reading a pin changes nothing: it is read as it is.
LEMMA ReadAt ==
    ASSUME Types, IsrStart \/ \E p \in Pins : IsrRead(p)
    PROVE  /\ \A q \in Pins : Waits(q)' = Waits(q) /\ Missed(q)' = Missed(q)
           /\ Called' = Called
<1>1. ASSUME NEW q \in Pins PROVE Waits(q)' = Waits(q) /\ Missed(q)' = Missed(q)
  <2>1. CASE IsrStart
    <3>1. ~Seen(q) /\ ~Seen(q)' /\ UNCHANGED <<high, last>>
      BY <2>1 DEF IsrStart, Seen, world
    <3> QED BY <3>1 DEF Waits, Missed, Differ, LastState
  <2>2. ASSUME NEW p \in Pins, IsrRead(p) PROVE Waits(q)' = Waits(q) /\ Missed(q)' = Missed(q)
    <3>1. /\ isr = "on" /\ isr' = "on" /\ p \in unread /\ unread' = unread \ {p}
          /\ current' = current \cup (high \cap {p}) /\ UNCHANGED <<high, last>>
      BY <2>2 DEF IsrRead, world
    <3>2. p \notin current
      BY <3>1 DEF Types
    <3>3. CASE q = p
      <4>1. ~Seen(q) /\ Seen(q)'
        BY <3>1, <3>3 DEF Seen
      <4>2. q \in current' <=> q \in high
        BY <3>1, <3>2, <3>3
      <4> QED BY <3>1, <4>1, <4>2 DEF Waits, Missed, Differ, LastState
    <3>4. CASE q # p
      <4>1. Seen(q)' = Seen(q) /\ (q \in current' <=> q \in current)
        BY <3>1, <3>4 DEF Seen
      <4> QED BY <3>1, <4>1 DEF Waits, Missed, Differ, LastState
    <3> QED BY <3>3, <3>4
  <2> QED BY <2>1, <2>2
<1>2. Called' = Called
  BY DEF Called, IsrStart, IsrRead
<1> QED BY <1>1, <1>2

\* What has changed at p since the routine ran last.
Moved(p) == Differ(LastState, current, p)

\* At most one encoder counts, and what it counts is a change of its pins.
Counts(e) == IF \E p \in PinsOf(e) : Changed = {p} THEN 1 ELSE 0

LEMMA CountsOne ==
    ASSUME Types
    PROVE  /\ Counts("left") + Counts("right") <= 1
           /\ \A e \in Encoders :
                 /\ Counts(e) \in {0, 1}
                 /\ Counts(e) <= Moved(A(e)) + Moved(B(e))
                 /\ Incremented(e) \in Nat /\ Incremented(e) <= counter[e] + Counts(e)
<1>1. PinsOf("left") \cap PinsOf("right") = {}
  BY PinsApartOf DEF Encoders
<1>2. \A e \in Encoders : Counts(e) \in {0, 1}
  BY DEF Counts
<1>3. ~(Counts("left") = 1 /\ Counts("right") = 1)
  BY <1>1 DEF Counts
<1>4. Counts("left") + Counts("right") <= 1
  BY <1>2, <1>3 DEF Encoders
<1>5. ASSUME NEW e \in Encoders PROVE Counts(e) <= Moved(A(e)) + Moved(B(e))
  <2>1. Moved(A(e)) \in {0, 1} /\ Moved(B(e)) \in {0, 1}
    BY DifferIs DEF Moved
  <2>2. ASSUME NEW p \in PinsOf(e), Changed = {p} PROVE Moved(p) = 1
    BY <2>2 DEF Changed, Moved, Differ, LastState
  <2>3. Counts(e) = 1 => Moved(A(e)) = 1 \/ Moved(B(e)) = 1
    BY <2>2 DEF Counts, PinsOf
  <2> QED BY <1>2, <2>1, <2>3
<1>6. ASSUME NEW e \in Encoders
      PROVE  Incremented(e) \in Nat /\ Incremented(e) <= counter[e] + Counts(e)
  <2>1. counter[e] \in 0 .. Word - 1 /\ Word \in Nat \ {0}
    BY WordIs DEF Types
  <2>2. Incremented(e) \in 0 .. Word - 1 /\ Incremented(e) <= counter[e] + 1
    BY <2>1, IncrementedType
  <2>3. Counts(e) = 0 => Incremented(e) = counter[e]
    BY DEF Counts, Incremented
  <2> QED BY <1>2, <2>1, <2>2, <2>3
<1> QED BY <1>2, <1>4, <1>5, <1>6

\* When the routine has counted, only what it has missed is left.
LEMMA CountAt ==
    ASSUME Types, IsrCount, NEW e \in Encoders
    PROVE  /\ Pending(e) = Moved(A(e)) + Moved(B(e)) + Later(e)
           /\ Pending(e)' = Later(e) /\ Called = 1
<1>1. /\ isr = "on" /\ unread = {} /\ isr' = "off" /\ high' = high
      /\ last' = [d \in Encoders |-> current \cap PinsOf(d)]
  BY DEF IsrCount, world
<1>2. ASSUME NEW p \in PinsOf(e)
      PROVE  Waits(p) = Moved(p) + Missed(p) /\ Waits(p)' = Missed(p)
  <2>1. Seen(p) /\ ~Seen(p)'
    BY <1>1 DEF Seen
  <2>2. LastState' = current
    <3>1. LastState' = (current \cap PinsOf("left")) \cup (current \cap PinsOf("right"))
      BY <1>1 DEF LastState, Encoders
    <3>2. current \subseteq PinsOf("left") \cup PinsOf("right")
      BY DEF Types, Pins, Encoders
    <3> QED BY <3>1, <3>2
  <2>3. Waits(p)' = Differ(current, high, p)
    BY <1>1, <2>1, <2>2 DEF Waits, Differ
  <2> QED BY <2>1, <2>3 DEF Waits, Missed, Moved
<1>3. /\ Moved(A(e)) \in {0, 1} /\ Moved(B(e)) \in {0, 1}
      /\ Missed(A(e)) \in Nat /\ Missed(B(e)) \in Nat
  BY DifferIs, PinTypes DEF Moved
<1>4. A(e) \in PinsOf(e) /\ B(e) \in PinsOf(e)
  BY DEF PinsOf
<1> QED BY <1>1, <1>2, <1>3, <1>4 DEF Pending, Later, Called

-----------------------------------------------------------------------------
(* The counters and the edges *)

\* Only the application of slow wheels resets a counter.
Resets == ~slow => pc \notin {"resetHigh", "resetLast"}

LEMMA ResetsOnlySlow == (Init => Resets) /\ (Resets /\ [Next]_vars => Resets')
<1>1. Init => Resets
  BY DEF Init, Resets
<1>2. Resets /\ [Next]_vars => Resets'
  BY DEF Resets, Next, vars, history, world, routine, main, Main, Edge, IsrStart, IsrRead,
         IsrCount, GetHigh, ResetHigh, ResetLast, GetLow, ResetLow, Start, Stop
<1> QED BY <1>1, <1>2

\* While an action leaves what is pending alone, so does the invariant.
LEMMA AheadKept ==
    /\ Ahead /\ UNCHANGED <<slow, began, last, counter, edges>> /\ Called' = Called
    /\ \A q \in Pins : Waits(q)' = Waits(q) /\ Missed(q)' = Missed(q)
    => Ahead'
<1> SUFFICES ASSUME Ahead, UNCHANGED <<slow, began, last, counter, edges>>, Called' = Called,
                    \A q \in Pins : Waits(q)' = Waits(q) /\ Missed(q)' = Missed(q)
             PROVE  Ahead'
  OBVIOUS
<1>1. ASSUME NEW e \in Encoders
      PROVE  Pending(e)' = Pending(e) /\ Later(e)' = Later(e) /\ Early(e)' = Early(e)
  <2>1. A(e) \in Pins /\ B(e) \in Pins
    BY DEF Pins, PinsOf
  <2> QED BY <2>1 DEF Pending, Later, Early
<1>2. First => First'
  BY <1>1 DEF First, Encoders
<1>3. Settled => Settled'
  BY <1>1 DEF Settled, Encoders
<1> QED BY <1>2, <1>3 DEF Ahead

\* An edge of f is one more for f and, at most, one more to count.
LEMMA EdgeAhead ==
    ASSUME Types, Ahead, ~slow, NEW f \in Encoders, NEW p \in PinsOf(f), Edge(f, p)
    PROVE  Ahead'
<1>1. /\ high' = Toggle(high, p) /\ UNCHANGED <<slow, began, routine, last, counter>>
      /\ edges' = [edges EXCEPT ![f] = @ + 1]
      /\ UNCHANGED isr
  BY DEF Edge, history, routine
<1>2. /\ \A e \in Encoders : /\ counter[e] \in Nat /\ edges[e] \in Nat /\ Pending(e) \in Nat
                             /\ Later(e) \in Nat /\ Early(e) \in {0, 1}
      /\ Called \in {0, 1}
  BY WordIs, AheadTypes DEF Types
<1>3. ASSUME NEW e \in Encoders
      PROVE  /\ edges'[e] = edges[e] + (IF e = f THEN 1 ELSE 0)
             /\ Early(e)' = Early(e) /\ Pending(e)' \in Nat /\ Later(e)' \in Nat
             /\ Pending(e)' <= Pending(e) + (IF e = f THEN 1 ELSE 0)
             /\ Later(e)' <= Later(e) + (IF e = f THEN 1 ELSE 0)
             /\ isr = "off" => Later(e)' = 0
  <2>1. edges'[e] = edges[e] + (IF e = f THEN 1 ELSE 0)
    BY <1>1 DEF Types
  <2>2. Early(e)' = Early(e)
    BY <1>1 DEF Early
  <2>3. /\ Waits(p)' <= Waits(p) + 1 /\ Missed(p)' <= Missed(p) + 1
        /\ \A q : q # p => Waits(q)' = Waits(q) /\ Missed(q)' = Missed(q)
        /\ isr = "off" => Missed(p)' = 0
    BY <1>1, EdgeAt
  <2>4. \A q : Waits(q) \in Nat /\ Missed(q) \in Nat /\ (isr = "off" => Missed(q) = 0)
    BY PinTypes DEF Seen
  <2>5. Waits(p)' \in Nat /\ Missed(p)' \in Nat
    <3>1. /\ Differ(LastState, current, p)' \in {0, 1} /\ Differ(current, high, p)' \in {0, 1}
          /\ Differ(LastState, high, p)' \in {0, 1}
      BY DEF Differ
    <3> QED BY <3>1 DEF Waits, Missed
  <2>6. CASE e # f
    <3>1. A(e) # p /\ B(e) # p
      BY <2>6, PinsApartOf DEF PinsOf
    <3> QED BY <2>1, <2>2, <2>3, <2>4, <2>6, <3>1 DEF Pending, Later
  <2>7. CASE e = f /\ p = A(e)
    <3>1. B(e) # p
      BY <2>7, PinsApartOf
    <3> QED BY <2>1, <2>2, <2>3, <2>4, <2>5, <2>7, <3>1 DEF Pending, Later
  <2>8. CASE e = f /\ p = B(e)
    <3>1. A(e) # p
      BY <2>8, PinsApartOf
    <3> QED BY <2>1, <2>2, <2>3, <2>4, <2>5, <2>8, <3>1 DEF Pending, Later
  <2> QED BY <2>6, <2>7, <2>8 DEF PinsOf
<1>4. First => First'
  <2> SUFFICES ASSUME First PROVE First'
    OBVIOUS
  <2>1. \A e \in Encoders : /\ counter'[e] = 0 /\ last'[e] = {}
                            /\ Later(e)' <= edges'[e]
                            /\ Early(e)' = 0 => Pending(e)' <= edges'[e]
    BY <1>1, <1>2, <1>3 DEF First
  <2>2. Called' \in {0, 1} /\ (Called = 1 => Called' = 1) /\ (Called = 0 => isr = "off")
    <3>1. (flagged => flagged') /\ isr' = isr /\ isr \in {"off", "on"}
      BY DEF Edge, routine, Types
    <3> QED BY <3>1 DEF Called
  <2>3. Later("left")' + Later("right")' + Called' <= edges'["left"] + edges'["right"]
    <3>1. \A e \in Encoders : e = "left" \/ e = "right"
      BY DEF Encoders
    <3>2. "left" \in Encoders /\ "right" \in Encoders
      BY DEF Encoders
    <3>3. CASE Called = 0
      BY <1>2, <1>3, <2>2, <3>1, <3>2, <3>3 DEF First
    <3>4. CASE Called = 1
      BY <1>2, <1>3, <2>2, <3>1, <3>2, <3>4 DEF First
    <3> QED BY <2>2, <3>3, <3>4, <1>2
  <2> QED BY <2>1, <2>3 DEF First
<1>5. Settled => Settled'
  <2>1. "left" \in Encoders /\ "right" \in Encoders /\ (f = "left" \/ f = "right")
    BY DEF Encoders
  <2> QED BY <1>1, <1>2, <1>3, <2>1 DEF Settled
<1> QED BY <1>4, <1>5 DEF Ahead

\* The first run of the routine may count what was never an edge of that wheel,
\* but then another edge called it.
LEMMA CountAhead ==
    ASSUME Types, Ahead, ~slow, IsrCount
    PROVE  Ahead'
<1>1. "left" \in Encoders /\ "right" \in Encoders
  BY DEF Encoders
<1>2. /\ UNCHANGED <<slow, began, edges>> /\ \A e \in Encoders : counter'[e] = Incremented(e)
  BY DEF IsrCount, history, world
<1>3. ASSUME NEW e \in Encoders
      PROVE  /\ counter[e] \in Nat /\ edges[e] \in Nat /\ Later(e) \in Nat
             /\ Pending(e) \in Nat /\ Early(e) \in {0, 1} /\ Early(e)' = Early(e)
             /\ Pending(e)' = Later(e) /\ Counts(e) \in {0, 1} /\ counter'[e] \in Nat
             /\ counter'[e] <= counter[e] + Counts(e)
             /\ Counts(e) + Later(e) <= Pending(e)
  <2>1. counter[e] \in Nat /\ edges[e] \in Nat
    BY WordIs DEF Types
  <2>2. Later(e) \in Nat /\ Pending(e) \in Nat /\ Early(e) \in {0, 1} /\ Early(e)' = Early(e)
    BY <1>2, AheadTypes DEF Early
  <2>3. /\ Counts(e) \in {0, 1} /\ Counts(e) <= Moved(A(e)) + Moved(B(e))
        /\ Incremented(e) \in Nat /\ Incremented(e) <= counter[e] + Counts(e)
    BY CountsOne
  <2>4. Pending(e) = Moved(A(e)) + Moved(B(e)) + Later(e) /\ Pending(e)' = Later(e)
    BY CountAt
  <2>5. Moved(A(e)) \in {0, 1} /\ Moved(B(e)) \in {0, 1}
    BY DifferIs DEF Moved
  <2>6. Counts(e) + Later(e) <= Pending(e)
    BY <2>2, <2>3, <2>4, <2>5
  <2> QED BY <1>2, <2>1, <2>2, <2>3, <2>4, <2>6
<1>4. First => Settled'
  <2> SUFFICES ASSUME First PROVE Settled'
    OBVIOUS
  <2>1. ASSUME NEW e \in Encoders PROVE counter'[e] + Pending(e)' <= edges'[e] + Early(e)'
    <3>1. counter[e] = 0 /\ Later(e) <= edges[e] /\ (Early(e) = 0 => Pending(e) <= edges[e])
      BY DEF First
    <3> QED BY <1>2, <1>3, <3>1
  <2>2. counter'["left"] + Pending("left")' + counter'["right"] + Pending("right")'
            <= edges'["left"] + edges'["right"]
    <3>1. Later("left") + Later("right") + 1 <= edges["left"] + edges["right"]
          /\ counter["left"] = 0 /\ counter["right"] = 0
      BY <1>1, CountAt DEF First
    <3>2. Counts("left") + Counts("right") <= 1
      BY CountsOne
    <3> QED BY <1>1, <1>2, <1>3, <3>1, <3>2
  <2> QED BY <2>1, <2>2 DEF Settled
<1>5. Settled => Settled'
  <2> SUFFICES ASSUME Settled PROVE Settled'
    OBVIOUS
  <2>1. ASSUME NEW e \in Encoders PROVE counter'[e] + Pending(e)' <= edges'[e] + Early(e)'
    <3>1. counter[e] + Pending(e) <= edges[e] + Early(e)
      BY DEF Settled
    <3> QED BY <1>2, <1>3, <3>1
  <2>2. counter'["left"] + Pending("left")' + counter'["right"] + Pending("right")'
            <= edges'["left"] + edges'["right"]
    <3>1. counter["left"] + Pending("left") + counter["right"] + Pending("right")
              <= edges["left"] + edges["right"]
      BY DEF Settled
    <3> QED BY <1>1, <1>2, <1>3, <3>1
  <2> QED BY <2>1, <2>2 DEF Settled
<1> QED BY <1>4, <1>5 DEF Ahead

LEMMA NextAhead == Types /\ Resets /\ Ahead /\ [Next]_vars => Ahead'
<1> SUFFICES ASSUME Types, Resets, Ahead, [Next]_vars, ~slow' PROVE Ahead'
  BY DEF Ahead
<1>s. ~slow
  BY DEF Next, vars, history, world, routine, main, Edge, IsrStart, IsrRead, IsrCount, GetHigh,
         ResetHigh, ResetLast, GetLow, ResetLow, Start, Stop
<1>n. ASSUME UNCHANGED <<slow, began, high, flagged, routine, last, counter, edges>>
      PROVE  Ahead'
  <2>1. Called' = Called /\ \A q \in Pins : Waits(q)' = Waits(q) /\ Missed(q)' = Missed(q)
    BY <1>n DEF Called, Waits, Missed, Seen, Differ, LastState, routine
  <2> QED BY <1>n, <2>1, AheadKept
<1>1. CASE \E f \in Encoders : \E p \in PinsOf(f) : Edge(f, p)
  BY <1>1, <1>s, EdgeAhead
<1>2. CASE IsrStart \/ \E p \in Pins : IsrRead(p)
  <2>1. UNCHANGED <<slow, began, last, counter, edges>>
    BY <1>2 DEF IsrStart, IsrRead, history, world
  <2> QED BY <1>2, <2>1, ReadAt, AheadKept
<1>3. CASE IsrCount
  BY <1>3, <1>s, CountAhead
<1>4. CASE GetHigh \/ \E e \in Encoders : GetLow(e) \/ Start(e) \/ Stop(e)
  BY <1>4, <1>n DEF GetHigh, GetLow, Start, Stop, history, world
<1>5. CASE ResetHigh \/ ResetLast \/ \E e \in Encoders : ResetLow(e)
  BY <1>5, <1>s DEF ResetLow, ResetHigh, ResetLast, Main, Resets
<1>6. CASE UNCHANGED vars
  BY <1>6, <1>n DEF vars, history, world
<1> QED BY <1>1, <1>2, <1>3, <1>4, <1>5, <1>6 DEF Next

(***************************************************************************)
(* However fast the wheels turn, whatever their levels were when the       *)
(* encoders were initialized, and however they are started and stopped,    *)
(* the two counters together never run ahead of the two wheels, and one of *)
(* them by one edge at most, if a pin of it was high at the start          *)
(* (encoder.c:36-98).                                                      *)
(***************************************************************************)
THEOREM EdgesOnlyMissed == Spec => []NeverOvercounts
<1>1. Init => Ahead /\ Types /\ Resets
  BY InitAhead, InitTypes, ResetsOnlySlow
<1>2. Ahead /\ Types /\ Resets /\ [Next]_vars => Ahead' /\ Types' /\ Resets'
  BY NextAhead, NextTypes, ResetsOnlySlow
<1>3. Ahead /\ Types => NeverOvercounts
  <2> SUFFICES ASSUME Ahead, Types, ~slow
               PROVE  /\ counter["left"] + counter["right"] <= edges["left"] + edges["right"]
                      /\ \A e \in Encoders : counter[e] <= edges[e] + Early(e)
    BY DEF NeverOvercounts, Early
  <2>1. \A e \in Encoders : /\ counter[e] \in Nat /\ edges[e] \in Nat
                            /\ Pending(e) \in Nat /\ Early(e) \in {0, 1}
    BY WordIs, AheadTypes DEF Types
  <2>2. "left" \in Encoders /\ "right" \in Encoders
    BY DEF Encoders
  <2>3. CASE First
    BY <2>1, <2>2, <2>3 DEF First
  <2>4. CASE Settled
    BY <2>1, <2>2, <2>4 DEF Settled
  <2> QED BY <2>3, <2>4 DEF Ahead
<1> QED BY <1>1, <1>2, <1>3, PTL DEF Spec

-----------------------------------------------------------------------------
(* Slow wheels are counted exactly *)

Quiet(e) == last[e] = Levels(e)
Exact(e) == counter[e] = edges[e] % Word

\* One edge of e, at p, that the routine has not counted yet.
Waiting(e, p) ==
    /\ Levels(e) = Toggle(last[e], p)
    /\ edges[e] >= 1 /\ counter[e] = (edges[e] - 1) % Word

Calm == ~flagged /\ isr = "off"

Counting ==
    /\ enabled = Encoders
    /\ pc \in {"resetHigh", "resetLast"} => Calm
    /\ isr = "on" => ~flagged /\ current = high \ unread
    /\ Calm => \A e \in Encoders : Quiet(e) /\ (Exact(e) \/ (pc = "resetHigh" /\ e = target))
    /\ pc = "resetHigh" => counter[target] % Byte = 0
    /\ pc \in {"resetHigh", "resetLast"} => Levels(target) = {}
    /\ ~Calm => \E e \in Encoders : \E p \in PinsOf(e) :
                    /\ Waiting(e, p)
                    /\ \A d \in Encoders \ {e} : Quiet(d) /\ Exact(d)

SlowIsExact == slow => Counting

LEMMA InitCounting == Init /\ slow => Counting
<1> SUFFICES ASSUME Init, slow PROVE Counting
  OBVIOUS
<1>1. Calm /\ pc = "idle" /\ enabled = Encoders /\ isr = "off"
  BY DEF Init, Calm
<1>2. ASSUME NEW e \in Encoders PROVE Quiet(e) /\ Exact(e)
  <2>1. last[e] = {} /\ high = {} /\ counter[e] = 0 /\ edges[e] = 0
    BY DEF Init
  <2>2. 0 % Word = 0
    BY WordIs
  <2> QED BY <2>1, <2>2 DEF Quiet, Exact, Levels
<1> QED BY <1>1, <1>2 DEF Counting

\* The one edge that waits is the only change the routine finds.
LEMMA OneChange ==
    ASSUME Types, Counting, isr = "on", unread = {},
           NEW e \in Encoders, NEW p \in PinsOf(e), Waiting(e, p),
           \A d \in Encoders \ {e} : Quiet(d)
    PROVE  /\ Changed = {p}
           /\ Incremented(e) = (counter[e] + 1) % Word
           /\ \A d \in Encoders \ {e} : Incremented(d) = counter[d]
<1>1. current = Levels("left") \cup Levels("right")
  <2>1. current = high /\ high \subseteq Pins
    BY DEF Counting, Types
  <2> QED BY <2>1 DEF Levels, Pins, Encoders
<1>2. PinsOf("left") \cap PinsOf("right") = {}
  BY PinsApartOf DEF Encoders
<1>3. last["left"] \subseteq PinsOf("left") /\ last["right"] \subseteq PinsOf("right")
  BY DEF Types, Encoders
<1>4. Levels(e) = Toggle(last[e], p)
  BY DEF Waiting
<1>5. Changed = {p}
  <2>1. CASE e = "left"
    <3>1. last["right"] = Levels("right")
      BY <2>1 DEF Quiet, Encoders
    <3> QED BY <1>1, <1>2, <1>3, <1>4, <2>1, <3>1 DEF Changed, Levels, Toggle
  <2>2. CASE e = "right"
    <3>1. last["left"] = Levels("left")
      BY <2>2 DEF Quiet, Encoders
    <3> QED BY <1>1, <1>2, <1>3, <1>4, <2>2, <3>1 DEF Changed, Levels, Toggle
  <2> QED BY <2>1, <2>2 DEF Encoders
<1>6. Incremented(e) = (counter[e] + 1) % Word
  BY <1>5 DEF Incremented
<1>7. ASSUME NEW d \in Encoders \ {e} PROVE Incremented(d) = counter[d]
  <2>1. ~\E q \in PinsOf(d) : {p} = {q}
    BY PinsApartOf
  <2> QED BY <1>5, <2>1 DEF Incremented
<1> QED BY <1>5, <1>6, <1>7

\* While an action leaves what is counted alone, so does the invariant.
LEMMA CountingKept ==
    ASSUME Counting, UNCHANGED <<high, enabled, flagged, routine, last, counter, edges>>,
           pc' \notin {"resetHigh", "resetLast"}, pc \notin {"resetHigh", "resetLast"}
    PROVE  Counting'
BY DEF Counting, Calm, Quiet, Exact, Waiting, Levels, Toggle, routine

LEMMA NextCounting ==
    ASSUME Types, slow, Counting, [Next]_vars
    PROVE  Counting'
<1>n. /\ counter \in [Encoders -> 0 .. Word - 1] /\ edges \in [Encoders -> Nat]
      /\ last \in [Encoders -> SUBSET Pins] /\ target \in Encoders
      /\ Word \in Nat \ {0} /\ Byte \in Nat \ {0}
  BY WordIs DEF Types
<1>1. ASSUME NEW e \in Encoders, NEW p \in PinsOf(e), Edge(e, p)
      PROVE  Counting'
  <2>1. Calm /\ pc \notin {"resetHigh", "resetLast"}
    BY <1>1 DEF Edge, Idle, Calm
  <2>2. \A d \in Encoders : Quiet(d) /\ Exact(d)
    BY <2>1 DEF Counting
  <2>3. /\ high' = Toggle(high, p) /\ UNCHANGED <<enabled, routine, last, counter, pc>>
        /\ edges' = [edges EXCEPT ![e] = @ + 1]
    BY <1>1 DEF Edge, main
  <2>4. flagged' = TRUE
    BY <1>1 DEF Edge, Counting
  <2>5. isr = "off"
    BY <2>1 DEF Calm
  <2>6. ~Calm'
    BY ONLY <2>4 DEF Calm
  <2>7. Waiting(e, p)'
    <3>1. Levels(e)' = Toggle(last[e], p) /\ last' = last
      BY <2>2, <2>3 DEF Quiet, Levels, Toggle
    <3>2. edges'[e] = edges[e] + 1 /\ edges[e] \in Nat /\ counter'[e] = edges[e] % Word
      BY <1>n, <2>2, <2>3 DEF Exact
    <3>3. edges'[e] >= 1 /\ edges'[e] - 1 = edges[e]
      BY ONLY <3>2
    <3> QED BY <3>1, <3>2, <3>3 DEF Waiting, Toggle, Word
  <2>8. ASSUME NEW d \in Encoders \ {e} PROVE Quiet(d)' /\ Exact(d)'
    <3>1. Levels(d)' = Levels(d)
      BY <2>3, PinsApartOf DEF Levels, Toggle
    <3>2. edges'[d] = edges[d]
      BY <1>n, <2>3
    <3> QED BY <2>2, <2>3, <3>1, <3>2 DEF Quiet, Exact, Word
  <2> QED BY <2>1, <2>3, <2>5, <2>6, <2>7, <2>8 DEF Counting, routine
<1>2. CASE IsrStart \/ \E p \in Pins : IsrRead(p)
  <2>1. /\ flagged \/ isr = "on"
        /\ isr' = "on" /\ UNCHANGED <<high, enabled, last, counter, edges, pc>>
    BY <1>2 DEF IsrStart, IsrRead, world, main
  <2>2. ~Calm /\ ~Calm'
    BY <2>1 DEF Calm
  <2>3. pc \notin {"resetHigh", "resetLast"}
    BY <2>2 DEF Counting
  <2>4. PICK e \in Encoders : \E p \in PinsOf(e) :
            Waiting(e, p) /\ \A d \in Encoders \ {e} : Quiet(d) /\ Exact(d)
    BY <2>2 DEF Counting
  <2>5. \E p \in PinsOf(e) : Waiting(e, p)' /\ \A d \in Encoders \ {e} : (Quiet(d) /\ Exact(d))'
    BY <2>1, <2>4 DEF Waiting, Quiet, Exact, Levels
  <2>6. current' = high' \ unread' /\ ~flagged'
    <3>1. CASE IsrStart
      BY <3>1 DEF IsrStart, Types, world
    <3>2. CASE \E p \in Pins : IsrRead(p)
      BY <3>2 DEF IsrRead, Counting, world
    <3> QED BY <1>2, <3>1, <3>2
  <2> QED BY <2>1, <2>2, <2>3, <2>5, <2>6 DEF Counting
<1>3. CASE IsrCount
  <2>1. /\ isr = "on" /\ unread = {} /\ isr' = "off" /\ UNCHANGED <<high, edges, enabled, flagged, pc>>
        /\ counter' = [d \in Encoders |-> Incremented(d)]
        /\ last' = [d \in Encoders |-> current \cap PinsOf(d)]
    BY <1>3 DEF IsrCount, world, main
  <2>2. ~Calm /\ ~flagged /\ current = high
    BY <2>1 DEF Calm, Counting
  <2>3. pc \notin {"resetHigh", "resetLast"}
    BY <2>2 DEF Counting
  <2>4. PICK e \in Encoders : \E p \in PinsOf(e) :
            Waiting(e, p) /\ \A d \in Encoders \ {e} : Quiet(d) /\ Exact(d)
    BY <2>2 DEF Counting
  <2>5. PICK p \in PinsOf(e) : Waiting(e, p)
    BY <2>4
  <2>6. /\ Incremented(e) = (counter[e] + 1) % Word
        /\ \A d \in Encoders \ {e} : Incremented(d) = counter[d]
    BY <2>1, <2>4, <2>5, OneChange
  <2>7. Exact(e)'
    <3>1. edges[e] - 1 \in Nat /\ counter[e] = (edges[e] - 1) % Word
      BY <1>n, <2>5 DEF Waiting
    <3>2. (counter[e] + 1) % Word = ((edges[e] - 1) + 1) % Word
      BY ONLY <1>n, <3>1, ModStep
    <3>3. (edges[e] - 1) + 1 = edges[e]
      BY <1>n
    <3> QED BY <2>1, <2>6, <3>2, <3>3 DEF Exact, Word
  <2>8. ASSUME NEW d \in Encoders PROVE Quiet(d)' /\ Exact(d)'
    <3>1. Levels(d)' = Levels(d) /\ last'[d] = Levels(d)
      BY <2>1, <2>2 DEF Levels
    <3>2. Exact(d)'
      BY <2>1, <2>4, <2>6, <2>7 DEF Exact, Word
    <3> QED BY <3>1, <3>2 DEF Quiet
  <2>9. Calm'
    BY <2>1, <2>2 DEF Calm
  <2> QED BY <2>1, <2>3, <2>8, <2>9 DEF Counting
<1>4. CASE GetHigh \/ \E e \in Encoders : GetLow(e)
  <2>1. UNCHANGED <<high, enabled, flagged, routine, last, counter, edges>>
    BY <1>4 DEF GetHigh, GetLow, world
  <2>2. pc' \notin {"resetHigh", "resetLast"} /\ pc \notin {"resetHigh", "resetLast"}
    BY <1>4 DEF GetHigh, GetLow, Main
  <2> QED BY <2>1, <2>2, CountingKept
<1>5. ASSUME NEW e \in Encoders, ResetLow(e)
      PROVE  Counting'
  <2>1. /\ pc = "idle" /\ pc' = "resetHigh" /\ target' = e /\ Levels(e) = {}
        /\ counter' = [counter EXCEPT ![e] = (@ \div Byte) * Byte]
        /\ UNCHANGED <<high, enabled, flagged, routine, last, edges>>
    BY <1>5 DEF ResetLow, Main, world
  <2>2. Calm
    BY <1>5 DEF ResetLow, Idle, Calm
  <2>3. Calm' /\ Levels(e)' = {} /\ enabled' = enabled
    BY <2>1, <2>2 DEF Calm, Levels, routine
  <2>4. counter'[e] % Byte = 0
    BY <1>n, <2>1, ByteCells
  <2>5. ASSUME NEW d \in Encoders PROVE Quiet(d)' /\ (Exact(d)' \/ d = e)
    BY <1>n, <2>1, <2>2 DEF Counting, Quiet, Exact, Levels, Word
  <2> QED BY <2>1, <2>3, <2>4, <2>5 DEF Counting, Calm
<1>6. CASE ResetHigh
  <2>1. /\ pc = "resetHigh" /\ pc' = "resetLast" /\ UNCHANGED target
        /\ counter' = [counter EXCEPT ![target] = @ % Byte]
        /\ edges' = [edges EXCEPT ![target] = 0]
        /\ UNCHANGED <<high, enabled, flagged, routine, last>>
    BY <1>6 DEF ResetHigh, Main
  <2>2. Calm /\ Calm' /\ Levels(target)' = {}
    BY <2>1 DEF Counting, Calm, Levels, routine
  <2>3. counter'[target] = 0 /\ edges'[target] = 0 /\ 0 % Word = 0
    BY <1>n, <2>1 DEF Counting
  <2>4. ASSUME NEW d \in Encoders PROVE Quiet(d)' /\ Exact(d)'
    BY <1>n, <2>1, <2>2, <2>3 DEF Counting, Quiet, Exact, Levels, Word
  <2> QED BY <2>1, <2>2, <2>4 DEF Counting, Calm
<1>7. CASE ResetLast
  <2>1. /\ pc = "resetLast" /\ pc' = "idle"
        /\ last' = [last EXCEPT ![target] = {}]
        /\ UNCHANGED <<high, enabled, flagged, routine, counter, edges>>
    BY <1>7 DEF ResetLast, Main, world
  <2>2. Calm /\ Calm' /\ Levels(target) = {}
    BY <2>1 DEF Counting, Calm, routine
  <2>3. ASSUME NEW d \in Encoders PROVE Quiet(d)' /\ Exact(d)'
    BY <1>n, <2>1, <2>2 DEF Counting, Quiet, Exact, Levels, Word
  <2> QED BY <2>1, <2>2, <2>3 DEF Counting, Calm
<1>8. CASE \E e \in Encoders : Start(e) \/ Stop(e)
  BY <1>8 DEF Start, Stop
<1>9. CASE UNCHANGED vars
  BY <1>9 DEF vars, world, routine, main, Counting, Calm, Quiet, Exact, Waiting, Levels, Toggle,
              Word
<1> QED BY <1>1, <1>2, <1>3, <1>4, <1>5, <1>6, <1>7, <1>8, <1>9 DEF Next

(***************************************************************************)
(* If the wheels turn slowly enough for the routine, and the encoders are  *)
(* initialized and a counter is reset when its pins are low, every edge is *)
(* counted once and for the encoder it belongs to (encoder.c:70-83,        *)
(* 90-98, 114-118).                                                        *)
(***************************************************************************)
THEOREM SlowEdgesCounted == Spec => []EdgesCounted
<1>1. Init => SlowIsExact /\ Types
  BY InitCounting, InitTypes DEF SlowIsExact
<1>2. SlowIsExact /\ Types /\ [Next]_vars => SlowIsExact' /\ Types'
  <2> SUFFICES ASSUME SlowIsExact, Types, [Next]_vars, slow' PROVE Counting'
    BY NextTypes DEF SlowIsExact
  <2>1. slow
    BY DEF Next, vars, history, world, routine, main, Edge, IsrStart, IsrRead, IsrCount, GetHigh,
           ResetHigh, ResetLast, GetLow, ResetLow, Start, Stop
  <2> QED BY <2>1, NextCounting DEF SlowIsExact
<1>3. SlowIsExact => EdgesCounted
  BY DEF SlowIsExact, Counting, EdgesCounted, Exact, Idle, Calm
<1> QED BY <1>1, <1>2, <1>3, PTL DEF Spec
=============================================================================
