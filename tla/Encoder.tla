------------------------------ MODULE Encoder ------------------------------
(***************************************************************************)
(* Source/encoder.c: two wheel encoders of two pins each, all four pins    *)
(* attached to the interrupt routine encoder_increment, which finds out    *)
(* what changed from the pins' present and last levels and counts it; and  *)
(* the main context, which reads and resets a counter one byte after the   *)
(* other, between which the routine can run.                               *)
(*                                                                         *)
(* A level set is the set of the pins that are high.  The four pins have   *)
(* four different bit numbers, as the masks of the routine require, and    *)
(* the two of an encoder are on one port.  Each is read by itself, those   *)
(* of an encoder in the order the compiler likes.  currentState is written *)
(* before it is read by the routine and holds the value of lastState after *)
(* it: only the routine's own copy is kept.  Two bytes stand for the four  *)
(* of a counter.                                                           *)
(***************************************************************************)
EXTENDS Integers, FiniteSets

CONSTANTS Byte,      \* 2^8
          SlowEdges, \* bounds on the edges of a slow wheel
          FastEdges  \* ... and of a fast one

ASSUME EncoderAssumption ==
    /\ Byte \in Nat \ {0}
    /\ SlowEdges \in Nat /\ FastEdges \in Nat

VARIABLES slow,     \* the wheels are slow, and used as such: see below
          high,     \* the pins that are high
          enabled,  \* encoders whose pin interrupts are enabled
          flagged,  \* a pin interrupt is waiting
          isr,      \* "on" while the routine runs
          unread,   \* the pins it has still to read
          current,  \* those it has found high
          last,     \* lastState of each encoder
          counter,  \* counter of each encoder
          began,    \* the pins that were high when the encoders were initialized
          edges,    \* edges of each encoder since its counter was 0
          pc,       \* where the main context is
          target,   \* the encoder of its call
          low,      \* the low byte encoder_getCounter has copied
          from,     \* the counter when the call began
          torn      \* what the last encoder_getCounter returned, the counter never was

world == <<high, edges>>
routine == <<isr, unread, current>>
history == <<slow, began>>
main == <<pc, target, low, from, torn>>
vars == <<history, world, enabled, flagged, routine, last, counter, main>>

Encoders == {"left", "right"}
A(e) == <<e, "A">>
B(e) == <<e, "B">>
PinsOf(e) == {A(e), B(e)}
Pins == UNION {PinsOf(e) : e \in Encoders}

Word == Byte * Byte

MaxEdges == IF slow THEN SlowEdges ELSE FastEdges

TypeOK ==
    /\ slow \in BOOLEAN
    /\ high \subseteq Pins /\ began \subseteq Pins
    /\ enabled \subseteq Encoders
    /\ flagged \in BOOLEAN
    /\ isr \in {"off", "on"}
    /\ unread \subseteq Pins /\ current \subseteq Pins
    /\ \A e \in Encoders : last[e] \subseteq PinsOf(e)
    /\ counter \in [Encoders -> 0 .. Word - 1]
    /\ edges \in [Encoders -> 0 .. MaxEdges]
    /\ pc \in {"idle", "getHigh", "resetHigh", "resetLast"}
    /\ target \in Encoders
    /\ low \in 0 .. Byte - 1 /\ from \in 0 .. Word - 1
    /\ torn \in BOOLEAN

\* encoder_init for both, which clears lastState whatever the levels are, then
\* encoder_start for both.
Init ==
    /\ slow \in BOOLEAN
    /\ high \in SUBSET Pins
    /\ slow => high = {}
    /\ began = high
    /\ edges = [e \in Encoders |-> 0]
    /\ enabled = Encoders
    /\ flagged = FALSE
    /\ isr = "off" /\ unread = {} /\ current = {}
    /\ last = [e \in Encoders |-> {}]
    /\ counter = [e \in Encoders |-> 0]
    /\ pc = "idle" /\ target = "left"
    /\ low = 0 /\ from = 0 /\ torn = FALSE

-----------------------------------------------------------------------------
(* The wheels (external).  Slow ones turn on only when the routine has run  *)
(* and no reset is under way; the application of slow wheels initializes   *)
(* and resets an encoder when its pins are low, and that of fast ones      *)
(* stops and starts them.                                                  *)

Idle == ~flagged /\ isr = "off" /\ pc \notin {"resetHigh", "resetLast"}

Toggle(s, p) == IF p \in s THEN s \ {p} ELSE s \cup {p}

Edge(e, p) ==
    /\ slow => Idle
    /\ edges[e] < MaxEdges
    /\ high' = Toggle(high, p)
    /\ edges' = [edges EXCEPT ![e] = @ + 1]
    /\ flagged' = (flagged \/ e \in enabled)
    /\ UNCHANGED <<history, enabled, routine, last, counter, main>>

-----------------------------------------------------------------------------
(* encoder_increment *)

Levels(e) == high \cap PinsOf(e)

IsrStart ==
    /\ flagged /\ isr = "off"
    /\ flagged' = FALSE
    /\ isr' = "on" /\ unread' = Pins
    /\ UNCHANGED <<history, world, enabled, current, last, counter, main>>

\* The left pins come first.
IsrRead(p) ==
    /\ isr = "on" /\ p \in unread
    /\ p \in PinsOf("left") \/ unread \subseteq PinsOf("right")
    /\ unread' = unread \ {p}
    /\ current' = current \cup (high \cap {p})
    /\ UNCHANGED <<history, world, enabled, flagged, isr, last, counter, main>>

\* last ^ current, both encoders together
Changed ==
    LET before == last["left"] \cup last["right"]
    IN (before \ current) \cup (current \ before)

\* Seeded fault: each encoder is compared by itself.
FaultIncremented(e) ==
    IF \E p \in PinsOf(e) : Changed \cap PinsOf(e) = {p}
    THEN (counter[e] + 1) % Word ELSE counter[e]

Incremented(e) ==
    IF \E p \in PinsOf(e) : Changed = {p} THEN (counter[e] + 1) % Word ELSE counter[e]

\* Seeded fault: the right encoder's last state is forgotten.
FaultIsrCount ==
    /\ isr = "on" /\ unread = {}
    /\ isr' = "off"
    /\ counter' = [e \in Encoders |-> Incremented(e)]
    /\ last' = [last EXCEPT !["left"] = current \cap PinsOf("left")]
    /\ current' = {}
    /\ UNCHANGED <<history, world, enabled, flagged, unread, main>>

IsrCount ==
    /\ isr = "on" /\ unread = {}
    /\ isr' = "off"
    /\ counter' = [e \in Encoders |-> Incremented(e)]
    /\ last' = [e \in Encoders |-> current \cap PinsOf(e)]
    /\ current' = {}
    /\ UNCHANGED <<history, world, enabled, flagged, unread, main>>

-----------------------------------------------------------------------------
(* The main context, which runs when the routine does not *)

Main(at) == isr = "off" /\ pc = at

\* encoder_getCounter: the structure is copied to pass it, low byte first.
GetLow(e) ==
    /\ Main("idle")
    /\ target' = e
    /\ low' = counter[e] % Byte
    /\ from' = counter[e]
    /\ pc' = "getHigh"
    /\ UNCHANGED <<history, world, enabled, flagged, routine, last, counter, torn>>

GetHigh ==
    /\ Main("getHigh")
    /\ LET value == (counter[target] \div Byte) * Byte + low
       IN  torn' = (from <= counter[target] /\ value \notin from .. counter[target])
    /\ pc' = "idle" /\ low' = 0 /\ from' = 0
    /\ UNCHANGED <<history, world, enabled, flagged, routine, last, counter, target>>

\* encoder_resetCounter
ResetLow(e) ==
    /\ slow /\ Main("idle")
    /\ Levels(e) = {} /\ Idle
    /\ target' = e
    /\ counter' = [counter EXCEPT ![e] = (@ \div Byte) * Byte]
    /\ pc' = "resetHigh"
    /\ UNCHANGED <<history, world, enabled, flagged, routine, last, low, from, torn>>

ResetHigh ==
    /\ Main("resetHigh")
    /\ counter' = [counter EXCEPT ![target] = @ % Byte]
    /\ edges' = [edges EXCEPT ![target] = 0]
    /\ pc' = "resetLast"
    /\ UNCHANGED <<history, high, enabled, flagged, routine, last, target, low, from, torn>>

ResetLast ==
    /\ Main("resetLast")
    /\ last' = [last EXCEPT ![target] = {}]
    /\ pc' = "idle"
    /\ UNCHANGED <<history, world, enabled, flagged, routine, counter, target, low, from, torn>>

\* encoder_start and encoder_stop
Start(e) ==
    /\ ~slow /\ Main("idle")
    /\ enabled' = enabled \cup {e}
    /\ UNCHANGED <<history, world, flagged, routine, last, counter, main>>

Stop(e) ==
    /\ ~slow /\ Main("idle")
    /\ enabled' = enabled \ {e}
    /\ UNCHANGED <<history, world, flagged, routine, last, counter, main>>

Next ==
    \/ \E e \in Encoders : \E p \in PinsOf(e) : Edge(e, p)
    \/ IsrStart \/ IsrCount \/ \E p \in Pins : IsrRead(p)
    \/ GetHigh \/ ResetHigh \/ ResetLast
    \/ \E e \in Encoders : GetLow(e) \/ ResetLow(e) \/ Start(e) \/ Stop(e)

Spec == Init /\ [][Next]_vars

-----------------------------------------------------------------------------
(***************************************************************************)
(* If the wheels turn slowly enough for the routine, and the encoders are  *)
(* initialized and a counter is reset when its pins are low, every edge of *)
(* either encoder is counted once and for the encoder it belongs to        *)
(* (encoder.c:70-83, 90-98, 114-118).                                      *)
(***************************************************************************)
EdgesCounted ==
    slow /\ Idle => \A e \in Encoders : counter[e] = edges[e] % Word

(***************************************************************************)
(* However fast they turn, whatever the levels were when the encoders were *)
(* initialized, and however they are started and stopped, the two counters *)
(* together never run ahead of the two wheels.  One of them may count a    *)
(* single edge that its wheel never had, of the other's, if a pin of it    *)
(* was high at encoder_init (encoder.c:36-98).                             *)
(***************************************************************************)
NeverOvercounts ==
    ~slow => /\ counter["left"] + counter["right"] <= edges["left"] + edges["right"]
             /\ \A e \in Encoders :
                   counter[e] <= edges[e] + IF began \cap PinsOf(e) = {} THEN 0 ELSE 1

(***************************************************************************)
(* What encoder.h:37 calls the counter, "number of impulses generated by   *)
(* the encoder": none that it has not generated, whatever its levels were. *)
(***************************************************************************)
OwnImpulses == \A e \in Encoders : counter[e] <= edges[e]

(***************************************************************************)
(* encoder_getCounter returns the "32 bit unsigned value of the counter"   *)
(* (encoder.h:76): one it had while the call ran.  It copies it one byte   *)
(* after the other with interrupts enabled (encoder.c:110-112).            *)
(***************************************************************************)
GetHeld == ~torn
=============================================================================
