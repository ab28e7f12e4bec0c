---------------------------- MODULE RangeTimeout ---------------------------
(***************************************************************************)
(* The timeouts of Source/vl53l0x.c.  A timer interrupt counts             *)
(* milliseconds in u32_milliseconds; the main context waits for the sensor *)
(* in a loop that asks it again and again, and gives up when more than     *)
(* i2cTimeout milliseconds have gone by since startTimeout.  It reads the  *)
(* count a byte at a time, low byte first, with interrupts enabled.        *)
(*                                                                         *)
(* vl53l0x_start waits three times (the SPAD info, then two calibrations), *)
(* vl53l0x_readRangeSingle twice; the registers written in between do not  *)
(* matter here.  The sensor is external: it may answer at any time, or     *)
(* never.  Example/Source/vl53l0x_example.c is the application: it sets    *)
(* i2cTimeout before it calls vl53l0x_init, which clears it, and waits     *)
(* then have no timeout.  The field is public, and another application may *)
(* set it after vl53l0x_init, between any two calls.                       *)
(***************************************************************************)
EXTENDS Integers

CONSTANTS Byte,      \* 2^8
          Timeout,   \* the i2cTimeout the application wants
          Pace       \* bound on the interrupts in one round of a loop

U16 == Byte * Byte
U24 == Byte * U16
U32 == U16 * U16

ASSUME TimeoutAssumption ==
    /\ Byte \in Nat \ {0, 1}
    /\ Timeout \in 1 .. U16 - 1
    /\ Pace \in Nat \ {0}

\* A round of a loop is an access or two over the bus: not 128 milliseconds.
ASSUME PaceAssumption == 2 * Pace < Byte

\* More than the longest wait there is.
Longest == U16 + 3 * Pace

VARIABLES ms,           \* u32_milliseconds
          i2cTimeout,   \* the fields of the vl53l0x_struct_t
          timeoutStart,
          timedOut,
          pc,           \* "new" before vl53l0x_init, "idle" between calls
          op,           \* the call being made, "start" or "single"
          wait,         \* which of its waits
          bytes, word,  \* bytes of u32_milliseconds read, and their value
          elapsed,      \* milliseconds since startTimeout, capped
          since,        \* interrupts in this round of the loop
          chosen,       \* the application has set i2cTimeout
          unasked,      \* the calls given up since vl53l0x_timeoutOccurred
          early, late,  \* a wait was given up too early, gone on with too late
          wide,         \* u32_milliseconds has needed more than 16 bits
          torn          \* an interrupt carried while the count was read

fields == <<i2cTimeout, timeoutStart, timedOut>>
excuses == <<wide, torn>>
history == <<chosen, unasked, early, late, excuses>>
vars == <<ms, fields, pc, op, wait, bytes, word, elapsed, since, history>>

TypeOK ==
    /\ ms \in 0 .. U32 - 1
    /\ i2cTimeout \in {0, Timeout}
    /\ timeoutStart \in 0 .. U16 - 1
    /\ timedOut \in BOOLEAN
    /\ pc \in {"new", "idle", "stamp", "poll", "check"}
    /\ op \in {"start", "single"}
    /\ wait \in 1 .. 3
    /\ bytes \in 0 .. 4
    /\ word \in 0 .. U32 - 1
    /\ elapsed \in 0 .. Longest
    /\ since \in 0 .. Pace
    /\ chosen \in BOOLEAN
    /\ unasked \subseteq {"start", "single"}
    /\ early \in BOOLEAN /\ late \in BOOLEAN
    /\ wide \in BOOLEAN /\ torn \in BOOLEAN

Init ==
    /\ ms = 0
    /\ i2cTimeout = 0
    /\ timeoutStart = 0 /\ timedOut = FALSE
    /\ pc = "new"
    /\ op = "start" /\ wait = 1
    /\ bytes = 0 /\ word = 0
    /\ elapsed = 0 /\ since = 0
    /\ chosen = FALSE /\ unasked = {} /\ early = FALSE /\ late = FALSE
    /\ wide = FALSE /\ torn = FALSE

-----------------------------------------------------------------------------
(* The timer interrupt *)

\* What a one in byte k of the count stands for.
Place(k) == <<1, Byte, U16, U24, U32>>[k + 1]

\* It carries from the bytes of the count that were read into the others.
Carries ==
    bytes \in 1 .. 3 /\ ((ms + 1) % U32) \div Place(bytes) # ms \div Place(bytes)

Tick ==
    /\ since < Pace
    /\ ms' = (ms + 1) % U32
    /\ since' = since + 1
    /\ elapsed' = IF elapsed < Longest THEN elapsed + 1 ELSE elapsed
    /\ wide' = (wide \/ ms' >= U16)
    /\ torn' = (torn \/ Carries)
    /\ UNCHANGED <<fields, pc, op, wait, bytes, word, chosen, unasked, early, late>>

-----------------------------------------------------------------------------
(* The main context *)

SensorInit ==
    /\ pc = "new"
    /\ i2cTimeout' = 0 /\ timedOut' = FALSE
    /\ pc' = "idle" /\ since' = 0
    /\ UNCHANGED <<ms, timeoutStart, op, wait, bytes, word, elapsed, history>>

AppSets ==
    /\ pc \in {"new", "idle"}
    /\ i2cTimeout' = Timeout /\ chosen' = TRUE
    /\ since' = 0
    /\ UNCHANGED <<ms, timeoutStart, timedOut, pc, op, wait, bytes, word, elapsed,
                   unasked, early, late, excuses>>

StartWait(k) ==
    /\ pc' = "stamp" /\ wait' = k
    /\ bytes' = 0 /\ word' = 0
    /\ since' = 0

\* Seeded fault: a call begins with a clean flag.
FaultCall(o) ==
    /\ pc = "idle"
    /\ op' = o
    /\ StartWait(1)
    /\ timedOut' = FALSE
    /\ UNCHANGED <<ms, i2cTimeout, timeoutStart, elapsed, history>>

Call(o) ==
    /\ pc = "idle"
    /\ op' = o
    /\ StartWait(1)
    /\ UNCHANGED <<ms, fields, elapsed, history>>

\* One byte of u32_milliseconds.
ReadByte ==
    /\ pc \in {"stamp", "check"} /\ bytes < 4
    /\ word' = word + ((ms \div Place(bytes)) % Byte) * Place(bytes)
    /\ bytes' = bytes + 1
    /\ elapsed' = IF pc = "stamp" /\ bytes = 0 THEN 0 ELSE elapsed
    /\ UNCHANGED <<ms, fields, pc, op, wait, since, history>>

\* Seeded fault: timeoutStart keeps one byte.
FaultStartTimeout ==
    /\ pc = "stamp" /\ bytes = 4
    /\ timeoutStart' = word % Byte
    /\ pc' = "poll" /\ bytes' = 0 /\ word' = 0
    /\ UNCHANGED <<ms, i2cTimeout, timedOut, op, wait, elapsed, since, history>>

StartTimeout ==
    /\ pc = "stamp" /\ bytes = 4
    /\ timeoutStart' = word % U16
    /\ pc' = "poll" /\ bytes' = 0 /\ word' = 0
    /\ UNCHANGED <<ms, i2cTimeout, timedOut, op, wait, elapsed, since, history>>

Waits(o) == IF o = "start" THEN 3 ELSE 2

\* The sensor has what was waited for.
Answered ==
    /\ pc = "poll"
    /\ IF wait < Waits(op)
       THEN StartWait(wait + 1)
       ELSE pc' = "idle" /\ since' = 0 /\ UNCHANGED <<wait, bytes, word>>
    /\ UNCHANGED <<ms, fields, op, elapsed, history>>

\* Seeded fault: startTimeout is called in the loop.
FaultNotAnswered ==
    /\ pc = "poll"
    /\ pc' = "stamp"
    /\ since' = 0
    /\ UNCHANGED <<ms, fields, op, wait, bytes, word, elapsed, history>>

\* It has not, and without a timeout the loop goes round.
NotAnswered ==
    /\ pc = "poll"
    /\ IF i2cTimeout > 0 THEN pc' = "check" ELSE UNCHANGED pc
    /\ since' = 0
    /\ UNCHANGED <<ms, fields, op, wait, bytes, word, elapsed, history>>

\* Seeded fault: a millisecond late.
FaultExpired == (word - timeoutStart) % U32 > i2cTimeout + 1

Expired == (word - timeoutStart) % U32 > i2cTimeout

\* vl53l0x_start returns FALSE; vl53l0x_readRangeSingle sets timedOut and
\* returns 0xffff.
GivesUp ==
    /\ pc' = "idle" /\ unasked' = unasked \cup {op}
    /\ timedOut' = IF op = "single" THEN TRUE ELSE timedOut

\* elapsed - since had gone by when the count was asked for.
CheckTimeout ==
    /\ pc = "check" /\ bytes = 4
    /\ IF Expired THEN GivesUp ELSE pc' = "poll" /\ UNCHANGED <<timedOut, unasked>>
    /\ early' = (early \/ (Expired /\ elapsed <= Timeout))
    /\ late' = (late \/ (~Expired /\ elapsed - since > Timeout))
    /\ bytes' = 0 /\ word' = 0 /\ since' = 0
    /\ UNCHANGED <<ms, i2cTimeout, timeoutStart, op, wait, elapsed, chosen, excuses>>

\* vl53l0x_timeoutOccurred
TimeoutOccurred ==
    /\ pc = "idle"
    /\ timedOut' = FALSE
    /\ unasked' = {}
    /\ since' = 0
    /\ UNCHANGED <<ms, i2cTimeout, timeoutStart, pc, op, wait, bytes, word, elapsed,
                   chosen, early, late, excuses>>

Waiting == ReadByte \/ StartTimeout \/ NotAnswered \/ CheckTimeout

Next ==
    \/ Tick
    \/ SensorInit \/ AppSets
    \/ \E o \in {"start", "single"} : Call(o)
    \/ Waiting \/ Answered
    \/ TimeoutOccurred

Spec == Init /\ [][Next]_vars

\* The loop goes on and the timer runs; the sensor need not answer.
FairSpec == Spec /\ WF_vars(Waiting) /\ WF_vars(Tick)

-----------------------------------------------------------------------------
(***************************************************************************)
(* No wait is given up before i2cTimeout milliseconds have gone by         *)
(* ("I2C request timeout in milliseconds", vl53l0x.h:53), until the robot  *)
(* has run for 65 seconds, after which timeoutStart no longer holds the    *)
(* count, or an interrupt has torn a reading of it (vl53l0x.c:112-120).    *)
(***************************************************************************)
NotEarly == early => wide \/ torn

(***************************************************************************)
(* Asked after more than i2cTimeout milliseconds, checkTimeoutExpired says *)
(* so, even when the count has wrapped since or is torn: the bytes are     *)
(* read in an order in which a torn count is too large, and what is        *)
(* subtracted from a smaller one wraps (vl53l0x.c:112-120).  This needs    *)
(* that a round of the loop takes less than half a byte of milliseconds.   *)
(***************************************************************************)
NotLate == ~late

(***************************************************************************)
(* A wait that has a timeout ends, whether the sensor answers or not, and  *)
(* however the count wraps or is torn (vl53l0x.c:246-250, 365-368,         *)
(* 902-916).                                                               *)
(***************************************************************************)
WaitEnds == pc = "poll" /\ i2cTimeout > 0 ~> pc = "idle"

(***************************************************************************)
(* The waits of an application that has set i2cTimeout, the "I2C request   *)
(* timeout in milliseconds" (vl53l0x.h:53), end.  Not so if it was set     *)
(* before vl53l0x_init, as vl53l0x_example.c:29-35 does: what is left is   *)
(* zero (vl53l0x.c:568), with which nothing is ever given up (:119).       *)
(***************************************************************************)
ChosenWaitEnds == pc = "poll" /\ chosen ~> pc = "idle"

(***************************************************************************)
(* A reading given up is reported by vl53l0x_timeoutOccurred until the     *)
(* application has asked, whatever calls of either kind, and with whatever *)
(* end, are made in between (vl53l0x.c:904-915, 929-934).                  *)
(***************************************************************************)
ReadingReported == "single" \in unasked => timedOut

(***************************************************************************)
(* timedOut "Indicates whether an I2C timeout occurred" (vl53l0x.h:56), in *)
(* whatever call: not so of vl53l0x_start, whose waits are given up        *)
(* without a word in it (vl53l0x.c:249, 368).                              *)
(***************************************************************************)
TimeoutIndicated == unasked # {} => timedOut
=============================================================================
