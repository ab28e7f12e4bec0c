------------------------------ MODULE HeartRate -----------------------------
(***************************************************************************)
(* Another client of lib_aci: the heart rate template with the battery     *)
(* service.  A timer interrupt puts samples into a ring for each of its    *)
(* two services; the main loop sends what it finds there while it has      *)
(* credits, and handles one event of the radio a turn.  A slot of a ring   *)
(* that holds NoData is empty: the two sides share no index.               *)
(*                                                                         *)
(* This is the sketch with its buffers, as heart_rate.h:45-48 and          *)
(* battery.h:46-49 describe them.  With the size 0 that is set there the   *)
(* interrupt itself would send and count the credits the main loop counts. *)
(*                                                                         *)
(* It counts the credits it sends with; a radio that refuses one of its    *)
(* commands stops its main loop for good.  The specification is of either  *)
(* sketch, this one or LibAci's.                                           *)
(***************************************************************************)
EXTENDS LibAci

CONSTANTS Heart, Battery, \* the pipes of the two services
          Values,         \* what a sample of each can be
          NoData,         \* NO_DATA
          BuffSize        \* HEART_RATE_DATA_BUFF_SIZE, BATTERY_DATA_BUFF_SIZE

Services == {Heart, Battery}

ASSUME HeartRateAssumption ==
    /\ Services \subseteq Pipes /\ Heart # Battery
    /\ \A s \in Services : NoData \notin Values[s]
    /\ BuffSize \in [Services -> Nat \ {0}]

VARIABLES buffer,   \* the ring of each service ...
          insert,   \* ... where the interrupt puts the next sample
          fetch,    \* ... and where the main loop looks for one
          at,       \* the place in the main loop, and the service it is at
          taken,    \* the sample of each service the loop took last
          previous  \* previous_battery_level

sketch == <<buffer, insert, fetch, at, taken, previous>>
heartVars == <<vars, sketch>>

Slot(s) == 0 .. BuffSize[s] - 1
Following(s, k) == IF k = BuffSize[s] - 1 THEN 0 ELSE k + 1

\* The sketch that is loaded, if it is the other one.
Uart == <<"uart">>

EitherInit ==
    /\ Init
    /\ buffer = [s \in Services |-> [k \in Slot(s) |-> NoData]]
    /\ insert = [s \in Services |-> 0]
    /\ fetch = [s \in Services |-> 0]
    /\ at \in {<<"loop">>, Uart}
    /\ taken = [s \in Services |-> NoData]
    /\ previous = NoData

-----------------------------------------------------------------------------
(* The timer interrupt *)

\* A sample for which there is no room is dropped.
Sample(s, v) ==
    /\ buffer[s][insert[s]] = NoData
    /\ buffer' = [buffer EXCEPT ![s][insert[s]] = v]
    /\ insert' = [insert EXCEPT ![s] = Following(s, @)]
    /\ UNCHANGED <<vars, fetch, at, taken, previous>>

-----------------------------------------------------------------------------
(* The main loop *)

Send(p) == IF Room THEN cmds' = Append(cmds, Data(p)) /\ credits' = credits - 1
           ELSE UNCHANGED <<cmds, credits>>

UpdateHeartRate ==
    /\ IF Heart \in open /\ credits > 0 THEN Send(Heart) ELSE UNCHANGED <<cmds, credits>>
    /\ UNCHANGED previous

\* A level that is not new is not sent; a new one is given to the radio as the
\* value to be read, and sent if there is a pipe, a credit and room for both.
UpdateBattery(v) ==
    /\ previous' = v
    /\ IF v = previous \/ ~Room THEN UNCHANGED <<cmds, credits>>
       ELSE LET set == Append(cmds, Plain("other"))
            IN  IF Battery \in open /\ credits > 0 /\ Len(set) < Size
                THEN cmds' = Append(set, Data(Battery)) /\ credits' = credits - 1
                ELSE cmds' = set /\ UNCHANGED credits

\* loop() looks for credits once, before the first buffer.
Starts(s) == IF s = Heart THEN at = <<"loop">> /\ credits > 0 ELSE at = <<"send">>

Then(s) == IF s = Heart THEN <<"send">> ELSE <<"event">>

SendFromBuffer(s) ==
    /\ Starts(s)
    /\ LET v == buffer[s][fetch[s]]
       IN  IF v = NoData
           THEN at' = Then(s) /\ UNCHANGED <<cmds, credits, taken, previous>>
           ELSE /\ IF s = Heart THEN UpdateHeartRate ELSE UpdateBattery(v)
                /\ taken' = [taken EXCEPT ![s] = v]
                /\ at' = <<"erase", s>>
    /\ UNCHANGED <<open, timed, evs, radio, history, buffer, insert, fetch>>

\* Seeded fault: the pointer has moved on when the slot is erased.
FaultErase(s) ==
    /\ at = <<"erase", s>>
    /\ buffer' = [buffer EXCEPT ![s][Following(s, fetch[s])] = NoData]
    /\ at' = <<"advance", s>>
    /\ UNCHANGED <<vars, insert, fetch, taken, previous>>

Erase(s) ==
    /\ at = <<"erase", s>>
    /\ buffer' = [buffer EXCEPT ![s][fetch[s]] = NoData]
    /\ at' = <<"advance", s>>
    /\ UNCHANGED <<vars, insert, fetch, taken, previous>>

Advance(s) ==
    /\ at = <<"advance", s>>
    /\ fetch' = [fetch EXCEPT ![s] = Following(s, @)]
    /\ at' = Then(s)
    /\ UNCHANGED <<vars, buffer, insert, taken, previous>>

\* A command that failed: while (1), which the timer still interrupts.
Stopped == <<"halted">>

HeartEvent ==
    /\ at = <<"event">> \/ (at = <<"loop">> /\ credits = 0)
    /\ at' = IF evs # << >> /\ Head(evs).evt = "refused" THEN Stopped ELSE <<"loop">>
    /\ \/ evs = << >> /\ UNCHANGED vars
       \/ GetConnected /\ UNCHANGED cmds
       \/ GetPipeStatus(Heart)
       \/ GetDisconnected("disconnected") /\ Answer("connect")
       \/ GetDisconnected("advTimeout") /\ Answer("other")
       \/ GetDataCredit \/ GetPipeError \/ GetHwError
       \/ \E e \in {"started", "refused"} : GetNoted(e)
    /\ UNCHANGED <<buffer, insert, fetch, taken, previous>>

HeartNext ==
    \/ Radio /\ UNCHANGED sketch
    \/ HeartEvent
    \/ \E s \in Services : \/ \E v \in Values[s] : Sample(s, v)
                            \/ SendFromBuffer(s) \/ Erase(s) \/ Advance(s)

EitherNext ==
    \/ at # Uart /\ HeartNext
    \/ at = Uart /\ Next /\ UNCHANGED sketch

EitherSpec == EitherInit /\ [][EitherNext]_heartVars

-----------------------------------------------------------------------------
(***************************************************************************)
(* Credits are neither lost nor made by this sketch, which counts them:    *)
(* once the connected event has been handled and until the link is lost,   *)
(* what is available, on its way to the radio, held by it and on its way   *)
(* back makes the total, whatever earlier links left behind, as long as    *)
(* the radio has had no hardware error (lib_aci.c:594-604).  The uart      *)
(* sketch does not count, nor does lib_aci_send_data, of which             *)
(* lib_aci.h:368-370 says that it "memorizes credit use, and checks that   *)
(* enough credits are available".                                          *)
(***************************************************************************)
CreditsAccounted == at # Uart /\ LinkKnown => credits + Outstanding = Total

-----------------------------------------------------------------------------
(* A ring as a queue *)

\* The slot of the oldest sample, and so many follow each other from there.
First(s) == IF at = <<"advance", s>> THEN Following(s, fetch[s]) ELSE fetch[s]
Nth(s, n) == buffer[s][(First(s) + n) % BuffSize[s]]
Filled(s) == CHOOSE n \in 0 .. BuffSize[s] :
    /\ \A m \in 0 .. n - 1 : Nth(s, m) # NoData
    /\ n < BuffSize[s] => Nth(s, n) = NoData

Contents(s) == [n \in 1 .. Filled(s) |-> Nth(s, n - 1)]

HeartRing == INSTANCE Fifo WITH Messages <- Values[Heart], NoMessage <- NoData,
    Capacity <- BuffSize[Heart], queue <- Contents(Heart), out <- taken[Heart]

BatteryRing == INSTANCE Fifo WITH Messages <- Values[Battery], NoMessage <- NoData,
    Capacity <- BuffSize[Battery], queue <- Contents(Battery), out <- taken[Battery]

(***************************************************************************)
(* Each ring is a queue, although the interrupt may come between any two   *)
(* steps of the main loop and finds a slot only by what is in it: a sample *)
(* that was inserted is taken once, in its turn (heart_rate.cpp:74-113,    *)
(* battery.cpp:63-102).                                                    *)
(***************************************************************************)
SamplesFifo == HeartRing!Spec /\ BatteryRing!Spec
=============================================================================
