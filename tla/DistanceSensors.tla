-------------------------- MODULE DistanceSensors --------------------------
(***************************************************************************)
(* Several VL53L0X sensors on one bus, as Example/Source/vl53l0x_example.c *)
(* uses Source/vl53l0x.c: all are held in shutdown, then each in turn is   *)
(* started, given an address of its own, a mode, and set ranging; from     *)
(* then on they are polled in turn.  A sensor may be stopped and started   *)
(* again, and its ranging may be stopped for a change of its mode.         *)
(*                                                                         *)
(* The start of a sensor may fail.  It is then in whatever state the       *)
(* driver left it (vl53l0x.c:249 returns with another page of registers    *)
(* selected), so the application stops it, to start it again or to do      *)
(* without it.                                                             *)
(*                                                                         *)
(* The sensors are external.  One that is switched on answers at the       *)
(* address it was last told, which is the default address after its        *)
(* shutdown; whoever answers at the address takes a write.  It measures by *)
(* itself while the driver reads.  Reading from an address where nobody    *)
(* answers gives an arbitrary result.                                      *)
(***************************************************************************)
EXTENDS TimingBudget, Sequences

CONSTANTS Order,      \* the sensors in the order they are started and polled
          Own,        \* the address the application gives each of them
          Restarted,  \* sensors that may be stopped and started again
          Modes,      \* the budgets of the modes, in microseconds
          MaxSamples, \* bound on the measurements of a sensor
          MaxStops    \* bound on the calls of vl53l0x_stop and _stopContinuous

Default == 0          \* VL53L0X_ADDRESS_DEFAULT

Sensors == {Order[k] : k \in 1 .. Len(Order)}

ASSUME SensorsAssumption ==
    /\ Order \in Seq(Sensors) /\ Len(Order) > 0
    /\ \A j, k \in 1 .. Len(Order) : Order[j] = Order[k] => j = k
    /\ Own \in [Sensors -> Nat]
    /\ \A r, s \in Sensors : Own[r] = Own[s] => r = s
    /\ \A k \in 1 .. Len(Order) - 1 : Own[Order[k]] # Default
    /\ Restarted \subseteq {s \in Sensors : Own[s] = Default}
    /\ Modes \subseteq Nat
    /\ \A b \in Modes : Accepted(b) => FitsField(b)
    /\ MaxSamples \in Nat /\ MaxStops \in Nat

VARIABLES address,  \* the address field of each vl53l0x_struct_t
          on,       \* sensors not held in shutdown
          chip,     \* the address each sensor answers at
          ranging,  \* sensors that measure continuously
          made,     \* measurements of each sensor so far
          fresh,    \* sensors with a measurement that was not cleared
          final,    \* FINAL_RANGE_CONFIG_TIMEOUT_MACROP of each sensor
          pc,       \* what the application does next ...
          turn,     \* ... with Order[turn]
          tried,    \* so many sensors have been started, or tried
          up,       \* sensors in use
          wanted,   \* the budget that was accepted for each, 0 if none was
          last,     \* the latest reading the driver returned for each sensor
          stops

device == <<on, chip, ranging, made, fresh, final>>
app == <<address, up, wanted, last, tried>>
vars == <<address, on, chip, ranging, made, fresh, final, pc, turn, tried, up,
          wanted, last, stops>>

None == <<>>
Readings == Sensors \X (0 .. MaxSamples)
Addresses == {Default} \cup {Own[s] : s \in Sensors}

TypeOK ==
    /\ address \in [Sensors -> Addresses]
    /\ on \subseteq Sensors
    /\ chip \in [Sensors -> Addresses]
    /\ ranging \subseteq on /\ fresh \subseteq on
    /\ made \in [Sensors -> 0 .. MaxSamples]
    /\ final \in [Sensors -> Int]
    /\ pc \in {"start", "failed", "address", "mode", "range", "status", "read", "clear"}
    /\ turn \in 1 .. Len(Order)
    /\ tried \in 0 .. Len(Order)
    /\ up \subseteq on
    /\ wanted \in [Sensors -> Modes \cup {0}]
    /\ last \in [Sensors -> Readings \cup {None}]
    /\ stops \in 0 .. MaxStops

\* After vl53l0x_init of every sensor.
Init ==
    /\ address = [s \in Sensors |-> Default]
    /\ on = {} /\ chip = [s \in Sensors |-> Default]
    /\ ranging = {} /\ fresh = {}
    /\ made = [s \in Sensors |-> 0]
    /\ final = [s \in Sensors |-> 0]
    /\ pc = "start" /\ turn = 1 /\ tried = 0 /\ up = {}
    /\ wanted = [s \in Sensors |-> 0]
    /\ last = [s \in Sensors |-> None]
    /\ stops = 0

-----------------------------------------------------------------------------
(* The sensors *)

cur == Order[turn]

Answering(a) == {s \in on : chip[s] = a}

\* f with the value v for the sensors that answer at the address of cur.
Written(f, v) == [s \in Sensors |-> IF s \in Answering(address[cur]) THEN v ELSE f[s]]

Measure(s) ==
    /\ s \in ranging /\ made[s] < MaxSamples
    /\ made' = [made EXCEPT ![s] = @ + 1]
    /\ fresh' = fresh \cup {s}
    /\ UNCHANGED <<app, on, chip, ranging, final, pc, turn, stops>>

-----------------------------------------------------------------------------
(* The driver, one action per call, but for the reading *)

Following(n) == (n % Len(Order)) + 1

\* The application is done with cur: it starts the next or polls the next.
GoOn(done) ==
    /\ pc' = IF done = Len(Order) THEN "status" ELSE "start"
    /\ turn' = Following(turn)

\* The mode may be left out.
AfterStart == IF Own[cur] = Default THEN {"mode", "range"} ELSE {"address"}

\* vl53l0x_start: what answers at the address is configured, and not ranging;
\* the default budget it asks for, of 30, is refused.
Start ==
    /\ pc = "start"
    /\ on' = on \cup {cur}
    /\ chip' = [chip EXCEPT ![cur] = IF cur \in on THEN @ ELSE Default]
    /\ LET set == {s \in on' : chip'[s] = address[cur]}
       IN  /\ ranging' = ranging \ set /\ fresh' = fresh \ set
           /\ \/ /\ final' = [s \in Sensors |-> IF s \in set THEN TunedFinal ELSE final[s]]
                 /\ wanted' = [wanted EXCEPT ![cur] = 0]
                 /\ up' = up \cup {cur}
                 /\ pc' \in AfterStart
              \/ /\ stops < MaxStops
                 /\ pc' = "failed"
                 /\ UNCHANGED <<final, wanted, up>>
    /\ tried' = IF turn > tried THEN turn ELSE tried
    /\ UNCHANGED <<address, made, turn, last, stops>>

\* vl53l0x_setAddress
SetAddress ==
    /\ pc = "address"
    /\ chip' = Written(chip, Own[cur])
    /\ address' = [address EXCEPT ![cur] = Own[cur]]
    /\ pc' \in {"mode", "range"}
    /\ UNCHANGED <<on, ranging, made, fresh, final, turn, tried, up, wanted, last, stops>>

\* Seeded fault: the budget goes to the address sensors come up at.
FaultSetMode ==
    /\ pc = "mode"
    /\ \E b \in Modes :
         IF Accepted(b)
         THEN /\ final' = [s \in Sensors |->
                     IF s \in Answering(Default) THEN FinalFor(b) ELSE final[s]]
              /\ wanted' = [wanted EXCEPT ![cur] = b]
         ELSE UNCHANGED <<final, wanted>>
    /\ pc' = "range"
    /\ UNCHANGED <<address, on, chip, ranging, made, fresh, turn, tried, up, last, stops>>

\* vl53l0x_setMode
SetMode ==
    /\ pc = "mode"
    /\ \E b \in Modes :
         IF Accepted(b)
         THEN final' = Written(final, FinalFor(b)) /\ wanted' = [wanted EXCEPT ![cur] = b]
         ELSE UNCHANGED <<final, wanted>>
    /\ pc' = "range"
    /\ UNCHANGED <<address, on, chip, ranging, made, fresh, turn, tried, up, last, stops>>

\* vl53l0x_startContinuous
StartContinuous ==
    /\ pc = "range"
    /\ ranging' = ranging \cup Answering(address[cur])
    /\ GoOn(tried)
    /\ UNCHANGED <<app, on, chip, made, fresh, final, stops>>

\* vl53l0x_readRangeContinuous asks for the status; 0xFFFF if nothing is new.
Status ==
    /\ pc = "status" /\ cur \in up
    /\ \E new \in IF Answering(address[cur]) = {} THEN BOOLEAN
                  ELSE {Answering(address[cur]) \cap fresh # {}} :
         IF new THEN pc' = "read" /\ UNCHANGED turn
         ELSE pc' = "status" /\ turn' = Following(turn)
    /\ UNCHANGED <<app, device, stops>>

ReadRange ==
    /\ pc = "read"
    /\ \E r \in IF Answering(address[cur]) = {} THEN {None}
                ELSE {<<s, made[s]>> : s \in Answering(address[cur])} :
         last' = [last EXCEPT ![cur] = r]
    /\ pc' = "clear"
    /\ UNCHANGED <<address, up, wanted, tried, device, turn, stops>>

\* Seeded fault: the interrupt of the sensor is not cleared.
FaultClear ==
    /\ pc = "clear"
    /\ pc' = "status" /\ turn' = Following(turn)
    /\ UNCHANGED <<app, device, stops>>

Clear ==
    /\ pc = "clear"
    /\ fresh' = fresh \ Answering(address[cur])
    /\ pc' = "status" /\ turn' = Following(turn)
    /\ UNCHANGED <<app, on, chip, ranging, made, final, stops>>

\* The application does without the sensor.
Without ==
    /\ pc = "status" /\ cur \notin up
    /\ turn' = Following(turn)
    /\ UNCHANGED <<app, device, pc, stops>>

\* Seeded fault: the pin keeps its level.
FaultShutdown == UNCHANGED <<on, ranging, fresh>>

\* XSHUT goes low.
Shutdown ==
    /\ on' = on \ {cur}
    /\ ranging' = ranging \ {cur} /\ fresh' = fresh \ {cur}

\* vl53l0x_stop, of a sensor in use or of one that did not start: it is
\* started again, or the application goes on without.
Stop ==
    /\ \/ /\ pc = "status" /\ cur \in Restarted \cap up /\ stops < MaxStops
          /\ pc' = "start" /\ UNCHANGED turn
       \/ /\ pc = "failed"
          /\ (pc' = "start" /\ UNCHANGED turn) \/ GoOn(tried)
    /\ Shutdown
    /\ up' = up \ {cur}
    /\ stops' = stops + 1
    /\ UNCHANGED <<address, chip, made, final, tried, wanted, last>>

\* vl53l0x_stopContinuous, for another mode; it starts a last measurement.
StopContinuous ==
    /\ pc = "status" /\ cur \in up /\ stops < MaxStops
    /\ ranging' = ranging \ Answering(address[cur])
    /\ \/ UNCHANGED <<made, fresh>>
       \/ \E s \in Answering(address[cur]) :
            /\ made[s] < MaxSamples
            /\ made' = [made EXCEPT ![s] = @ + 1] /\ fresh' = fresh \cup {s}
    /\ stops' = stops + 1
    /\ pc' = "mode"
    /\ UNCHANGED <<app, on, chip, final, turn>>

Poll == Status \/ ReadRange \/ Clear \/ Without

Next ==
    \/ \E s \in Sensors : Measure(s)
    \/ Start \/ SetAddress \/ SetMode \/ StartContinuous
    \/ Poll \/ Stop \/ StopContinuous

Spec == Init /\ [][Next]_vars

\* The application goes on for ever.
FairSpec == Spec /\ WF_vars(Start) /\ WF_vars(SetAddress) /\ WF_vars(SetMode)
                 /\ WF_vars(StartContinuous) /\ WF_vars(Poll)
                 /\ WF_vars(Stop /\ pc = "failed")

-----------------------------------------------------------------------------
(***************************************************************************)
(* Each sensor in use answers where its structure says, and no other does, *)
(* although all come up at the same address, and although one may fail to  *)
(* start (vl53l0x_example.c:204-216, vl53l0x.c:249, 748-757).              *)
(***************************************************************************)
AloneAtAddress == \A s \in up : Answering(address[s]) = {s}

(***************************************************************************)
(* Each reading is a measurement of the sensor that was asked, and of a    *)
(* later one than the reading before, although the sensor measures on      *)
(* between the status, the reading and the clearing (vl53l0x.c:873-887).   *)
(***************************************************************************)
NewReading(s) == last'[s][1] = s /\ (last[s] # None => last'[s][2] > last[s][2])

ReadingsAreNew == [][ReadRange => NewReading(cur)]_vars

(***************************************************************************)
(* A measurement of a sensor in use takes as long as the budget that was   *)
(* accepted for that sensor, and not the one of its neighbour or the one   *)
(* from before it was started again (vl53l0x.c:280-301, 503-556).          *)
(***************************************************************************)
BudgetMet == \A s \in up : wanted[s] # 0 => Meets(final[s], wanted[s])

(***************************************************************************)
(* A measurement does not wait for ever to be read, for all the other      *)
(* sensors there are, those that failed to start included                  *)
(* (vl53l0x_example.c:218-242).                                            *)
(***************************************************************************)
EachIsRead == \A s \in Sensors : s \in fresh ~> s \notin fresh

=============================================================================
