-------------------------- MODULE SchedulerStatic --------------------------
(***************************************************************************)
(* Scheduler under the client Example/Source/scheduler_example.c shows:    *)
(* tasks are created and enabled before the timer starts, and the table is *)
(* left alone from then on.  History variables count the interrupts and    *)
(* the passes, and remember the pass in which each slot last ran, so that  *)
(* the scheduling promised to such a client can be stated.                 *)
(***************************************************************************)
EXTENDS Scheduler

CONSTANT MaxTicks       \* bound on the interrupts of a behaviour

ASSUME MaxTicksAssumption == MaxTicks \in Nat

VARIABLES ticks,     \* interrupts so far
          overruns,  \* interrupts that found b_millisecondPassed already TRUE
          passes,    \* completed walks over the table
          lastRun    \* per slot, the walk that last called its function

staticHistory == <<ticks, overruns, passes, lastRun>>
staticVars == <<vars, staticHistory>>

StaticInit ==
    /\ Init
    /\ ticks = 0
    /\ overruns = 0
    /\ passes = 0
    /\ lastRun = [s \in Slots |-> 0]

\* The application is still setting up: no interrupt has fired yet.
SettingUp == pc = "idle" /\ ~timerOn /\ ticks = 0

SetUp ==
    /\ \/ pc = "boot" /\ SchedulerInit
       \/ /\ SettingUp
          /\ \E f \in Functions : \/ \E p \in Periods : CreateTask(f, p)
                                  \/ EnableTask(f)
                                  \/ DisableTask(f)
    /\ UNCHANGED staticHistory

CountedTick ==
    /\ Tick
    /\ ticks < MaxTicks
    /\ ticks' = ticks + 1
    /\ overruns' = IF millisecondPassed THEN overruns + 1 ELSE overruns
    /\ UNCHANGED <<passes, lastRun>>

CountedStep ==
    /\ LoopStep
    /\ lastRun' = IF Due THEN [lastRun EXCEPT ![i] = passes + 1] ELSE lastRun
    /\ UNCHANGED <<ticks, overruns, passes>>

CountedExit ==
    /\ LoopExit
    /\ passes' = passes + 1
    /\ UNCHANGED <<ticks, overruns, lastRun>>

StaticSilent == (Start \/ Stop \/ LoopEnter \/ TaskReturn) /\ UNCHANGED staticHistory

StaticNext == SetUp \/ CountedTick \/ CountedStep \/ CountedExit \/ StaticSilent

StaticSpec == StaticInit /\ [][StaticNext]_staticVars

-----------------------------------------------------------------------------
(* A task of period 0 is reloaded with 0 and first wraps: it runs every Wrap. *)
Interval(s) == IF taskTable[s].period = 0 THEN Wrap ELSE taskTable[s].period

(***************************************************************************)
(* An enabled task runs every Interval passes, to the pass: whenever its   *)
(* function is called, exactly Interval passes have gone by since the walk *)
(* that called it last (or since the start), whatever the other slots do   *)
(* and whenever interrupts fire during the walk (scheduler.c:121-129).     *)
(***************************************************************************)
ExactPeriod ==
    [][\A s \in Slots : lastRun'[s] # lastRun[s] =>
           lastRun'[s] - lastRun[s] = Interval(s)]_staticVars

(***************************************************************************)
(* Every interrupt is accounted for once: it is answered by a pass of its  *)
(* own, is waiting for one, or found the flag still set and is lost.  No   *)
(* pass happens without an interrupt, and clearing the flag at the end of  *)
(* the pass (scheduler.c:130) loses none but the counted overruns, so the  *)
(* passes, and with them every period, only ever lag real time.            *)
(***************************************************************************)
TicksAccounted ==
    ticks = passes + overruns + (IF millisecondPassed THEN 1 ELSE 0)

(***************************************************************************)
(* What makes ExactPeriod true.  In slot s, the passes gone by since the   *)
(* last run and the passes still to go add up to the interval; a slot the  *)
(* current walk has already counted is one pass ahead of the others.       *)
(***************************************************************************)
ToGo(s) == IF taskTable[s].countdown = 0 THEN Wrap ELSE taskTable[s].countdown

Counted(s) == (pc = "scan" /\ s < i) \/ (pc = "task" /\ s < i)

OnSchedule ==
    \A s \in Used : taskTable[s].isActive =>
        IF pc = "task" /\ s = i
        THEN lastRun[s] = passes + 1
        ELSE /\ ToGo(s) <= Interval(s)
             /\ passes + (IF Counted(s) THEN 1 ELSE 0) - lastRun[s]
                    = Interval(s) - ToGo(s)
=============================================================================
