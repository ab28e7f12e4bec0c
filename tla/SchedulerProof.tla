--------------------------- MODULE SchedulerProof ---------------------------
(***************************************************************************)
(* The scheduler for every set of functions, table size, counter width and *)
(* number of interrupts.  What holds for every client comes first, then    *)
(* what the client of SchedulerStatic is promised (every interrupt is      *)
(* accounted for, and enabled tasks run exactly every Interval passes),    *)
(* then the client of SchedulerDynamic (only wanted functions run, and a   *)
(* walk counts every task that is wanted throughout it exactly once).      *)
(***************************************************************************)
EXTENDS SchedulerStatic, SchedulerDynamic, TLAPS

(***************************************************************************)
(* u16 arithmetic stays in u16: the remainder modulo Wrap of any integer.  *)
(***************************************************************************)
LEMMA WrapInU16 == \A n \in Int : n % Wrap \in U16
BY SchedulerAssumption DEF U16

(***************************************************************************)
(* A slot is described by its four fields; replacing some of them by       *)
(* values of the right type leaves a slot.                                 *)
(***************************************************************************)
LEMMA SlotFields ==
    ASSUME NEW p \in U16, NEW f \in Functions \cup {NoFunction},
           NEW b \in BOOLEAN, NEW c \in U16
    PROVE  [period |-> p, function |-> f, isActive |-> b, countdown |-> c] \in Slot
BY DEF Slot

(***************************************************************************)
(* Every step of the main context and of the interrupt preserves the types *)
(* and keeps task functions in the slots in use.                           *)
(***************************************************************************)
Inv == TypeOK /\ NoNullCall /\ (pc = "task" => i \in Slots)

LEMMA InitInv == Init => Inv
<1> SUFFICES ASSUME Init PROVE Inv
  OBVIOUS
<1>1. 0 \in U16
  BY SchedulerAssumption DEF U16
<1>2. [period |-> 0, function |-> NoFunction, isActive |-> FALSE, countdown |-> 0] \in Slot
  BY <1>1 DEF Slot
<1>3. taskTable \in [Slots -> Slot]
  BY ONLY <1>2, Init DEF Init
<1>4. /\ millisecondPassed = FALSE /\ milliseconds = 0 /\ maxActiveTasks = 0
      /\ timerOn = FALSE /\ pc = "boot" /\ i = 0
  BY DEF Init
<1>5. 0 \in 0 .. MaxTasks /\ 0 .. -1 = {}
  BY SchedulerAssumption
<1>6. TypeOK /\ NoNullCall
  <2>1. Used = {}
    BY <1>4, <1>5 DEF Used
  <2> QED BY ONLY <1>1, <1>3, <1>4, <1>5, <2>1 DEF TypeOK, Places, NoNullCall
<1> QED BY <1>4, <1>6 DEF Inv

LEMMA CreateInv ==
    ASSUME Inv, NEW f \in Functions, NEW p \in Periods, CreateTask(f, p)
    PROVE  Inv'
<1> USE SchedulerAssumption DEF CreateTask, NoTimerChange, Inv, TypeOK, NoNullCall, Used, Slots
<1>1. maxActiveTasks \in Slots /\ p \in U16
  BY DEF U16
<1>2. taskTable[maxActiveTasks].isActive \in BOOLEAN
  BY <1>1 DEF Slot
<1>3. [period |-> p, function |-> f,
       isActive |-> taskTable[maxActiveTasks].isActive, countdown |-> p] \in Slot
  BY <1>1, <1>2, SlotFields
<1>4. TypeOK'
  BY <1>1, <1>3
<1>5. NoNullCall'
  BY <1>1, <1>4
<1> QED BY <1>4, <1>5

LEMMA DestroyInv ==
    ASSUME Inv, NEW f \in Functions, DestroyTask(f)
    PROVE  Inv'
<1> USE SchedulerAssumption DEF DestroyTask, NoTimerChange, Inv, TypeOK, NoNullCall, Used, Slots
<1>1. PICK s \in Slots :
         /\ IsFirst(s, f)
         /\ taskTable' = [j \in Slots |->
                IF s <= j /\ j < maxActiveTasks - 1 THEN MovedDown(j) ELSE taskTable[j]]
  OBVIOUS
<1>2. s \in Used /\ maxActiveTasks > 0
  BY <1>1 DEF IsFirst
<1>3. \A j \in Slots : s <= j /\ j < maxActiveTasks - 1 =>
         /\ j + 1 \in Slots /\ j + 1 \in Used
         /\ MovedDown(j) \in Slot
         /\ MovedDown(j).function = taskTable[j + 1].function
  BY DEF Slot, MovedDown
<1>4. taskTable' \in [Slots -> Slot]
  BY <1>1, <1>3
<1>5. TypeOK'
  BY <1>2, <1>4
<1>6. NoNullCall'
  <2> SUFFICES ASSUME NEW j \in Used' PROVE taskTable'[j].function \in Functions
    OBVIOUS
  <2>1. j \in Slots /\ j < maxActiveTasks - 1
    BY <1>2
  <2>2. CASE s <= j
    BY <1>1, <1>3, <2>1, <2>2 DEF Slot
  <2>3. CASE ~(s <= j)
    BY <1>1, <2>1, <2>3
  <2> QED BY <2>2, <2>3
<1> QED BY <1>5, <1>6

LEMMA SetActiveInv ==
    ASSUME Inv, NEW f \in Functions, NEW b \in BOOLEAN, SetActive(f, b)
    PROVE  Inv'
<1> USE DEF SetActive, NoTimerChange, Inv, TypeOK, NoNullCall, Used, Slots
<1>1. PICK s \in Slots : taskTable' = [taskTable EXCEPT ![s].isActive = b]
  OBVIOUS
<1>2. taskTable' \in [Slots -> Slot]
  BY <1>1 DEF Slot
<1>3. \A r \in Slots : taskTable'[r].function = taskTable[r].function
  BY <1>1 DEF Slot
<1> QED BY SchedulerAssumption, <1>2, <1>3

LEMMA LoopInv ==
    ASSUME Inv, Loop
    PROVE  Inv'
<1> USE SchedulerAssumption DEF Inv, TypeOK, NoNullCall, Used, Slots, Places
<1>1. CASE LoopEnter
  BY <1>1 DEF LoopEnter, tableVars
<1>2. CASE LoopStep
  <2> USE <1>2 DEF LoopStep
  <2>1. i \in Slots /\ Decremented \in U16
    BY WrapInU16 DEF Decremented, Slot, U16
  <2>2. taskTable' \in [Slots -> Slot]
    BY <2>1 DEF Slot
  <2>3. \A r \in Slots : taskTable'[r].function = taskTable[r].function
    BY <2>1 DEF Slot
  <2> QED BY <2>1, <2>2, <2>3
<1>3. CASE TaskReturn
  <2> USE <1>3 DEF TaskReturn
  <2>1. CASE i \in Slots
    <3>1. taskTable' \in [Slots -> Slot]
      BY <2>1 DEF Slot
    <3>2. \A r \in Slots : taskTable'[r].function = taskTable[r].function
      BY <2>1 DEF Slot
    <3> QED BY <2>1, <3>1, <3>2
  <2> QED BY <2>1
<1>4. CASE LoopExit
  BY <1>4 DEF LoopExit, tableVars
<1> QED BY <1>1, <1>2, <1>3, <1>4 DEF Loop

LEMMA NextInv == Inv /\ [Next]_vars => Inv'
<1> SUFFICES ASSUME Inv, [Next]_vars PROVE Inv'
  OBVIOUS
<1> USE SchedulerAssumption
<1>1. CASE Tick
  <2>1. milliseconds' \in U16
    BY <1>1, WrapInU16 DEF Tick, Inv, TypeOK, U16
  <2> QED BY <1>1, <2>1 DEF Tick, Inv, TypeOK, NoNullCall, Used, tableVars
<1>2. CASE SchedulerInit
  <2>1. 0 \in U16 /\ 0 \in 0 .. MaxTasks
    BY DEF U16
  <2>2. TypeOK'
    BY ONLY <1>2, <2>1, Inv DEF SchedulerInit, Inv, TypeOK, Places
  <2> QED BY <1>2, <2>2 DEF SchedulerInit, Inv, NoNullCall, Used
<1>3. CASE Start \/ Stop
  BY <1>3 DEF Start, Stop, Inv, TypeOK, NoNullCall, Used, tableVars
<1>4. CASE TableOp
  BY <1>4, CreateInv, DestroyInv, SetActiveInv DEF TableOp, EnableTask, DisableTask
<1>5. CASE Loop
  BY <1>5, LoopInv
<1>6. CASE UNCHANGED vars
  BY <1>6 DEF vars, tableVars, Inv, TypeOK, NoNullCall, Used
<1> QED BY <1>1, <1>2, <1>3, <1>4, <1>5, <1>6 DEF Next

(***************************************************************************)
(* For any client, any table size and any counter width: the variables of  *)
(* the scheduler keep their types; the reload after a task function        *)
(* returns stays inside the table (scheduler.c:127).                       *)
(***************************************************************************)
THEOREM TypeCorrect == Spec => []TypeOK
<1>1. Inv => TypeOK
  BY DEF Inv
<1> QED BY InitInv, NextInv, <1>1, PTL DEF Spec

(***************************************************************************)
(* For any client: the loop never calls through a null function pointer    *)
(* (scheduler.c:126), destroyTask's shifting included.                     *)
(***************************************************************************)
THEOREM NeverNull == Spec => []NoNullCall
<1>1. Inv => NoNullCall
  BY DEF Inv
<1> QED BY InitInv, NextInv, <1>1, PTL DEF Spec

-----------------------------------------------------------------------------
(* The client of SchedulerStatic *)

HistoryOK ==
    /\ ticks \in Nat
    /\ overruns \in Nat
    /\ passes \in Nat
    /\ lastRun \in [Slots -> Nat]

\* A walk is under way only while the flag that started it is still set.
WalkFlagged == pc \in {"scan", "task"} => millisecondPassed

\* Before the first interrupt no task ran and no countdown moved.
Fresh ==
    ticks = 0 => /\ \A s \in Slots : lastRun[s] = 0
                 /\ \A s \in Used : taskTable[s].countdown = taskTable[s].period

\* The flag is still clear when scheduler_init runs.
BootIdle == pc = "boot" => ~millisecondPassed /\ ~timerOn

StaticInductive ==
    /\ Inv
    /\ HistoryOK
    /\ TicksAccounted
    /\ WalkFlagged
    /\ BootIdle
    /\ Fresh
    /\ OnSchedule

(***************************************************************************)
(* countdown-- takes one off the passes to go, the wrap at zero included.  *)
(***************************************************************************)
LEMMA CountdownFalls ==
    ASSUME Inv, i \in Slots
    PROVE  ToGo(i) \in 1 .. Wrap /\ Decremented = ToGo(i) - 1
<1>1. taskTable[i].countdown \in 0 .. Wrap - 1
  BY DEF Inv, TypeOK, Slot, U16
<1>2. \A c \in 0 .. Wrap - 1 : (c - 1) % Wrap = IF c = 0 THEN Wrap - 1 ELSE c - 1
  <2> SUFFICES ASSUME NEW c \in 0 .. Wrap - 1
               PROVE  (c - 1) % Wrap = IF c = 0 THEN Wrap - 1 ELSE c - 1
    OBVIOUS
  <2>1. CASE c = 0
    BY SchedulerAssumption, <2>1
  <2>2. CASE c > 0
    BY SchedulerAssumption, <2>2
  <2> QED BY <2>1, <2>2
<1> QED BY SchedulerAssumption, <1>1, <1>2 DEF Decremented, ToGo

LEMMA StaticStepsAreSteps == StaticNext => [Next]_vars
BY DEF StaticNext, SetUp, CountedTick, CountedStep, CountedExit, StaticSilent, Next, TableOp, Loop

LEMMA StaticInitInv == StaticInit => StaticInductive
<1> SUFFICES ASSUME StaticInit PROVE StaticInductive
  OBVIOUS
<1>1. Inv
  BY InitInv DEF StaticInit
<1>2. /\ millisecondPassed = FALSE /\ maxActiveTasks = 0 /\ pc = "boot"
      /\ timerOn = FALSE /\ ticks = 0 /\ overruns = 0 /\ passes = 0 /\ lastRun = [s \in Slots |-> 0]
  BY DEF StaticInit, Init
<1>3. Used = {}
  BY <1>2 DEF Used
<1> QED BY ONLY <1>1, <1>2, <1>3
        DEF StaticInductive, HistoryOK, TicksAccounted, WalkFlagged, BootIdle, Fresh, OnSchedule

(***************************************************************************)
(* Setting up: no interrupt has fired, so every slot in use is still due   *)
(* its whole interval, and a slot created or enabled now is as well.       *)
(***************************************************************************)
LEMMA SetUpInv ==
    ASSUME StaticInductive, SetUp, Inv'
    PROVE  StaticInductive'
<1> USE DEF StaticInductive, HistoryOK
<1>1. UNCHANGED staticHistory
  BY DEF SetUp
<1>2. CASE pc = "boot" /\ SchedulerInit
  <2>1. Used' = {}
    BY <1>2 DEF SchedulerInit, Used
  <2>2. ~millisecondPassed
    BY <1>2 DEF BootIdle
  <2>3. ~millisecondPassed' /\ pc' = "idle" /\ UNCHANGED <<ticks, overruns, passes, lastRun>>
    BY <1>1, <1>2 DEF SchedulerInit, staticHistory
  <2>4. TicksAccounted'
    BY <2>2, <2>3 DEF TicksAccounted
  <2> QED BY <2>1, <2>3, <2>4 DEF WalkFlagged, BootIdle, Fresh, OnSchedule
<1>3. CASE SettingUp /\ \E f \in Functions : \/ \E p \in Periods : CreateTask(f, p)
                                             \/ EnableTask(f)
                                             \/ DisableTask(f)
  <2>1. ticks = 0 /\ passes = 0 /\ pc = "idle" /\ ~millisecondPassed
    BY <1>3 DEF SettingUp, TicksAccounted
  <2>2. NoTimerChange
    BY <1>3 DEF CreateTask, EnableTask, DisableTask, SetActive
  <2>3. \A s \in Used' : taskTable'[s].countdown = taskTable'[s].period
    <3>1. CASE \E f \in Functions, p \in Periods : CreateTask(f, p)
      BY <3>1, <2>1 DEF CreateTask, Fresh, Used, Inv, TypeOK, Slots
    <3>2. CASE \E f \in Functions, b \in BOOLEAN : SetActive(f, b)
      BY <3>2, <2>1 DEF SetActive, Fresh, Used, Inv, TypeOK, Slots, Slot
    <3> QED BY <1>3, <3>1, <3>2 DEF EnableTask, DisableTask
  <2>4. \A s \in Used' : /\ lastRun'[s] = 0
                         /\ ToGo(s)' = Interval(s)'
                         /\ Interval(s)' \in Nat
    <3> SUFFICES ASSUME NEW s \in Used'
                 PROVE  /\ lastRun'[s] = 0
                        /\ ToGo(s)' = Interval(s)'
                        /\ Interval(s)' \in Nat
      OBVIOUS
    <3>1. s \in Slots
      <4>1. maxActiveTasks' \in 0 .. MaxTasks
        BY DEF Inv, TypeOK
      <4>2. \A m \in 0 .. MaxTasks : 0 .. m - 1 \subseteq Slots
        BY SchedulerAssumption DEF Slots
      <4> QED BY ONLY <4>1, <4>2, s \in Used' DEF Used
    <3>2. lastRun'[s] = 0
      BY <1>1, <2>1, <3>1 DEF staticHistory, Fresh
    <3>3. taskTable'[s].period \in Nat
      BY <3>1, SchedulerAssumption DEF Inv, TypeOK, Slot, U16
    <3> QED BY <2>3, <3>2, <3>3, SchedulerAssumption DEF ToGo, Interval
  <2>5. pc' = "idle" /\ UNCHANGED <<timerOn, ticks, overruns, passes, lastRun, millisecondPassed>>
    BY <1>1, <2>1, <2>2 DEF NoTimerChange, staticHistory
  <2>6. OnSchedule'
    BY <2>1, <2>4, <2>5 DEF OnSchedule, Counted
  <2>7. Fresh' /\ WalkFlagged' /\ BootIdle'
    BY <2>3, <2>5 DEF Fresh, WalkFlagged, BootIdle
  <2> QED BY <2>5, <2>6, <2>7 DEF TicksAccounted
<1> QED BY <1>2, <1>3 DEF SetUp

(***************************************************************************)
(* An interrupt, and starting or stopping the timer, leave table and walk  *)
(* alone.                                                                  *)
(***************************************************************************)
LEMMA TickInv ==
    ASSUME StaticInductive, CountedTick, Inv'
    PROVE  StaticInductive'
<1> USE DEF StaticInductive, HistoryOK
<1>1. /\ ticks' = ticks + 1 /\ millisecondPassed' = TRUE
      /\ overruns' = IF millisecondPassed THEN overruns + 1 ELSE overruns
      /\ UNCHANGED <<passes, lastRun, maxActiveTasks, taskTable, timerOn, pc, i>>
      /\ timerOn
  BY DEF CountedTick, Tick, tableVars
<1>2. TicksAccounted' /\ WalkFlagged' /\ HistoryOK'
  BY <1>1 DEF TicksAccounted, WalkFlagged
<1>3. BootIdle' /\ Fresh'
  BY <1>1 DEF BootIdle, Fresh
<1>4. OnSchedule'
  BY <1>1 DEF OnSchedule, Used, ToGo, Interval, Counted
<1> QED BY <1>2, <1>3, <1>4

LEMMA SilentInv ==
    ASSUME StaticInductive, (Start \/ Stop \/ LoopEnter) /\ UNCHANGED staticHistory, Inv'
    PROVE  StaticInductive'
<1> USE DEF StaticInductive, HistoryOK
<1>1. UNCHANGED <<ticks, overruns, passes, lastRun, millisecondPassed, maxActiveTasks, taskTable>>
  BY DEF Start, Stop, LoopEnter, staticHistory, tableVars
<1>2. CASE Start \/ Stop
  <2>1. UNCHANGED <<pc, i>> /\ pc # "boot"
    BY <1>2 DEF Start, Stop
  <2> QED BY <1>1, <2>1 DEF TicksAccounted, WalkFlagged, BootIdle, Fresh, OnSchedule,
                            Used, ToGo, Interval, Counted
<1>3. CASE LoopEnter
  <2>1. pc = "idle" /\ pc' = "scan" /\ i' = 0 /\ millisecondPassed
    BY <1>3 DEF LoopEnter
  <2>2. \A s \in Used' : ~Counted(s) /\ ~Counted(s)'
    BY <1>1, <2>1 DEF Used, Counted
  <2>3. OnSchedule'
    BY <1>1, <2>1, <2>2 DEF OnSchedule, Used, ToGo, Interval
  <2> QED BY <1>1, <2>1, <2>3 DEF TicksAccounted, WalkFlagged, BootIdle, Fresh, Used
<1> QED BY <1>2, <1>3

(***************************************************************************)
(* One turn of the loop takes one pass off slot i; if none is left, the    *)
(* function is called, exactly an interval after the last time.            *)
(***************************************************************************)
LEMMA StepInv ==
    ASSUME StaticInductive, CountedStep, Inv'
    PROVE  /\ StaticInductive'
           /\ \A s \in Slots : lastRun'[s] # lastRun[s] =>
                  lastRun'[s] - lastRun[s] = Interval(s)
<1> USE DEF StaticInductive, HistoryOK
<1>1. /\ pc = "scan" /\ i < maxActiveTasks
      /\ UNCHANGED <<ticks, overruns, passes, millisecondPassed, maxActiveTasks, timerOn>>
      /\ taskTable' = [taskTable EXCEPT ![i].countdown = Decremented]
      /\ lastRun' = IF Due THEN [lastRun EXCEPT ![i] = passes + 1] ELSE lastRun
      /\ IF Due THEN pc' = "task" /\ i' = i ELSE pc' = "scan" /\ i' = i + 1
  BY DEF CountedStep, LoopStep
<1>2. i \in Slots /\ i \in Used /\ Used \subseteq Slots /\ i \in Nat
  BY <1>1, SchedulerAssumption DEF Inv, TypeOK, Slots, Used
<1>3. ToGo(i) \in 1 .. Wrap /\ Decremented = ToGo(i) - 1
  BY <1>2, CountdownFalls
<1>4. \A s \in Slots : /\ taskTable'[s].period = taskTable[s].period
                       /\ taskTable'[s].isActive = taskTable[s].isActive
                       /\ taskTable'[s].countdown =
                              IF s = i THEN Decremented ELSE taskTable[s].countdown
  BY <1>1, <1>2 DEF Inv, TypeOK, Slot
<1>5. \A s \in Slots : Interval(s) \in Nat /\ Interval(s)' = Interval(s)
  BY <1>4, SchedulerAssumption DEF Interval, Inv, TypeOK, Slot, U16
<1>6. \A s \in Slots : s # i => ToGo(s)' = ToGo(s)
  BY <1>4 DEF ToGo
<1>7. \A s \in Slots : ToGo(s) \in Nat
  BY SchedulerAssumption DEF ToGo, Inv, TypeOK, Slot, U16
<1>8. ticks # 0
  BY <1>1 DEF WalkFlagged, TicksAccounted
<1>9. taskTable[i].isActive =>
         ToGo(i) <= Interval(i) /\ passes - lastRun[i] = Interval(i) - ToGo(i)
  BY <1>1, <1>2 DEF OnSchedule, Counted
<1>10. Due => passes + 1 - lastRun[i] = Interval(i)
  BY <1>2, <1>3, <1>5, <1>7, <1>9 DEF Due
<1>11. \A s \in Slots : lastRun'[s] # lastRun[s] => lastRun'[s] - lastRun[s] = Interval(s)
  BY <1>1, <1>2, <1>10
<1>12. HistoryOK' /\ TicksAccounted' /\ WalkFlagged' /\ BootIdle' /\ Fresh'
  BY <1>1, <1>2, <1>8 DEF TicksAccounted, WalkFlagged, BootIdle, Fresh
<1>13. OnSchedule'
  <2> SUFFICES ASSUME NEW s \in Used', taskTable'[s].isActive
               PROVE  IF pc' = "task" /\ s = i'
                      THEN lastRun'[s] = passes' + 1
                      ELSE /\ ToGo(s)' <= Interval(s)'
                           /\ passes' + (IF Counted(s)' THEN 1 ELSE 0) - lastRun'[s]
                                  = Interval(s)' - ToGo(s)'
    BY DEF OnSchedule
  <2>1. s \in Slots /\ s \in Used /\ taskTable[s].isActive /\ s \in Nat
    BY <1>1, <1>2, <1>4 DEF Used
  <2>2. CASE s # i
    <3>1. Counted(s)' <=> Counted(s)
      BY <1>1, <1>2, <2>1, <2>2 DEF Counted
    <3>2. lastRun'[s] = lastRun[s]
      BY <1>1, <1>2, <2>1, <2>2
    <3>3. /\ ToGo(s) <= Interval(s)
          /\ passes + (IF Counted(s) THEN 1 ELSE 0) - lastRun[s] = Interval(s) - ToGo(s)
      BY <1>1, <2>1, <2>2 DEF OnSchedule
    <3>4. ~(pc' = "task" /\ s = i')
      BY <1>1, <2>2
    <3> QED BY <1>1, <1>5, <1>6, <2>1, <2>2, <3>1, <3>2, <3>3, <3>4
  <2>3. CASE s = i /\ Due
    BY <1>1, <1>2, <2>3
  <2>4. CASE s = i /\ ~Due
    <3>1. Decremented # 0 /\ lastRun'[s] = lastRun[s] /\ Counted(s)' /\ pc' = "scan"
      BY <1>1, <1>2, <2>1, <2>4 DEF Due, Counted
    <3>2. ToGo(s)' = ToGo(s) - 1
      BY <1>3, <1>4, <2>1, <2>4, <3>1 DEF ToGo
    <3> QED BY <1>1, <1>2, <1>3, <1>5, <1>7, <1>9, <2>1, <2>4, <3>1, <3>2
  <2> QED BY <2>2, <2>3, <2>4
<1> QED BY <1>11, <1>12, <1>13

(***************************************************************************)
(* The function returns and slot i starts a new interval, having been run  *)
(* in this very walk.                                                      *)
(***************************************************************************)
LEMMA ReturnInv ==
    ASSUME StaticInductive, TaskReturn /\ UNCHANGED staticHistory, Inv'
    PROVE  StaticInductive'
<1> USE DEF StaticInductive, HistoryOK
<1>1. /\ pc = "task" /\ pc' = "scan" /\ i' = i + 1
      /\ UNCHANGED <<ticks, overruns, passes, lastRun, millisecondPassed, maxActiveTasks, timerOn>>
      /\ taskTable' = [taskTable EXCEPT ![i].countdown = taskTable[i].period]
  BY DEF TaskReturn, staticHistory
<1>2. i \in Slots /\ Used \subseteq Slots /\ i \in Nat
  BY <1>1, SchedulerAssumption DEF Inv, TypeOK, Slots, Used
<1>3. \A s \in Slots : /\ taskTable'[s].period = taskTable[s].period
                       /\ taskTable'[s].isActive = taskTable[s].isActive
                       /\ taskTable'[s].countdown =
                              IF s = i THEN taskTable[i].period ELSE taskTable[s].countdown
  BY <1>1, <1>2 DEF Inv, TypeOK, Slot
<1>4. \A s \in Slots : Interval(s) \in Nat /\ Interval(s)' = Interval(s)
  BY <1>3, SchedulerAssumption DEF Interval, Inv, TypeOK, Slot, U16
<1>5. \A s \in Slots : ToGo(s)' = IF s = i THEN Interval(s) ELSE ToGo(s)
  BY <1>2, <1>3 DEF ToGo, Interval
<1>6. ticks # 0
  BY <1>1 DEF WalkFlagged, TicksAccounted
<1>7. HistoryOK' /\ TicksAccounted' /\ WalkFlagged' /\ BootIdle' /\ Fresh'
  BY <1>1, <1>6 DEF TicksAccounted, WalkFlagged, BootIdle, Fresh
<1>8. OnSchedule'
  <2> SUFFICES ASSUME NEW s \in Used', taskTable'[s].isActive
               PROVE  /\ ToGo(s)' <= Interval(s)'
                      /\ passes' + (IF Counted(s)' THEN 1 ELSE 0) - lastRun'[s]
                             = Interval(s)' - ToGo(s)'
    BY <1>1 DEF OnSchedule
  <2>1. s \in Slots /\ s \in Used /\ taskTable[s].isActive /\ s \in Nat
    BY <1>1, <1>2, <1>3 DEF Used
  <2>2. CASE s # i
    <3>1. Counted(s)' <=> Counted(s)
      BY <1>1, <1>2, <2>1, <2>2 DEF Counted
    <3>2. /\ ToGo(s) <= Interval(s)
          /\ passes + (IF Counted(s) THEN 1 ELSE 0) - lastRun[s] = Interval(s) - ToGo(s)
      BY <2>1, <2>2 DEF OnSchedule
    <3> QED BY <1>1, <1>4, <1>5, <2>1, <2>2, <3>1, <3>2
  <2>3. CASE s = i
    <3>1. Counted(s)' /\ lastRun[s] = passes + 1
      BY <1>1, <1>2, <2>1, <2>3 DEF Counted, OnSchedule
    <3>2. ToGo(s)' = Interval(s)' /\ Interval(s)' \in Nat
      BY <1>4, <1>5, <2>1, <2>3
    <3> QED BY <1>1, <2>3, <3>1, <3>2
  <2> QED BY <2>2, <2>3
<1> QED BY <1>7, <1>8

(***************************************************************************)
(* At the end of a walk every slot has been counted: the pass is complete  *)
(* and its interrupt answered.                                             *)
(***************************************************************************)
LEMMA ExitInv ==
    ASSUME StaticInductive, CountedExit, Inv'
    PROVE  StaticInductive'
<1> USE DEF StaticInductive, HistoryOK
<1>1. /\ pc = "scan" /\ pc' = "idle" /\ i >= maxActiveTasks
      /\ passes' = passes + 1 /\ millisecondPassed' = FALSE
      /\ UNCHANGED <<ticks, overruns, lastRun, maxActiveTasks, taskTable, timerOn, i>>
  BY DEF CountedExit, LoopExit, tableVars
<1>2. millisecondPassed /\ ticks # 0
  BY <1>1 DEF WalkFlagged, TicksAccounted
<1>3. HistoryOK' /\ TicksAccounted' /\ WalkFlagged' /\ BootIdle' /\ Fresh'
  BY <1>1, <1>2 DEF TicksAccounted, WalkFlagged, BootIdle, Fresh
<1>4. \A s \in Used : Counted(s) /\ ~Counted(s)'
  BY <1>1 DEF Counted, Used, Inv, TypeOK
<1>5. \A s \in Used : ToGo(s)' = ToGo(s) /\ Interval(s)' = Interval(s)
  BY <1>1 DEF ToGo, Interval
<1>6. Used' = Used /\ Used \subseteq Slots
  BY <1>1, SchedulerAssumption DEF Used, Inv, TypeOK, Slots
<1>7. OnSchedule'
  BY <1>1, <1>4, <1>5, <1>6 DEF OnSchedule
<1> QED BY <1>3, <1>7

LEMMA StaticNextInv ==
    StaticInductive /\ [StaticNext]_staticVars =>
        /\ StaticInductive'
        /\ \A s \in Slots : lastRun'[s] # lastRun[s] =>
               lastRun'[s] - lastRun[s] = Interval(s)
<1> SUFFICES ASSUME StaticInductive, [StaticNext]_staticVars
             PROVE  /\ StaticInductive'
                    /\ \A s \in Slots : lastRun'[s] # lastRun[s] =>
                           lastRun'[s] - lastRun[s] = Interval(s)
  OBVIOUS
<1>1. Inv'
  BY StaticStepsAreSteps, NextInv DEF StaticInductive, staticVars
<1>2. CASE CountedStep
  BY <1>1, <1>2, StepInv
<1>3. CASE SetUp \/ CountedTick \/ CountedExit \/ StaticSilent
  <2>1. lastRun' = lastRun
    BY <1>3 DEF SetUp, CountedTick, CountedExit, StaticSilent, staticHistory
  <2> QED BY <1>1, <1>3, <2>1, SetUpInv, TickInv, ExitInv, SilentInv, ReturnInv DEF StaticSilent
<1>4. CASE UNCHANGED staticVars
  BY <1>4 DEF staticVars, vars, tableVars, staticHistory, StaticInductive, Inv, TypeOK, NoNullCall, HistoryOK,
              TicksAccounted, WalkFlagged, BootIdle, Fresh, OnSchedule, Used, ToGo, Interval,
              Counted
<1> QED BY <1>2, <1>3, <1>4 DEF StaticNext

(***************************************************************************)
(* No interrupt goes missing except the counted overruns (scheduler.c:36,  *)
(* 119, 130), for every table and however interrupts and walks interleave. *)
(***************************************************************************)
THEOREM AccountsForTicks == StaticSpec => []TicksAccounted
<1>1. StaticInductive => TicksAccounted
  BY DEF StaticInductive
<1> QED BY StaticInitInv, StaticNextInv, <1>1, PTL DEF StaticSpec

(***************************************************************************)
(* What keeps the schedule: the inductive invariant of the countdowns.     *)
(***************************************************************************)
THEOREM KeepsSchedule == StaticSpec => []OnSchedule
<1>1. StaticInductive => OnSchedule
  BY DEF StaticInductive
<1> QED BY StaticInitInv, StaticNextInv, <1>1, PTL DEF StaticSpec

(***************************************************************************)
(* Every enabled task runs exactly every Interval passes (scheduler.c:121- *)
(* 129), for every table, period and counter width.                        *)
(***************************************************************************)
THEOREM RunsEveryInterval == StaticSpec => ExactPeriod
<1>1. StaticInductive /\ [StaticNext]_staticVars =>
        [\A s \in Slots : lastRun'[s] # lastRun[s] =>
            lastRun'[s] - lastRun[s] = Interval(s)]_staticVars
  BY StaticNextInv
<1> QED BY StaticInitInv, StaticNextInv, <1>1, PTL DEF StaticSpec, ExactPeriod

-----------------------------------------------------------------------------
(* The client of SchedulerDynamic *)

F(s) == taskTable[s].function

\* The loop index has gone past slot s, or is at it with its task running.
Passed(s) == s < i \/ (s = i /\ pc = "task")

WalkOK ==
    /\ present \subseteq wanted
    /\ pc \in {"scan", "task"} =>
          \A s \in Used : F(s) \in present => (F(s) \in counted <=> Passed(s))

DynamicInductive == Inv /\ BitsMatch /\ WalkOK

\* No operation has been called before scheduler_init.
Booting == pc = "boot" => maxActiveTasks = 0

LEMMA UsedSlots == Inv => Used \subseteq Slots /\ Used \subseteq Nat
BY SchedulerAssumption DEF Inv, TypeOK, Used, Slots

LEMMA DynamicStepsAreSteps == DynamicNext => [Next]_vars
BY DEF DynamicNext, Register, Remove, SwitchOn, SwitchOff, BeginWalk, CountStep, DynamicSilent,
       Next, TableOp, Loop

LEMMA DynamicInitInv == DynamicInit => DynamicInductive /\ Booting
<1> SUFFICES ASSUME DynamicInit PROVE DynamicInductive /\ Booting
  OBVIOUS
<1>1. Inv
  BY InitInv DEF DynamicInit
<1>2. maxActiveTasks = 0 /\ pc = "boot" /\ wanted = {} /\ present = {}
  BY DEF DynamicInit, Init
<1>3. Used = {}
  BY <1>2 DEF Used
<1>4. \A s \in Slots : taskTable[s].isActive = FALSE
  BY DEF DynamicInit, Init
<1> QED BY <1>1, <1>2, <1>3, <1>4 DEF DynamicInductive, Booting, BitsMatch, WalkOK, Registered

(***************************************************************************)
(* A registered function takes a slot whose bit is clear, and was not      *)
(* wanted before.                                                          *)
(***************************************************************************)
LEMMA RegisterInv ==
    ASSUME DynamicInductive, Inv', NEW f \in Functions, NEW p \in Periods, Register(f, p)
    PROVE  DynamicInductive'
<1> DEFINE m == maxActiveTasks
<1>1. /\ m \in Nat /\ m \in Slots /\ m < MaxTasks /\ Used = 0 .. m - 1
      /\ Used' = 0 .. m /\ Used \subseteq Slots
  BY SchedulerAssumption DEF DynamicInductive, Inv, TypeOK, Register, CreateTask, Used, Slots
<1>2. /\ taskTable' = [taskTable EXCEPT ![m] =
             [period |-> p, function |-> f, isActive |-> @.isActive, countdown |-> p]]
      /\ UNCHANGED <<wanted, present, counted, pc, i>>
      /\ ~Registered(f)
  BY DEF Register, CreateTask, NoTimerChange, dynamicHistory
<1>3. \A s \in Slots : /\ F(s)' = IF s = m THEN f ELSE F(s)
                       /\ taskTable'[s].isActive = taskTable[s].isActive
  BY <1>1, <1>2 DEF F, DynamicInductive, Inv, TypeOK, Slot
<1>4. f \notin wanted /\ \A s \in Used : F(s) # f /\ s # m
  BY <1>1, <1>2 DEF DynamicInductive, BitsMatch, Registered, F
<1>5. \A s \in Used' : s \in Slots /\ (s \in Used \/ s = m)
  BY <1>1
<1>6. ~taskTable[m].isActive
  BY <1>1 DEF DynamicInductive, BitsMatch
<1>7. \A r, s \in Used' : F(r)' = F(s)' => r = s
  BY <1>3, <1>4, <1>5 DEF DynamicInductive, BitsMatch, F
<1>8. \A s \in Used' : taskTable'[s].isActive <=> F(s)' \in wanted'
  BY <1>2, <1>3, <1>4, <1>5, <1>6 DEF DynamicInductive, BitsMatch, F
<1>9. \A s \in Slots \ Used' : ~taskTable'[s].isActive
  BY <1>1, <1>3 DEF DynamicInductive, BitsMatch
<1>10. \A g \in wanted' : Registered(g)'
  <2> SUFFICES ASSUME NEW g \in wanted PROVE \E s \in Used' : F(s)' = g
    BY <1>2 DEF Registered, F
  <2>1. PICK s \in Used : F(s) = g
    BY DEF DynamicInductive, BitsMatch, Registered, F
  <2> QED BY <1>1, <1>3, <1>4, <2>1
<1>11. BitsMatch'
  BY <1>7, <1>8, <1>9, <1>10 DEF BitsMatch, F
<1>12. WalkOK'
  <2>1. present' \subseteq wanted'
    BY <1>2 DEF DynamicInductive, WalkOK
  <2>2. \A s \in Used' : F(s)' \in present' => s \in Used /\ F(s)' = F(s)
    BY <1>2, <1>3, <1>4, <1>5 DEF DynamicInductive, WalkOK
  <2> QED BY <1>2, <2>1, <2>2 DEF DynamicInductive, WalkOK, Passed
<1> QED BY <1>11, <1>12 DEF DynamicInductive

(***************************************************************************)
(* Removing a task moves only tasks nobody wants, so every bit that moves  *)
(* out of place is clear, as is the bit of the slot that falls free.       *)
(***************************************************************************)
LEMMA RemoveInv ==
    ASSUME DynamicInductive, Inv', NEW f \in Functions, Remove(f)
    PROVE  DynamicInductive'
<1> DEFINE m == maxActiveTasks
<1>1. PICK t \in Used : IsFirst(t, f) /\ \A r \in Used : r >= t => F(r) \notin wanted
  BY DEF Remove, F
<1>2. PICK s \in Slots :
        /\ IsFirst(s, f)
        /\ taskTable' = [j \in Slots |-> IF s <= j /\ j < m - 1
                                         THEN MovedDown(j) ELSE taskTable[j]]
  BY DEF Remove, DestroyTask
<1>3. s = t /\ s \in Used
  BY <1>1, <1>2 DEF IsFirst, DynamicInductive, BitsMatch
<1>4. UNCHANGED <<wanted, present, counted, pc, i>> /\ maxActiveTasks' = m - 1
  BY DEF Remove, DestroyTask, NoTimerChange, dynamicHistory
<1>5. m \in Nat /\ m <= MaxTasks /\ Used = 0 .. m - 1 /\ Used' = 0 .. m - 2
  BY <1>4 DEF DynamicInductive, Inv, TypeOK, Used
<1>6. \A j \in Slots : /\ F(j)' = IF s <= j /\ j < m - 1 THEN F(j + 1) ELSE F(j)
                       /\ taskTable'[j].isActive = taskTable[j].isActive
  BY <1>2 DEF F, MovedDown
<1>7. \A j \in Used' : j \in Slots /\ j \in Used /\ j + 1 \in Used /\ j < m - 1
  BY <1>5, SchedulerAssumption DEF Slots
<1>8. \A j \in Used : j >= s => F(j) \notin wanted /\ ~taskTable[j].isActive
  BY <1>1, <1>3 DEF DynamicInductive, BitsMatch, F
<1>9. \A j \in Used' : IF s <= j THEN F(j)' \notin wanted /\ ~taskTable[j].isActive
                                 ELSE F(j)' = F(j)
  BY <1>3, <1>5, <1>6, <1>7, <1>8
<1>10. \A r, j \in Used' : F(r)' = F(j)' => r = j
  <2> SUFFICES ASSUME NEW r \in Used', NEW j \in Used', F(r)' = F(j)' PROVE r = j
    OBVIOUS
  <2>1. \A a, b \in Used : F(a) = F(b) => a = b
    BY DEF DynamicInductive, BitsMatch, F
  <2>2. r \in Int /\ j \in Int /\ s \in Int
    BY <1>3, <1>5
  <2>3. F(r)' = F(IF s <= r THEN r + 1 ELSE r) /\ F(j)' = F(IF s <= j THEN j + 1 ELSE j)
    BY <1>6, <1>7
  <2>4. (IF s <= r THEN r + 1 ELSE r) = (IF s <= j THEN j + 1 ELSE j)
    BY <1>7, <2>1, <2>3
  <2> QED BY <2>2, <2>4
<1>11. \A j \in Used' : taskTable'[j].isActive <=> F(j)' \in wanted'
  BY <1>4, <1>6, <1>7, <1>9 DEF DynamicInductive, BitsMatch, F
<1>12. \A j \in Slots \ Used' : ~taskTable'[j].isActive
  <2> SUFFICES ASSUME NEW j \in Slots \ Used' PROVE ~taskTable[j].isActive
    BY <1>6
  <2>1. j \notin Used \/ j = m - 1
    BY <1>5
  <2>2. m - 1 \in Used /\ m - 1 >= s
    BY <1>3, <1>5
  <2> QED BY <1>8, <2>1, <2>2 DEF DynamicInductive, BitsMatch
<1>13. \A g \in wanted' : Registered(g)'
  <2> SUFFICES ASSUME NEW g \in wanted PROVE \E j \in Used' : F(j)' = g
    BY <1>4 DEF Registered, F
  <2>1. PICK j \in Used : F(j) = g
    BY DEF DynamicInductive, BitsMatch, Registered, F
  <2>2. j < s /\ j \in Used'
    BY <1>3, <1>5, <1>8, <2>1
  <2> QED BY <1>3, <1>5, <1>6, <1>7, <2>1, <2>2
<1>14. BitsMatch'
  BY <1>10, <1>11, <1>12, <1>13 DEF BitsMatch, F
<1>15. WalkOK'
  <2>1. present' \subseteq wanted'
    BY <1>4 DEF DynamicInductive, WalkOK
  <2>2. \A j \in Used' : F(j)' \in present' => j \in Used /\ F(j)' = F(j)
    BY <1>4, <1>7, <1>9 DEF DynamicInductive, WalkOK
  <2> QED BY <1>4, <2>1, <2>2 DEF DynamicInductive, WalkOK, Passed
<1> QED BY <1>14, <1>15 DEF DynamicInductive

(***************************************************************************)
(* Enabling and disabling set the bit of the one slot the function is in.  *)
(***************************************************************************)
LEMMA SwitchInv ==
    ASSUME DynamicInductive, Inv', NEW f \in Functions, SwitchOn(f) \/ SwitchOff(f)
    PROVE  DynamicInductive'
<1>1. /\ UNCHANGED <<maxActiveTasks, pc, i, counted>>
      /\ Used' = Used
  BY DEF SwitchOn, SwitchOff, EnableTask, DisableTask, SetActive, NoTimerChange, Used
<1>2. PICK b \in BOOLEAN :
        /\ SetActive(f, b)
        /\ wanted' = IF b THEN wanted \cup {f} ELSE wanted \ {f}
        /\ present' \subseteq present
        /\ present' \subseteq wanted'
  BY DEF SwitchOn, SwitchOff, EnableTask, DisableTask, DynamicInductive, WalkOK
<1>3. PICK t \in Slots : IsFirst(t, f) /\ taskTable' = [taskTable EXCEPT ![t].isActive = b]
  BY <1>2 DEF SetActive
<1>4. t \in Used /\ F(t) = f
  BY <1>3 DEF IsFirst, F
<1>5. \A s \in Slots : /\ F(s)' = F(s)
                       /\ taskTable'[s].isActive = IF s = t THEN b ELSE taskTable[s].isActive
  BY <1>3 DEF F, DynamicInductive, Inv, TypeOK, Slot
<1>6. Used \subseteq Slots
  BY UsedSlots DEF DynamicInductive
<1>7. \A s \in Used : F(s) = f <=> s = t
  BY <1>4 DEF DynamicInductive, BitsMatch, F
<1>8. \A s \in Used : taskTable'[s].isActive <=> F(s) \in wanted'
  BY <1>2, <1>5, <1>6, <1>7 DEF DynamicInductive, BitsMatch, F
<1>9. \A g \in wanted' : \E s \in Used : F(s) = g
  BY <1>2, <1>4 DEF DynamicInductive, BitsMatch, Registered, F
<1>10. BitsMatch'
  BY <1>1, <1>4, <1>5, <1>6, <1>8, <1>9 DEF DynamicInductive, BitsMatch, Registered, F
<1>11. WalkOK'
  BY <1>1, <1>2, <1>5, <1>6 DEF DynamicInductive, WalkOK, Passed
<1> QED BY <1>10, <1>11 DEF DynamicInductive

(***************************************************************************)
(* The loop leaves functions and bits alone; its index separates the slots *)
(* it has counted from those it has not.                                   *)
(***************************************************************************)
LEMMA LoopKeepsBits ==
    ASSUME DynamicInductive, Inv', BeginWalk \/ CountStep \/ ((TaskReturn \/ LoopExit) /\ UNCHANGED dynamicHistory)
    PROVE  /\ BitsMatch'
           /\ Used' = Used
           /\ \A s \in Used : F(s)' = F(s)
<1>1. Used' = Used /\ wanted' = wanted
  BY DEF BeginWalk, CountStep, LoopEnter, LoopStep, TaskReturn, LoopExit, dynamicHistory, tableVars, Used
<1>2. \A s \in Slots : F(s)' = F(s) /\ taskTable'[s].isActive = taskTable[s].isActive
  <2>1. CASE UNCHANGED taskTable
    BY <2>1 DEF F
  <2>2. CASE \E c : taskTable' = [taskTable EXCEPT ![i].countdown = c]
    BY <2>2 DEF F, DynamicInductive, Inv, TypeOK, Slot
  <2> QED BY <2>1, <2>2
          DEF BeginWalk, CountStep, LoopEnter, LoopStep, TaskReturn, LoopExit, tableVars
<1>3. Used \subseteq Slots
  BY UsedSlots DEF DynamicInductive
<1> QED BY <1>1, <1>2, <1>3 DEF DynamicInductive, BitsMatch, Registered, F

LEMMA WalkInv ==
    ASSUME DynamicInductive, Inv', BeginWalk \/ CountStep \/ ((TaskReturn \/ LoopExit) /\ UNCHANGED dynamicHistory)
    PROVE  DynamicInductive'
<1>1. BitsMatch' /\ Used' = Used /\ \A s \in Used : F(s)' = F(s)
  BY LoopKeepsBits
<1>2. Used \subseteq Nat /\ i \in Nat
  BY UsedSlots DEF DynamicInductive, Inv, TypeOK
<1>3. CASE BeginWalk
  <2>1. present' = wanted' /\ counted' = {} /\ pc' = "scan" /\ i' = 0
    BY <1>3 DEF BeginWalk, LoopEnter
  <2> QED BY <1>1, <1>2, <2>1 DEF DynamicInductive, WalkOK, Passed
<1>4. CASE CountStep
  <2>1. /\ pc = "scan" /\ i \in Used
        /\ counted' = counted \cup {F(i)} /\ UNCHANGED <<wanted, present>>
        /\ (pc' = "task" /\ i' = i) \/ (pc' = "scan" /\ i' = i + 1)
    BY <1>2, <1>4 DEF CountStep, LoopStep, F, Used, DynamicInductive, Inv, TypeOK
  <2>2. \A s \in Used : Passed(s)' <=> Passed(s) \/ s = i
    BY <1>2, <2>1 DEF Passed
  <2>3. \A s \in Used : F(s) = F(i) <=> s = i
    BY <2>1 DEF DynamicInductive, BitsMatch, F
  <2> QED BY <1>1, <2>1, <2>2, <2>3 DEF DynamicInductive, WalkOK
<1>5. CASE TaskReturn /\ UNCHANGED dynamicHistory
  <2>1. pc = "task" /\ pc' = "scan" /\ i' = i + 1 /\ UNCHANGED <<wanted, present, counted>>
    BY <1>5 DEF TaskReturn, dynamicHistory
  <2>2. \A s \in Used : Passed(s)' <=> Passed(s)
    BY <1>2, <2>1 DEF Passed
  <2> QED BY <1>1, <2>1, <2>2 DEF DynamicInductive, WalkOK
<1>6. CASE LoopExit /\ UNCHANGED dynamicHistory
  BY <1>1, <1>6 DEF LoopExit, dynamicHistory, DynamicInductive, WalkOK
<1> QED BY <1>3, <1>4, <1>5, <1>6

LEMMA QuietInv ==
    ASSUME DynamicInductive, Booting, Inv',
                       \/ UNCHANGED dynamicVars
                       \/ ((pc = "boot" /\ SchedulerInit) \/ Start \/ Stop \/ Tick)
                          /\ UNCHANGED dynamicHistory
    PROVE  DynamicInductive'
<1>1. CASE pc = "boot" /\ SchedulerInit /\ UNCHANGED dynamicHistory
  <2>1. Used' = {} /\ pc' = "idle" /\ UNCHANGED <<taskTable, wanted, present, counted>>
    BY <1>1 DEF SchedulerInit, dynamicHistory, Used
  <2>2. Used = {} /\ wanted = {}
    BY <1>1 DEF DynamicInductive, Booting, Used, BitsMatch, Registered
  <2> QED BY <2>1, <2>2 DEF DynamicInductive, BitsMatch, WalkOK, Registered
<1>2. CASE UNCHANGED <<maxActiveTasks, taskTable, pc, i, wanted, present, counted>>
  BY <1>2 DEF DynamicInductive, BitsMatch, WalkOK, Registered, Passed, F, Used
<1> QED BY <1>1, <1>2 DEF Start, Stop, Tick, tableVars, dynamicHistory, dynamicVars, vars

LEMMA BootingNext == Booting /\ [Next]_vars => Booting'
BY DEF Booting, vars, tableVars, Next, Tick, SchedulerInit, Start, Stop, TableOp, CreateTask,
       DestroyTask, EnableTask, DisableTask, SetActive, MayCall, NoTimerChange, Loop, LoopEnter,
       LoopStep, TaskReturn, LoopExit

LEMMA DynamicNextInv == DynamicInductive /\ Booting /\ [DynamicNext]_dynamicVars => DynamicInductive' /\ Booting'
<1> SUFFICES ASSUME DynamicInductive, Booting, [DynamicNext]_dynamicVars PROVE DynamicInductive' /\ Booting'
  OBVIOUS
<1>1. Inv' /\ Booting'
  BY DynamicStepsAreSteps, NextInv, BootingNext DEF DynamicInductive, dynamicVars
<1>2. ASSUME NEW f \in Functions, NEW p \in Periods, Register(f, p) PROVE DynamicInductive'
  BY <1>1, <1>2, RegisterInv
<1>3. ASSUME NEW f \in Functions, Remove(f) PROVE DynamicInductive'
  BY <1>1, <1>3, RemoveInv
<1>4. ASSUME NEW f \in Functions, SwitchOn(f) \/ SwitchOff(f) PROVE DynamicInductive'
  BY <1>1, <1>4, SwitchInv
<1> QED BY <1>1, <1>2, <1>3, <1>4, WalkInv, QuietInv DEF DynamicNext, DynamicSilent

(***************************************************************************)
(* For a client that registers a function once and destroys a task only    *)
(* while it and those created after it are disabled: the isActive bits,    *)
(* which destroyTask leaves behind and createTask takes over               *)
(* (scheduler.c:68-90), always say what the client asked for.              *)
(***************************************************************************)
THEOREM BitsAlwaysMatch == DynamicSpec => []BitsMatch
<1>1. DynamicInductive => BitsMatch
  BY DEF DynamicInductive
<1> QED BY DynamicInitInv, DynamicNextInv, <1>1, PTL DEF DynamicSpec

(***************************************************************************)
(* For the same client a function is called only while it wants it         *)
(* (scheduler.c:126).                                                      *)
(***************************************************************************)
THEOREM OnlyWanted == DynamicSpec => OnlyWantedRun
<1>1. DynamicInductive /\ [DynamicNext]_dynamicVars =>
        [pc # "task" /\ pc' = "task" => taskTable[i].function \in wanted]_dynamicVars
  <2> SUFFICES ASSUME DynamicInductive, DynamicNext, pc # "task", pc' = "task"
               PROVE  taskTable[i].function \in wanted
    OBVIOUS
  <2>1. CASE CountStep
    <3>1. i \in Used /\ taskTable[i].isActive
      BY <2>1 DEF CountStep, LoopStep, Due, Used, DynamicInductive, Inv, TypeOK
    <3> QED BY <3>1 DEF DynamicInductive, BitsMatch
  <2>2. CASE ~CountStep
    BY <2>2 DEF DynamicNext, Register, Remove, SwitchOn, SwitchOff, BeginWalk, DynamicSilent,
                CreateTask, DestroyTask, EnableTask, DisableTask, SetActive, NoTimerChange,
                SchedulerInit, Start, Stop, Tick, LoopEnter, TaskReturn, LoopExit
  <2> QED BY <2>1, <2>2
<1> QED BY DynamicInitInv, DynamicNextInv, <1>1, PTL DEF DynamicSpec, OnlyWantedRun

(***************************************************************************)
(* For a client that registers a function once and destroys a task only    *)
(* while it and those created after it are disabled: a walk counts every   *)
(* task wanted throughout it exactly once, although task functions create, *)
(* enable, disable and, within these rules, destroy tasks under it         *)
(* (scheduler.c:121-129).  A task that destroys itself below an enabled    *)
(* one breaks the rules, and there the walk does skip a task.              *)
(***************************************************************************)
THEOREM WalksCountOnce == DynamicSpec => CountsOnce
<1>1. DynamicInductive /\ [DynamicNext]_dynamicVars =>
        [/\ pc = "scan" /\ pc' = "idle" => present \subseteq counted
         /\ CountStep => taskTable[i].function \notin present \cap counted]_dynamicVars
  <2> SUFFICES ASSUME DynamicInductive, DynamicNext
               PROVE  /\ pc = "scan" /\ pc' = "idle" => present \subseteq counted
                      /\ CountStep => taskTable[i].function \notin present \cap counted
    OBVIOUS
  <2>1. ASSUME pc = "scan", pc' = "idle" PROVE present \subseteq counted
    <3>1. LoopExit
      BY <2>1 DEF DynamicNext, Register, Remove, SwitchOn, SwitchOff, BeginWalk, CountStep,
                  DynamicSilent, CreateTask, DestroyTask, EnableTask, DisableTask, SetActive,
                  NoTimerChange, SchedulerInit, Start, Stop, Tick, LoopEnter, LoopStep, TaskReturn
    <3>2. \A s \in Used : Passed(s)
      BY <3>1 DEF LoopExit, Passed, Used, DynamicInductive, Inv, TypeOK
    <3>3. \A f \in present : \E s \in Used : F(s) = f
      BY DEF DynamicInductive, WalkOK, BitsMatch, Registered, F
    <3> QED BY <2>1, <3>2, <3>3 DEF DynamicInductive, WalkOK
  <2>2. ASSUME CountStep PROVE taskTable[i].function \notin present \cap counted
    <3>1. pc = "scan" /\ i \in Used /\ ~Passed(i)
      BY <2>2 DEF CountStep, LoopStep, Used, Passed, DynamicInductive, Inv, TypeOK
    <3> QED BY <3>1 DEF DynamicInductive, WalkOK, F
  <2> QED BY <2>1, <2>2
<1> QED BY DynamicInitInv, DynamicNextInv, <1>1, PTL DEF DynamicSpec, CountsOnce
=============================================================================
