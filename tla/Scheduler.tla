----------------------------- MODULE Scheduler -----------------------------
(***************************************************************************)
(* The cooperative scheduler of Source/scheduler.c.  Two contexts share    *)
(* its variables: the timer's overflow interrupt (scheduler_tick) and the  *)
(* main context, which either runs the application, walks the task table   *)
(* in scheduler_loop, or is inside a task function scheduler_loop called.  *)
(* The interrupt may fire between any two steps of the main context; the   *)
(* table operations are one step each because the interrupt does not touch *)
(* the table.                                                              *)
(*                                                                         *)
(* What the application does is limited only by MainOps and TaskOps, the   *)
(* operations it calls from its main code and from inside task functions,  *)
(* and by never filling the table: scheduler_createTask does not check its *)
(* capacity, so calling it with a full table is undefined.                 *)
(***************************************************************************)
EXTENDS Integers

CONSTANTS Functions,    \* the task functions of the application
          NoFunction,   \* the null pointer in a slot no task ever used
          Periods,      \* the periods tasks are created with
          MaxTasks,     \* SCHEDULER_MAX_NO_OF_TASKS
          Wrap,         \* 2^16: u16 arithmetic is modulo Wrap
          MainOps,      \* operations called outside scheduler_loop
          TaskOps       \* operations called from inside a task function

Operations == {"create", "destroy", "enable", "disable"}

ASSUME SchedulerAssumption ==
    /\ NoFunction \notin Functions
    /\ MaxTasks \in Nat \ {0}
    /\ Wrap \in Nat \ {0}
    /\ Periods \subseteq 0 .. Wrap - 1
    /\ MainOps \subseteq Operations
    /\ TaskOps \subseteq Operations

VARIABLES millisecondPassed,  \* b_millisecondPassed
          milliseconds,       \* u16_milliseconds
          maxActiveTasks,     \* u8_maxActiveTasks
          taskTable,          \* task_table
          timerOn,            \* the timer counts and its interrupt is enabled
          pc,                 \* where the main context is
          i                   \* the loop index of scheduler_loop

tableVars == <<maxActiveTasks, taskTable>>
vars == <<millisecondPassed, milliseconds, tableVars, timerOn, pc, i>>

Slots == 0 .. MaxTasks - 1
U16   == 0 .. Wrap - 1

Slot == [period : U16, function : Functions \cup {NoFunction},
         isActive : BOOLEAN, countdown : U16]

\* boot: before scheduler_init.  idle: application code outside scheduler_loop.
\* scan: in the for loop.  task: inside the function of slot i.
Places == {"boot", "idle", "scan", "task"}

TypeOK ==
    /\ millisecondPassed \in BOOLEAN
    /\ milliseconds \in U16
    /\ maxActiveTasks \in 0 .. MaxTasks
    /\ taskTable \in [Slots -> Slot]
    /\ timerOn \in BOOLEAN
    /\ pc \in Places
    /\ i \in 0 .. MaxTasks

\* The C start-up code zeroes the variables; scheduler_init has not run.
Init ==
    /\ millisecondPassed = FALSE
    /\ milliseconds = 0
    /\ maxActiveTasks = 0
    /\ taskTable = [s \in Slots |-> [period |-> 0, function |-> NoFunction,
                                     isActive |-> FALSE, countdown |-> 0]]
    /\ timerOn = FALSE
    /\ pc = "boot"
    /\ i = 0

-----------------------------------------------------------------------------
(* The timer interrupt *)

\* Seeded fault: an interrupt that finds the flag set toggles it.
FaultTickToggles ==
    /\ timerOn
    /\ millisecondPassed' = ~millisecondPassed
    /\ milliseconds' = (milliseconds + 1) % Wrap
    /\ UNCHANGED <<tableVars, timerOn, pc, i>>

Tick ==
    /\ timerOn
    /\ millisecondPassed' = TRUE
    /\ milliseconds' = (milliseconds + 1) % Wrap
    /\ UNCHANGED <<tableVars, timerOn, pc, i>>

-----------------------------------------------------------------------------
(* Starting and stopping *)

\* The application (re)initialises with the timer stopped.  The table itself
\* is not cleared: a slot keeps its isActive bit.
SchedulerInit ==
    /\ pc \in {"boot", "idle"}
    /\ ~timerOn
    /\ maxActiveTasks' = 0
    /\ milliseconds' = 0
    /\ millisecondPassed' = FALSE
    /\ pc' = "idle"
    /\ UNCHANGED <<taskTable, timerOn, i>>

Start ==
    /\ pc \in {"idle", "task"}
    /\ timerOn' = TRUE
    /\ UNCHANGED <<millisecondPassed, milliseconds, tableVars, pc, i>>

Stop ==
    /\ pc \in {"idle", "task"}
    /\ timerOn' = FALSE
    /\ UNCHANGED <<millisecondPassed, milliseconds, tableVars, pc, i>>

-----------------------------------------------------------------------------
(* The operations on the task table *)

MayCall(op) ==
    \/ pc = "idle" /\ op \in MainOps
    \/ pc = "task" /\ op \in TaskOps

Used == 0 .. maxActiveTasks - 1

\* The slot at which the search loops of destroy, enable and disable break.
IsFirst(s, f) ==
    /\ s \in Used
    /\ taskTable[s].function = f
    /\ \A r \in Used : r < s => taskTable[r].function # f

NoTimerChange == UNCHANGED <<millisecondPassed, milliseconds, timerOn, pc, i>>

\* Seeded fault: the count is advanced before the slot is written.
FaultCreateAfterCount(f, p) ==
    /\ MayCall("create")
    /\ maxActiveTasks < MaxTasks
    /\ taskTable' = [taskTable EXCEPT ![maxActiveTasks + 1] =
           [period |-> p, function |-> f, isActive |-> @.isActive, countdown |-> p]]
    /\ maxActiveTasks' = maxActiveTasks + 1
    /\ NoTimerChange

\* isActive is not assigned: the new task takes over the bit of its slot.
CreateTask(f, p) ==
    /\ MayCall("create")
    /\ maxActiveTasks < MaxTasks
    /\ taskTable' = [taskTable EXCEPT ![maxActiveTasks] =
           [period |-> p, function |-> f, isActive |-> @.isActive, countdown |-> p]]
    /\ maxActiveTasks' = maxActiveTasks + 1
    /\ NoTimerChange

\* Only period and function move down; isActive and countdown stay behind.
MovedDown(j) == [period    |-> taskTable[j + 1].period,
                 function  |-> taskTable[j + 1].function,
                 isActive  |-> taskTable[j].isActive,
                 countdown |-> taskTable[j].countdown]

DestroyTask(f) ==
    /\ MayCall("destroy")
    /\ \E s \in Slots :
         /\ IsFirst(s, f)
         /\ taskTable' = [j \in Slots |-> IF s <= j /\ j < maxActiveTasks - 1
                                         THEN MovedDown(j) ELSE taskTable[j]]
    /\ maxActiveTasks' = maxActiveTasks - 1
    /\ NoTimerChange

SetActive(f, b) ==
    /\ \E s \in Slots :
         /\ IsFirst(s, f)
         /\ taskTable' = [taskTable EXCEPT ![s].isActive = b]
    /\ UNCHANGED maxActiveTasks
    /\ NoTimerChange

EnableTask(f)  == MayCall("enable") /\ SetActive(f, TRUE)
DisableTask(f) == MayCall("disable") /\ SetActive(f, FALSE)

-----------------------------------------------------------------------------
(* scheduler_loop, called forever by the application's main loop *)

LoopEnter ==
    /\ pc = "idle"
    /\ millisecondPassed
    /\ pc' = "scan"
    /\ i' = 0
    /\ UNCHANGED <<millisecondPassed, milliseconds, tableVars, timerOn>>

\* The u16 countdown of slot i after countdown--.
Decremented == (taskTable[i].countdown - 1) % Wrap

\* Seeded fault: whether the slot is active is not looked at.
FaultDueInactive == Decremented = 0

Due == Decremented = 0 /\ taskTable[i].isActive

\* One turn of the for loop, up to the call of the task function if it is due.
LoopStep ==
    /\ pc = "scan"
    /\ i < maxActiveTasks
    /\ taskTable' = [taskTable EXCEPT ![i].countdown = Decremented]
    /\ IF Due THEN pc' = "task" /\ i' = i
              ELSE pc' = "scan" /\ i' = i + 1
    /\ UNCHANGED <<millisecondPassed, milliseconds, maxActiveTasks, timerOn>>

\* Seeded fault: the slot is looked at again after its function returned.
FaultReturnStays ==
    /\ pc = "task"
    /\ taskTable' = [taskTable EXCEPT ![i].countdown = taskTable[i].period]
    /\ pc' = "scan"
    /\ i' = i
    /\ UNCHANGED <<millisecondPassed, milliseconds, maxActiveTasks, timerOn>>

\* The function returns: slot i, whoever is in it now, is reloaded.
TaskReturn ==
    /\ pc = "task"
    /\ taskTable' = [taskTable EXCEPT ![i].countdown = taskTable[i].period]
    /\ pc' = "scan"
    /\ i' = i + 1
    /\ UNCHANGED <<millisecondPassed, milliseconds, maxActiveTasks, timerOn>>

\* Seeded fault: the flag is left set if an interrupt may have come meanwhile.
FaultExitKeepsFlag ==
    /\ pc = "scan"
    /\ i >= maxActiveTasks
    /\ millisecondPassed' = timerOn
    /\ pc' = "idle"
    /\ UNCHANGED <<milliseconds, tableVars, timerOn, i>>

\* The flag is cleared after the walk: ticks during the walk are forgotten.
LoopExit ==
    /\ pc = "scan"
    /\ i >= maxActiveTasks
    /\ millisecondPassed' = FALSE
    /\ pc' = "idle"
    /\ UNCHANGED <<milliseconds, tableVars, timerOn, i>>

Loop == LoopEnter \/ LoopStep \/ TaskReturn \/ LoopExit

TableOp == \E f \in Functions :
               \/ \E p \in Periods : CreateTask(f, p)
               \/ DestroyTask(f)
               \/ EnableTask(f)
               \/ DisableTask(f)

Next == Tick \/ SchedulerInit \/ Start \/ Stop \/ TableOp \/ Loop

Spec == Init /\ [][Next]_vars

\* The interrupt fires while the timer counts, the main loop calls
\* scheduler_loop forever, and task functions return.
Fairness == WF_vars(Tick) /\ WF_vars(Loop)

FairSpec == Spec /\ Fairness

-----------------------------------------------------------------------------
(* Properties *)

(***************************************************************************)
(* Whatever the application and its tasks do to the table, every slot the  *)
(* loop may call out of holds a task function: scheduler_loop never jumps  *)
(* through the null pointer of a slot no task was put in                   *)
(* (scheduler.c:70-89, 126).                                               *)
(***************************************************************************)
NoNullCall == \A s \in Used : taskTable[s].function \in Functions

\* The first slot of f is enabled now.
Enabled(f) == \E s \in Slots : IsFirst(s, f) /\ taskTable[s].isActive

Running(f) == pc = "task" /\ taskTable[i].function = f

(***************************************************************************)
(* With the timer running, a task that stays enabled is called again and   *)
(* again, once the client no longer destroys tasks (each removal passes    *)
(* countdowns on to other tasks).  Its countdown may have run past zero    *)
(* while it was disabled; scheduler.c:123 then wraps it and the task still *)
(* gets its turn.                                                          *)
(***************************************************************************)
Destroys == maxActiveTasks' < maxActiveTasks

EnabledTaskRuns ==
    \A f \in Functions :
        <>[](timerOn /\ Enabled(f)) /\ <>[][~Destroys]_vars => []<>Running(f)

=============================================================================
