------------------------- MODULE SchedulerDynamic --------------------------
(***************************************************************************)
(* Scheduler under a client that changes the table while it runs, from its *)
(* main code and from inside task functions.  destroyTask moves period and *)
(* function but not isActive, createTask takes over the isActive bit of    *)
(* its slot, and neither checks for duplicates.  The client below keeps to *)
(* two rules: it registers a function once, and destroys a task only while *)
(* that task and those created after it are disabled.  A client that does  *)
(* not, say with a task that destroys itself below an enabled one, passes  *)
(* isActive on to another function, and its walk skips the task that moves *)
(* into the slot of the one that ran; nothing is claimed of it.            *)
(***************************************************************************)
EXTENDS Scheduler

VARIABLES wanted,   \* functions the client enabled last, rather than disabled
          present,  \* functions wanted since the current walk began
          counted   \* functions of present the current walk has counted down

dynamicHistory == <<wanted, present, counted>>
dynamicVars == <<vars, dynamicHistory>>

DynamicInit ==
    /\ Init
    /\ wanted = {}
    /\ present = {}
    /\ counted = {}

Registered(f) == \E s \in Used : taskTable[s].function = f

Register(f, p) ==
    /\ ~Registered(f)
    /\ CreateTask(f, p)
    /\ UNCHANGED dynamicHistory

Remove(f) ==
    /\ \E s \in Used :
         /\ IsFirst(s, f)
         /\ \A r \in Used : r >= s => taskTable[r].function \notin wanted
    /\ DestroyTask(f)
    /\ UNCHANGED dynamicHistory

SwitchOn(f) ==
    /\ EnableTask(f)
    /\ wanted' = wanted \cup {f}
    /\ UNCHANGED <<present, counted>>

SwitchOff(f) ==
    /\ DisableTask(f)
    /\ wanted' = wanted \ {f}
    /\ present' = present \ {f}
    /\ UNCHANGED counted

BeginWalk ==
    /\ LoopEnter
    /\ present' = wanted
    /\ counted' = {}
    /\ UNCHANGED wanted

CountStep ==
    /\ LoopStep
    /\ counted' = counted \cup {taskTable[i].function}
    /\ UNCHANGED <<wanted, present>>

DynamicSilent ==
    /\ \/ pc = "boot" /\ SchedulerInit
       \/ Start \/ Stop \/ Tick \/ TaskReturn \/ LoopExit
    /\ UNCHANGED dynamicHistory

DynamicNext ==
    \/ \E f \in Functions : \/ \E p \in Periods : Register(f, p)
                            \/ Remove(f)
                            \/ SwitchOn(f)
                            \/ SwitchOff(f)
    \/ BeginWalk
    \/ CountStep
    \/ DynamicSilent

DynamicSpec == DynamicInit /\ [][DynamicNext]_dynamicVars

-----------------------------------------------------------------------------
(***************************************************************************)
(* A function is called only while the client wants it: enabled, and not   *)
(* disabled since, across any sequence of creations and removals by the    *)
(* rules above that reuses its slot (scheduler.c:68-113, 124-126).         *)
(***************************************************************************)
OnlyWantedRun ==
    [][pc # "task" /\ pc' = "task" => taskTable[i].function \in wanted]_dynamicVars

(***************************************************************************)
(* A walk counts every task that was wanted throughout it exactly once,    *)
(* although task functions it calls create, enable and disable tasks and,  *)
(* by the rules above, destroy disabled ones at the end of the table, while*)
(* the loop index advances (scheduler.c:121-129).                          *)
(***************************************************************************)
CountsOnce ==
    [][/\ pc = "scan" /\ pc' = "idle" => present \subseteq counted
       /\ CountStep => taskTable[i].function \notin present \cap counted]_dynamicVars

(***************************************************************************)
(* What makes OnlyWantedRun true: functions are registered once, the bits  *)
(* of the slots in use say what the client wants, and the slots not in use *)
(* have a clear bit for the next createTask to take over.                  *)
(***************************************************************************)
BitsMatch ==
    /\ \A r, s \in Used : taskTable[r].function = taskTable[s].function => r = s
    /\ \A s \in Used : taskTable[s].isActive <=> taskTable[s].function \in wanted
    /\ \A s \in Slots \ Used : ~taskTable[s].isActive
    /\ \A f \in wanted : Registered(f)
=============================================================================
