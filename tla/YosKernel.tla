----------------------------- MODULE YosKernel ------------------------------
(***************************************************************************)
(* The YOS kernel of yos.c on one Cortex-M3 core: task creation, the start *)
(* of the first task, voluntary and timed rescheduling, the tick and the   *)
(* PendSV context switch.                                                  *)
(*                                                                         *)
(* The grain is that of the interrupts. A thread step is a stretch of code *)
(* between two points at which an exception can be taken; with PRIMASK set *)
(* no exception is taken, but the stretches of a masked section are kept   *)
(* apart so that the masking itself is something a property can depend on. *)
(* SysTick and PendSV keep their reset priorities, so neither preempts the *)
(* other and PendSV (exception 14) is taken before SysTick (15). As soon   *)
(* as PRIMASK is clear a pending exception is taken before the next thread *)
(* instruction.                                                            *)
(***************************************************************************)
EXTENDS YosTasks

CONSTANTS
  MaxDelay,   \* bound on the argument of yos_task_delay
  MinTasks    \* tasks the program creates besides idle before yos_start

ASSUME DelayAssumption == MaxDelay \in Nat
ASSUME MinTasksAssumption == MinTasks \in Nat

VARIABLES
  \* _all_tasks
  status,            \* .status of every task
  block_ticks,       \* .block_ticks of every task
  \* the other static variables of yos.c
  task_id_for_next,
  CURRENT_TASK_ID,
  CURRENT_TASK,
  next_task_id,
  next_task,
  is_systick_trigger_by_int,
  \* the core
  started,           \* thread mode runs tasks, no longer main
  primask,           \* cm_disable_interrupts
  pendsv,            \* PendSV is pending
  systick,           \* SysTick is pending
  \* the context of every task: on the core for CURRENT_TASK, on the task's
  \* own stack for the others
  pc,
  ret                \* where the call of schedule() or yos_task_delay() returns

table    == <<status, block_ticks>>
pointers == <<CURRENT_TASK_ID, CURRENT_TASK, next_task_id, next_task>>
core     == <<started, primask, pendsv, systick>>
vars     == <<table, task_id_for_next, pointers, is_systick_trigger_by_int,
              core, pc, ret>>

(***************************************************************************)
(* Control points of a task.                                               *)
(*   none     its stack holds no context yet                               *)
(*   boot     yos_start, on the first task's stack, before schedule()      *)
(*   shell    the entry of _yos_task_shell                                 *)
(*   user     the task function                                            *)
(*   crit     the task function, inside a masked section of its own        *)
(*   handler  schedule / yos_task_delay, about to call _schedule_irq       *)
(*   enable   ... about to unmask                                          *)
(*   exited   _yos_task_shell, about to call schedule()                    *)
(*   end      past the end of yos_start or of _yos_task_shell              *)
(***************************************************************************)
ReturnPoints == {"user", "end"}
SavedPoints  == {"none", "boot", "shell", "user", "exited", "end"}
MaskedPoints == {"crit", "handler", "enable"}
Points       == SavedPoints \cup MaskedPoints

\* The task id yos_create_task would return next is past the idle task's.
Init ==
  /\ status = [t \in Tasks |-> IF t = Idle THEN "CREATED" ELSE "INVALID"]
  /\ block_ticks = [t \in Tasks |-> 0]
  /\ task_id_for_next = 1
  /\ CURRENT_TASK_ID = Idle
  /\ CURRENT_TASK = NoTask
  /\ next_task_id = 0
  /\ next_task = NoTask
  /\ is_systick_trigger_by_int = TRUE
  /\ started = FALSE
  /\ primask = FALSE
  /\ pendsv = FALSE
  /\ systick = FALSE
  /\ pc = [t \in Tasks |-> "none"]
  /\ ret = [t \in Tasks |-> "end"]
-----------------------------------------------------------------------------
(***************************************************************************)
(* Before the tasks run: main.                                             *)
(***************************************************************************)

\* yos_create_task, called from main.
CreateTask ==
  /\ ~started
  /\ task_id_for_next < YOS_MAX_TASK_COUNT
  /\ status' = [status EXCEPT ![task_id_for_next] = "CREATED"]
  /\ block_ticks' = [block_ticks EXCEPT ![task_id_for_next] = 0]
  /\ task_id_for_next' = task_id_for_next + 1
  /\ UNCHANGED <<pointers, is_systick_trigger_by_int, core, pc, ret>>

(***************************************************************************)
(* yos_start up to its schedule() call. The scan starts from idle, and the *)
(* first task found is made current while it is still CREATED; the rest of *)
(* yos_start runs on that task's stack.                                    *)
(***************************************************************************)
Start ==
  LET first == FindNext(CURRENT_TASK_ID, status) IN
  /\ ~started
  /\ task_id_for_next > MinTasks
  /\ status' = Reap(CURRENT_TASK_ID, first, status)
  /\ CURRENT_TASK_ID' = first
  /\ CURRENT_TASK' = first
  /\ next_task' = first
  /\ next_task_id' = first
  /\ started' = TRUE
  /\ pc' = [pc EXCEPT ![first] = "boot"]
  /\ UNCHANGED <<block_ticks, task_id_for_next, is_systick_trigger_by_int,
                 primask, pendsv, systick, ret>>
-----------------------------------------------------------------------------
(***************************************************************************)
(* Thread mode: the task on the core, when no exception has to go first.   *)
(***************************************************************************)
OnCpu(t) ==
  /\ started
  /\ CURRENT_TASK = t
  /\ primask \/ ~(pendsv \/ systick)

\* _yos_task_shell calls the task function.
ShellEnter(t) ==
  /\ OnCpu(t)
  /\ pc[t] = "shell"
  /\ status' = [status EXCEPT ![t] = "RUNNING"]
  /\ pc' = [pc EXCEPT ![t] = "user"]
  /\ UNCHANGED <<block_ticks, task_id_for_next, pointers,
                 is_systick_trigger_by_int, core, ret>>

\* Mistake: the shell forgets to say that the task has exited.
ExitTaskUntold(t) ==
  /\ OnCpu(t)
  /\ pc[t] = "user"
  /\ t # Idle
  /\ pc' = [pc EXCEPT ![t] = "exited"]
  /\ UNCHANGED <<table, task_id_for_next, pointers,
                 is_systick_trigger_by_int, core, ret>>

\* The task function returns to _yos_task_shell. _yos_idle_task never does.
ExitTask(t) ==
  /\ OnCpu(t)
  /\ pc[t] = "user"
  /\ t # Idle
  /\ status' = [status EXCEPT ![t] = "EXITED"]
  /\ pc' = [pc EXCEPT ![t] = "exited"]
  /\ UNCHANGED <<block_ticks, task_id_for_next, pointers,
                 is_systick_trigger_by_int, core, ret>>

\* Mistake: the handler is called without masking the interrupts.
BeginRescheduleUnmasked(t, returnTo) ==
  /\ primask' = primask
  /\ is_systick_trigger_by_int' = FALSE
  /\ pc' = [pc EXCEPT ![t] = "handler"]
  /\ ret' = [ret EXCEPT ![t] = returnTo]

\* Mistake: the handler is not told that this is not a tick.
BeginRescheduleAsTick(t, returnTo) ==
  /\ primask' = TRUE
  /\ is_systick_trigger_by_int' = TRUE
  /\ pc' = [pc EXCEPT ![t] = "handler"]
  /\ ret' = [ret EXCEPT ![t] = returnTo]

\* schedule() and yos_task_delay() mask the interrupts and tell the handler
\* that this is not a tick.
BeginReschedule(t, returnTo) ==
  /\ primask' = TRUE
  /\ is_systick_trigger_by_int' = FALSE
  /\ pc' = [pc EXCEPT ![t] = "handler"]
  /\ ret' = [ret EXCEPT ![t] = returnTo]

\* schedule(), called by a task, by _yos_task_shell or by yos_start.
Schedule(t) ==
  /\ OnCpu(t)
  /\ \/ pc[t] = "user" /\ t # Idle
     \/ pc[t] \in {"boot", "exited"}
  /\ BeginReschedule(t, IF pc[t] = "user" THEN "user" ELSE "end")
  /\ UNCHANGED <<table, task_id_for_next, pointers, started, pendsv, systick>>

\* yos_task_delay(ticks), called by a task.
Delay(t, ticks) ==
  /\ OnCpu(t)
  /\ pc[t] = "user"
  /\ t # Idle
  /\ status' = [status EXCEPT ![t] = "WAITING"]
  /\ block_ticks' = [block_ticks EXCEPT ![t] = ticks]
  /\ BeginReschedule(t, "user")
  /\ UNCHANGED <<task_id_for_next, pointers, started, pendsv, systick>>

\* cm_enable_interrupts at the end of schedule() or yos_task_delay().
EnableInterrupts(t) ==
  /\ OnCpu(t)
  /\ pc[t] = "enable"
  /\ primask' = FALSE
  /\ pc' = [pc EXCEPT ![t] = ret[t]]
  /\ UNCHANGED <<table, task_id_for_next, pointers, is_systick_trigger_by_int,
                 started, pendsv, systick, ret>>

\* Mistake: the section does not mask the interrupts.
EnterCriticalUnmasked(t) ==
  /\ OnCpu(t)
  /\ pc[t] = "user"
  /\ t # Idle
  /\ pc' = [pc EXCEPT ![t] = "crit"]
  /\ UNCHANGED <<table, task_id_for_next, pointers, is_systick_trigger_by_int,
                 core, ret>>

\* A masked section of a task (yos_get_task_info, ymutex_*): begin ...
EnterCritical(t) ==
  /\ OnCpu(t)
  /\ pc[t] = "user"
  /\ t # Idle
  /\ primask' = TRUE
  /\ pc' = [pc EXCEPT ![t] = "crit"]
  /\ UNCHANGED <<table, task_id_for_next, pointers, is_systick_trigger_by_int,
                 started, pendsv, systick, ret>>

\* ... and end.
LeaveCritical(t) ==
  /\ OnCpu(t)
  /\ pc[t] = "crit"
  /\ primask' = FALSE
  /\ pc' = [pc EXCEPT ![t] = "user"]
  /\ UNCHANGED <<table, task_id_for_next, pointers, is_systick_trigger_by_int,
                 started, pendsv, systick, ret>>
-----------------------------------------------------------------------------
(***************************************************************************)
(* Exceptions.                                                             *)
(***************************************************************************)

\* The status and countdown of every task after the handler's first step.
Ticked == IF is_systick_trigger_by_int THEN Wake(status, block_ticks) ELSE status

\* Mistake: no early return when the scan finds nobody else.
SwitchesAlways(next) == TRUE

\* Whether the handler gets past its early returns to _make_pendsv.
Switches(next) == next # CURRENT_TASK_ID /\ Ticked[next] \in Runnable

(***************************************************************************)
(* sys_tick_handler, as a SysTick exception or called by _schedule_irq.    *)
(* contexts is pc as the caller leaves it; the handler gives a CREATED     *)
(* task that it picks a fresh stack.                                       *)
(***************************************************************************)
SysTickHandler(contexts) ==
  LET next == FindNext(CURRENT_TASK_ID, Ticked) IN
  /\ is_systick_trigger_by_int' = TRUE
  /\ block_ticks' = IF is_systick_trigger_by_int
                    THEN CountDown(status, block_ticks) ELSE block_ticks
  /\ status' = Reap(CURRENT_TASK_ID, next, Ticked)
  /\ next_task_id' = next
  /\ next_task' = IF next = CURRENT_TASK_ID THEN next_task ELSE next
  /\ pc' = IF Switches(next) /\ Ticked[next] = "CREATED"
           THEN [contexts EXCEPT ![next] = "shell"] ELSE contexts
  /\ pendsv' = (pendsv \/ Switches(next))
  /\ UNCHANGED <<task_id_for_next, CURRENT_TASK_ID, CURRENT_TASK, started, ret>>

\* _schedule_irq's call of the handler.
CallHandler(t) ==
  /\ OnCpu(t)
  /\ pc[t] = "handler"
  /\ SysTickHandler([pc EXCEPT ![t] = "enable"])
  /\ UNCHANGED <<primask, systick>>

\* The 10 ms counter wraps. A tick that is still pending absorbs it.
RaiseTick ==
  /\ started
  /\ ~systick
  /\ systick' = TRUE
  /\ UNCHANGED <<table, task_id_for_next, pointers, is_systick_trigger_by_int,
                 started, primask, pendsv, pc, ret>>

\* The SysTick exception.
TakeSysTick ==
  /\ started
  /\ systick
  /\ ~pendsv
  /\ ~primask
  /\ systick' = FALSE
  /\ SysTickHandler(pc)
  /\ UNCHANGED primask

(***************************************************************************)
(* The PendSV exception, pend_sv_handler. Saving the registers of the task *)
(* that leaves and restoring those of the next is what keeps pc[t] as it   *)
(* was when t lost the core.                                               *)
(***************************************************************************)
TakePendSV ==
  /\ started
  /\ pendsv
  /\ ~primask
  /\ pendsv' = FALSE
  /\ CURRENT_TASK' = next_task
  /\ CURRENT_TASK_ID' = next_task_id
  /\ status' = [status EXCEPT ![next_task] = "RUNNING"]
  /\ UNCHANGED <<block_ticks, task_id_for_next, next_task_id, next_task,
                 is_systick_trigger_by_int, started, primask, systick, pc, ret>>
-----------------------------------------------------------------------------
\* What the kernel does once it is entered, by a task or by an exception.
KernelStep(t) == CallHandler(t) \/ EnableInterrupts(t) \/ LeaveCritical(t)

\* What a task does of its own accord.
UserStep(t) ==
  \/ ShellEnter(t)
  \/ ExitTask(t)
  \/ Schedule(t)
  \/ \E ticks \in 0 .. MaxDelay : Delay(t, ticks)
  \/ EnterCritical(t)

Exceptions == RaiseTick \/ TakeSysTick \/ TakePendSV

Next ==
  \/ CreateTask
  \/ Start
  \/ Exceptions
  \/ \E t \in Tasks : KernelStep(t) \/ UserStep(t)

Spec == Init /\ [][Next]_vars

(***************************************************************************)
(* The core executes: the counter keeps wrapping, a pending exception that *)
(* can be taken is taken, and a masked section comes to its end (none of   *)
(* them in yos.c loops). Nothing is assumed of the task functions.         *)
(***************************************************************************)
Fairness ==
  /\ WF_vars(RaiseTick)
  /\ WF_vars(TakeSysTick)
  /\ WF_vars(TakePendSV)
  /\ \A t \in Tasks : WF_vars(KernelStep(t))

FairSpec == Spec /\ Fairness
-----------------------------------------------------------------------------
TypeOK ==
  /\ status \in [Tasks -> Status]
  /\ block_ticks \in [Tasks -> 0 .. MaxDelay]
  /\ task_id_for_next \in 1 .. YOS_MAX_TASK_COUNT
  /\ CURRENT_TASK_ID \in Tasks
  /\ CURRENT_TASK \in Tasks \cup {NoTask}
  /\ next_task_id \in Tasks
  /\ next_task \in Tasks \cup {NoTask}
  /\ is_systick_trigger_by_int \in BOOLEAN
  /\ started \in BOOLEAN
  /\ primask \in BOOLEAN
  /\ pendsv \in BOOLEAN
  /\ systick \in BOOLEAN
  /\ pc \in [Tasks -> Points]
  /\ ret \in [Tasks -> ReturnPoints]

(***************************************************************************)
(* A context switch that has been requested can be carried out whenever    *)
(* PendSV is taken: pend_sv_handler reads next_task and next_task_id, which *)
(* the tick handler wrote at another time and does not always write        *)
(* together, so they must still agree, name another task that is still     *)
(* runnable, and that task's stack must hold a context to resume.          *)
(***************************************************************************)
SwitchTargetValid ==
  pendsv => /\ next_task = next_task_id
            /\ next_task # CURRENT_TASK
            /\ status[next_task] \in Runnable
            /\ pc[next_task] \in {"shell", "user"}

(***************************************************************************)
(* PRIMASK belongs to the core, not to the task that set it, and the       *)
(* context switch does not save it. No switch may fall between a task's    *)
(* cm_disable_interrupts and its cm_enable_interrupts, or another task     *)
(* runs masked and the section is interrupted when it resumes.             *)
(***************************************************************************)
MaskStaysWithItsTask ==
  \A t \in Tasks :
    pc[t] \in MaskedPoints <=> primask /\ t = CURRENT_TASK

(***************************************************************************)
(* The instruction that executes next belongs to a live task: one that     *)
(* sleeps, has exited or was never created does not execute its function,  *)
(* and CURRENT_TASK and CURRENT_TASK_ID name the same task (the mutexes    *)
(* record one, delays are charged to the other).                           *)
(***************************************************************************)
OnlyLiveTasksExecute ==
  \A t \in Tasks :
    OnCpu(t) => /\ CURRENT_TASK_ID = t
                /\ pc[t] \in {"user", "crit"} => status[t] = "RUNNING"
                /\ status[t] # "INVALID"

(***************************************************************************)
(* The calls of schedule() that end yos_start and _yos_task_shell do not   *)
(* return: what follows them is a return through a stack that is gone      *)
(* ("will not return to the caller", yos.h:158 and yos.c:440).             *)
(***************************************************************************)
NeverReturns == \A t \in Tasks : ~(OnCpu(t) /\ pc[t] = "end")

(***************************************************************************)
(* The status diagram of yos.h:45-57, as the code has it: a status changes *)
(* only along these edges, and no slot of the table is used twice.         *)
(***************************************************************************)
LifecycleEdges ==
  { <<"CREATED", "RUNNING">>, <<"RUNNING", "WAITING">>,
    <<"WAITING", "RUNNING">>, <<"RUNNING", "EXITED">>,
    <<"EXITED", "INVALID">> }

LifecycleStep ==
  \A t \in Tasks :
    status'[t] # status[t] =>
      \/ <<status[t], status'[t]>> \in LifecycleEdges
      \/ /\ <<status[t], status'[t]>> = <<"INVALID", "CREATED">>
         /\ t >= task_id_for_next

Lifecycle == [][LifecycleStep]_vars

(***************************************************************************)
(* A runnable task gets the core, whatever the others do: the scan starts  *)
(* after the current task and the tick preempts a task that never yields.  *)
(***************************************************************************)
EveryRunnableRuns ==
  \A t \in Tasks :
    (started /\ status[t] \in Runnable) ~> (started /\ CURRENT_TASK = t)

\* Every delay ends, and the task gets the core again.
EverySleeperRuns ==
  \A t \in Tasks :
    (status[t] = "WAITING") ~> (status[t] = "RUNNING" /\ CURRENT_TASK = t)
-----------------------------------------------------------------------------
(***************************************************************************)
(* The kernel implements the scheduler of YosScheduler. The core passes on *)
(* when PendSV is set pending: from then on nothing but the switch itself  *)
(* can happen in thread mode. A task that has not run yet is ready, one    *)
(* that has exited is as absent as one never created, and a sleeping task  *)
(* with a countdown of 0 still needs one tick.                             *)
(***************************************************************************)
AbstractState ==
  [t \in Tasks |-> IF status[t] \in Runnable THEN "ready"
                   ELSE IF status[t] = "WAITING" THEN "sleeping"
                   ELSE "absent"]

AbstractLeft ==
  [t \in Tasks |-> IF status[t] # "WAITING" THEN 0
                   ELSE IF block_ticks[t] = 0 THEN 1 ELSE block_ticks[t]]

AbstractRunning ==
  IF ~started THEN NoTask ELSE IF pendsv THEN next_task ELSE CURRENT_TASK

Scheduler == INSTANCE YosScheduler
  WITH state <- AbstractState, left <- AbstractLeft, running <- AbstractRunning

ImplementsScheduler == Scheduler!SSpec
-----------------------------------------------------------------------------
(***************************************************************************)
(* The inductive invariant behind the safety properties, for programs that *)
(* create a task before yos_start. Its core is Context: which contexts go  *)
(* with which status, on the core and off it. A task off the core is where *)
(* its last switch left it; one on the core that is not fit to go on has a *)
(* switch pending, or is masked on the way to requesting one.              *)
(***************************************************************************)
BeforeStart ==
  ~started =>
    /\ CURRENT_TASK = NoTask /\ CURRENT_TASK_ID = Idle
    /\ ~primask /\ ~pendsv /\ ~systick
    /\ \A t \in Tasks : pc[t] = "none"
    /\ \A t \in Tasks : t < task_id_for_next => status[t] = "CREATED"

PointersAgree == started => CURRENT_TASK \in Tasks /\ CURRENT_TASK_ID = CURRENT_TASK

SlotsAreFresh ==
  \A t \in Tasks : t >= task_id_for_next => status[t] = "INVALID"

SwitchPending ==
  pendsv => /\ next_task \in Tasks
            /\ next_task = next_task_id
            /\ next_task # CURRENT_TASK
            /\ status[next_task] \in Runnable
            /\ is_systick_trigger_by_int
            /\ pc[CURRENT_TASK] # "crit"

FlagFollowsHandler ==
  /\ \A t \in Tasks : pc[t] = "handler" => ~is_systick_trigger_by_int
  /\ ~is_systick_trigger_by_int => started /\ pc[CURRENT_TASK] = "handler"

\* t has the core and is on its way out of it, to resume at r or never.
Leaving(t, r) ==
  \/ pc[t] = "handler" /\ ret[t] = r
  \/ pendsv /\ pc[t] = "enable" /\ ret[t] = r
  \/ pendsv /\ pc[t] = r

ContextOnCpu(t) ==
  \/ status[t] = "CREATED" /\ t # Idle /\ (pc[t] = "boot" \/ Leaving(t, "end"))
  \/ status[t] = "RUNNING" /\ pc[t] \in {"shell", "user", "crit"}
  \/ status[t] \in {"RUNNING", "WAITING"} /\ t # Idle /\ Leaving(t, "user")
  \/ status[t] = "EXITED" /\ t # Idle /\ (pc[t] = "exited" \/ Leaving(t, "end"))

ContextOffCpu(t) ==
  \/ /\ status[t] = "CREATED"
     /\ IF pendsv /\ next_task = t
        THEN pc[t] = "shell" ELSE pc[t] \in {"none", "boot", "end"}
  \/ status[t] = "RUNNING" /\ pc[t] \in {"shell", "user"}
  \/ status[t] = "WAITING" /\ pc[t] = "user" /\ t # Idle
  \/ status[t] \in {"INVALID", "EXITED"} /\ pc[t] \in {"none", "exited", "end"} /\ t # Idle

Context ==
  \A t \in Tasks :
    IF t = CURRENT_TASK THEN ContextOnCpu(t) ELSE ContextOffCpu(t)

Inv ==
  /\ TypeOK
  /\ BeforeStart
  /\ PointersAgree
  /\ SlotsAreFresh
  /\ SwitchPending
  /\ MaskStaysWithItsTask
  /\ FlagFollowsHandler
  /\ Context
=============================================================================
