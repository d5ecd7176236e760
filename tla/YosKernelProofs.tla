-------------------------- MODULE YosKernelProofs ---------------------------
(***************************************************************************)
(* Proofs about YosKernel, for every size of the task table and every      *)
(* bound on delays. The theorems that speak of the end of yos_start assume *)
(* that the program creates at least one task before calling it; without   *)
(* one they are false, as a run of the model shows.                        *)
(***************************************************************************)
EXTENDS YosKernel, TLAPS, NaturalsInduction, WellFoundedInduction
-----------------------------------------------------------------------------
(***************************************************************************)
(* The scan for the next task.                                             *)
(***************************************************************************)

\* A nonempty set of naturals has a least element.
LEMMA LeastElement ==
  ASSUME NEW S \in SUBSET Nat, S # {}
  PROVE  \E x \in S : \A y \in S : x <= y
<1>1. PICK x \in S : \A y \in S : ~(<<y, x>> \in OpToRel(<, Nat))
  BY NatLessThanWellFounded, WFMin
<1>2. \A y \in S : y \in Nat /\ x \in Nat
  OBVIOUS
<1>3. \A y \in S : ~(y < x)
  BY <1>1, <1>2, Zenon DEF OpToRel
<1>4. \A y \in S : x <= y
  BY <1>2, <1>3
<1> QED
  BY <1>4

\* The scan meets every task once, its start last.
LEMMA AheadRange ==
  ASSUME NEW t \in Tasks, NEW u \in Tasks
  PROVE  /\ Ahead(t, u) \in 1 .. YOS_MAX_TASK_COUNT
         /\ Ahead(t, u) = YOS_MAX_TASK_COUNT <=> u = t
BY TaskCountAssumption DEF Ahead, Tasks

\* The scan ends at a candidate, and no candidate comes before it.
LEMMA FindNextIsFirst ==
  ASSUME NEW cur \in Tasks, NEW st
  PROVE  /\ FindNext(cur, st) \in Candidates(cur, st)
         /\ \A v \in Candidates(cur, st) :
              Ahead(cur, FindNext(cur, st)) <= Ahead(cur, v)
<1> DEFINE C == Candidates(cur, st)
           D == {Ahead(cur, v) : v \in C}
<1>1. C \subseteq Tasks /\ cur \in C
  BY DEF Candidates
<1>2. D \in SUBSET Nat /\ D # {}
  BY <1>1, AheadRange, TaskCountAssumption
<1> HIDE DEF C
<1>3. PICK d \in D : \A e \in D : d <= e
  BY <1>2, LeastElement
<1>4. \E u \in C : \A v \in C : Ahead(cur, u) <= Ahead(cur, v)
  BY <1>3
<1> QED
  BY <1>4 DEF FindNext, C

\* If a task other than the current one can run, the scan finds such a task.
LEMMA FindNextLeaves ==
  ASSUME NEW cur \in Tasks, NEW st, NEW u \in Tasks,
         u # cur, st[u] \in Runnable
  PROVE  FindNext(cur, st) # cur
<1>1. u \in Candidates(cur, st)
  BY DEF Candidates
<1>2. Ahead(cur, FindNext(cur, st)) <= Ahead(cur, u)
  BY <1>1, FindNextIsFirst
<1>3. Ahead(cur, u) < Ahead(cur, cur)
  BY AheadRange, TaskCountAssumption DEF Tasks
<1>4. Ahead(cur, u) \in Nat /\ Ahead(cur, cur) \in Nat
  BY AheadRange, TaskCountAssumption
<1> QED
  BY <1>2, <1>3, <1>4

\* Where the scan can end.
LEMMA FindNextTarget ==
  ASSUME NEW cur \in Tasks, NEW st
  PROVE  /\ FindNext(cur, st) \in Tasks
         /\ FindNext(cur, st) # cur => st[FindNext(cur, st)] \in Runnable
BY FindNextIsFirst DEF Candidates
-----------------------------------------------------------------------------
(***************************************************************************)
(* The tick handler, whoever called it.                                    *)
(***************************************************************************)

\* What the handler makes of the task table: a tick may wake a waiting task,
\* the scan may reap an exited one that is not current, and nothing else.
LEMMA HandlerTable ==
  ASSUME TypeOK, NEW contexts, SysTickHandler(contexts), NEW t \in Tasks
  PROVE  /\ Ticked[t] = status[t] \/ (/\ is_systick_trigger_by_int
                                      /\ status[t] = "WAITING"
                                      /\ Ticked[t] = "RUNNING")
         /\ status'[t] = Ticked[t] \/ (/\ Ticked[t] = "EXITED"
                                       /\ status'[t] = "INVALID"
                                       /\ t # CURRENT_TASK_ID)
BY DEF TypeOK, SysTickHandler, Switches, Ticked, Wake, Reap

\* A tick counts a waiting task down by one, and wakes it when nothing is left.
LEMMA HandlerCounts ==
  ASSUME is_systick_trigger_by_int, NEW contexts, SysTickHandler(contexts),
         NEW t \in Tasks, status[t] = "WAITING", block_ticks[t] \in Nat
  PROVE  /\ block_ticks'[t] = IF block_ticks[t] > 0 THEN block_ticks[t] - 1 ELSE 0
         /\ Ticked[t] = IF block_ticks'[t] = 0 THEN "RUNNING" ELSE "WAITING"
<1>1. block_ticks' = CountDown(status, block_ticks) /\ Ticked = Wake(status, block_ticks)
  BY DEF SysTickHandler, Ticked
<1>2. CountDown(status, block_ticks)[t]
        = IF block_ticks[t] > 0 THEN block_ticks[t] - 1 ELSE block_ticks[t]
  BY DEF CountDown
<1>3. Wake(status, block_ticks)[t]
        = IF CountDown(status, block_ticks)[t] = 0 THEN "RUNNING" ELSE "WAITING"
  BY DEF Wake
<1>4. ~ (block_ticks[t] > 0) => block_ticks[t] = 0
  OBVIOUS
<1> QED
  BY <1>1, <1>2, <1>3, <1>4

\* The handler's results have their types.
LEMMA HandlerTypes ==
  ASSUME TypeOK, NEW contexts \in [Tasks -> Points], SysTickHandler(contexts)
  PROVE  /\ status' \in [Tasks -> Status]
         /\ block_ticks' \in [Tasks -> 0 .. MaxDelay]
         /\ next_task_id' \in Tasks
         /\ next_task' \in Tasks \cup {NoTask}
         /\ pc' \in [Tasks -> Points]
         /\ pendsv' \in BOOLEAN
<1>1. next_task_id' \in Tasks
  BY FindNextTarget DEF SysTickHandler, Switches, TypeOK
<1>2. next_task' \in Tasks \cup {NoTask}
  BY <1>1 DEF SysTickHandler, Switches, TypeOK
<1>3. status' \in [Tasks -> Status]
  <2>1. Ticked \in [Tasks -> Status]
    BY DEF Ticked, Wake, TypeOK, Status
  <2> QED
    BY <2>1 DEF SysTickHandler, Switches, Reap, Status
<1>4. block_ticks' \in [Tasks -> 0 .. MaxDelay]
  BY DelayAssumption DEF SysTickHandler, Switches, CountDown, TypeOK
<1>5. pc' \in [Tasks -> Points]
  BY <1>1 DEF SysTickHandler, Switches, Points, SavedPoints, MaskedPoints
<1>6. pendsv' \in BOOLEAN
  BY FindNextTarget DEF SysTickHandler, Switches, TypeOK, Runnable
<1> QED
  BY <1>1, <1>2, <1>3, <1>4, <1>5, <1>6
-----------------------------------------------------------------------------
(***************************************************************************)
(* Every step preserves Inv. One lemma per action.                         *)
(***************************************************************************)
LEMMA InitInv == Init => Inv
<1> SUFFICES ASSUME Init PROVE Inv
  OBVIOUS
<1>1. TypeOK
  <2>1. Idle \in Tasks /\ 0 \in 0 .. MaxDelay /\ 1 \in 1 .. YOS_MAX_TASK_COUNT
    BY TaskCountAssumption, DelayAssumption DEF Tasks, Idle
  <2> QED
    BY <2>1 DEF Init, TypeOK, Idle, Status, ReturnPoints, Points, SavedPoints
<1>2. Context
  BY DEF Init, Context, ContextOffCpu, Tasks, Idle, NoTask
<1>3. MaskStaysWithItsTask /\ FlagFollowsHandler
  BY DEF Init, MaskStaysWithItsTask, FlagFollowsHandler, MaskedPoints
<1>4. BeforeStart /\ PointersAgree /\ SlotsAreFresh /\ SwitchPending
  BY DEF Init, BeforeStart, PointersAgree, SlotsAreFresh, SwitchPending,
         Tasks, Idle, NoTask
<1> QED
  BY <1>1, <1>2, <1>3, <1>4 DEF Inv

\* A slot that yos_create_task fills was fresh, and its task has no context yet.
LEMMA CreateTaskInv == Inv /\ CreateTask => Inv'
<1> SUFFICES ASSUME Inv, CreateTask PROVE Inv'
  OBVIOUS
<1> USE DEF CreateTask, Inv, pointers, core
<1>1. task_id_for_next \in Tasks /\ task_id_for_next # Idle
  BY TaskCountAssumption DEF Tasks, Idle, TypeOK
<1>2. TypeOK'
  BY <1>1, TaskCountAssumption, DelayAssumption DEF TypeOK, Status, Tasks
<1>3. BeforeStart' /\ PointersAgree' /\ SwitchPending'
  BY <1>1 DEF BeforeStart, PointersAgree, SwitchPending, TypeOK, Tasks
<1>4. SlotsAreFresh'
  BY <1>1 DEF SlotsAreFresh, TypeOK, Tasks
<1>5. MaskStaysWithItsTask' /\ FlagFollowsHandler'
  BY DEF MaskStaysWithItsTask, FlagFollowsHandler
<1>6. Context'
  BY <1>1 DEF Context, ContextOffCpu, BeforeStart, TypeOK, NoTask, Tasks
<1> QED
  BY <1>2, <1>3, <1>4, <1>5, <1>6

\* yos_start leaves the first task, still CREATED, on the core.
LEMMA StartInv ==
  ASSUME MinTasks # 0
  PROVE  Inv /\ Start => Inv'
<1> SUFFICES ASSUME Inv, Start PROVE Inv'
  OBVIOUS
<1> DEFINE first == FindNext(Idle, status)
<1>1. ~started /\ CURRENT_TASK_ID = Idle /\ Idle \in Tasks
  BY TaskCountAssumption DEF Inv, Start, BeforeStart, Tasks, Idle
<1>2. 1 \in Tasks /\ status[1] = "CREATED"
  BY <1>1, MinTasksAssumption, TaskCountAssumption
  DEF Inv, Start, BeforeStart, TypeOK, Tasks
<1>3. first \in Tasks /\ first # Idle /\ status[first] \in Runnable
  BY <1>1, <1>2, FindNextLeaves, FindNextTarget DEF Runnable, Idle
<1>4. status[first] = "CREATED" /\ first < task_id_for_next
  BY <1>1, <1>3 DEF Inv, SlotsAreFresh, BeforeStart, Runnable, TypeOK, Tasks
<1>5. status' = status
  <2>1. \A t \in Tasks : status[t] # "EXITED"
    BY <1>1 DEF Inv, BeforeStart, SlotsAreFresh, TypeOK, Tasks
  <2> QED
    BY <1>1, <2>1 DEF Start, Reap, Inv, TypeOK
<1>6. /\ CURRENT_TASK' = first /\ CURRENT_TASK_ID' = first
      /\ next_task' = first /\ next_task_id' = first /\ started'
      /\ pc' = [pc EXCEPT ![first] = "boot"]
      /\ UNCHANGED <<block_ticks, task_id_for_next, is_systick_trigger_by_int,
                     primask, pendsv, systick, ret>>
  BY <1>1 DEF Start
<1> HIDE DEF first
<1>7. ~pendsv /\ ~primask /\ \A t \in Tasks : pc[t] = "none"
  BY <1>1 DEF Inv, BeforeStart
<1>8. TypeOK'
  BY <1>3, <1>5, <1>6 DEF Inv, TypeOK, Points, SavedPoints
<1>9. BeforeStart' /\ PointersAgree' /\ SlotsAreFresh' /\ SwitchPending'
  BY <1>3, <1>5, <1>6, <1>7
  DEF Inv, BeforeStart, PointersAgree, SlotsAreFresh, SwitchPending
<1>10. MaskStaysWithItsTask' /\ FlagFollowsHandler'
  BY <1>1, <1>3, <1>6, <1>7
  DEF Inv, MaskStaysWithItsTask, FlagFollowsHandler, MaskedPoints, TypeOK
<1>11. Context'
  BY <1>1, <1>3, <1>4, <1>5, <1>6, <1>7
  DEF Inv, Context, ContextOnCpu, ContextOffCpu, BeforeStart, TypeOK, NoTask,
      Tasks
<1> QED
  BY <1>8, <1>9, <1>10, <1>11 DEF Inv

\* A task that executes unmasked code has no switch pending: it is live.
LEMMA Unmasked ==
  ASSUME Inv, NEW t \in Tasks, OnCpu(t), pc[t] \notin MaskedPoints
  PROVE  ~primask /\ ~pendsv /\ ~systick /\ ContextOnCpu(t)
BY DEF Inv, OnCpu, MaskStaysWithItsTask, Context

\* Entering the task function makes the task RUNNING on the core.
LEMMA ShellEnterInv ==
  ASSUME Inv, NEW t \in Tasks, ShellEnter(t)
  PROVE  Inv'
<1>1. ~primask /\ ~pendsv /\ ContextOnCpu(t) /\ status[t] = "RUNNING"
  BY Unmasked DEF ShellEnter, MaskedPoints, ContextOnCpu, Leaving
<1>2. status' = status
  BY <1>1 DEF ShellEnter, Inv, TypeOK
<1> USE DEF ShellEnter, pointers, core, OnCpu, Inv
<1>3. TypeOK'
  BY <1>2 DEF TypeOK, Points, SavedPoints
<1>4. BeforeStart' /\ PointersAgree' /\ SlotsAreFresh' /\ SwitchPending'
  BY <1>1, <1>2 DEF BeforeStart, PointersAgree, SlotsAreFresh, SwitchPending
<1>5. MaskStaysWithItsTask' /\ FlagFollowsHandler'
  BY <1>1 DEF MaskStaysWithItsTask, FlagFollowsHandler, MaskedPoints, TypeOK
<1>6. Context'
  BY <1>1, <1>2 DEF Context, ContextOnCpu, ContextOffCpu, TypeOK
<1> QED
  BY <1>3, <1>4, <1>5, <1>6

\* A task that exits stays on the core, on its way to its last schedule().
LEMMA ExitTaskInv ==
  ASSUME Inv, NEW t \in Tasks, ExitTask(t)
  PROVE  Inv'
<1>1. ~primask /\ ~pendsv /\ status[t] = "RUNNING"
  BY Unmasked DEF ExitTask, MaskedPoints, ContextOnCpu, Leaving
<1> USE DEF ExitTask, pointers, core, OnCpu, Inv
<1>2. TypeOK'
  BY DEF TypeOK, Points, SavedPoints, Status
<1>3. BeforeStart' /\ PointersAgree' /\ SlotsAreFresh' /\ SwitchPending'
  BY <1>1 DEF BeforeStart, PointersAgree, SlotsAreFresh, SwitchPending, TypeOK
<1>4. MaskStaysWithItsTask' /\ FlagFollowsHandler'
  BY <1>1 DEF MaskStaysWithItsTask, FlagFollowsHandler, MaskedPoints, TypeOK
<1>5. Context'
  BY <1>1 DEF Context, ContextOnCpu, ContextOffCpu, TypeOK
<1> QED
  BY <1>2, <1>3, <1>4, <1>5

\* schedule() masks the interrupts and heads for the handler.
LEMMA ScheduleInv ==
  ASSUME Inv, NEW t \in Tasks, Schedule(t)
  PROVE  Inv'
<1>1. ~primask /\ ~pendsv /\ ContextOnCpu(t)
  BY Unmasked DEF Schedule, MaskedPoints
<1> USE DEF Schedule, BeginReschedule, table, pointers, OnCpu, Inv
<1>2. TypeOK'
  BY DEF TypeOK, Points, MaskedPoints, ReturnPoints
<1>3. BeforeStart' /\ PointersAgree' /\ SlotsAreFresh' /\ SwitchPending'
  BY <1>1 DEF BeforeStart, PointersAgree, SlotsAreFresh, SwitchPending
<1>4. MaskStaysWithItsTask' /\ FlagFollowsHandler'
  BY <1>1 DEF MaskStaysWithItsTask, FlagFollowsHandler, MaskedPoints, TypeOK
<1>5. Context'
  BY <1>1 DEF Context, ContextOnCpu, ContextOffCpu, Leaving, TypeOK
<1> QED
  BY <1>2, <1>3, <1>4, <1>5

\* A delayed task keeps the core until the handler, with the interrupts masked.
LEMMA DelayInv ==
  ASSUME Inv, NEW t \in Tasks, NEW ticks \in 0 .. MaxDelay, Delay(t, ticks)
  PROVE  Inv'
<1>1. ~primask /\ ~pendsv /\ status[t] = "RUNNING"
  BY Unmasked DEF Delay, MaskedPoints, ContextOnCpu, Leaving
<1> USE DEF Delay, BeginReschedule, table, pointers, OnCpu, Inv
<1>2. TypeOK'
  BY DEF TypeOK, Points, MaskedPoints, ReturnPoints, Status
<1>3. BeforeStart' /\ PointersAgree' /\ SlotsAreFresh' /\ SwitchPending'
  BY <1>1 DEF BeforeStart, PointersAgree, SlotsAreFresh, SwitchPending, TypeOK
<1>4. MaskStaysWithItsTask' /\ FlagFollowsHandler'
  BY <1>1 DEF MaskStaysWithItsTask, FlagFollowsHandler, MaskedPoints, TypeOK
<1>5. Context'
  BY <1>1 DEF Context, ContextOnCpu, ContextOffCpu, Leaving, TypeOK
<1> QED
  BY <1>2, <1>3, <1>4, <1>5

\* Unmasking returns the task to a point where it may lose the core.
LEMMA EnableInterruptsInv ==
  ASSUME Inv, NEW t \in Tasks, EnableInterrupts(t)
  PROVE  Inv'
<1>1. ContextOnCpu(t) /\ pendsv
  BY DEF EnableInterrupts, OnCpu, Inv, Context, ContextOnCpu, Leaving
<1> USE DEF EnableInterrupts, table, pointers, OnCpu, Inv
<1>2. ret[t] \in ReturnPoints
  BY DEF TypeOK
<1>3. TypeOK'
  BY <1>2 DEF TypeOK, Points, SavedPoints, ReturnPoints
<1>4. BeforeStart' /\ PointersAgree' /\ SlotsAreFresh' /\ SwitchPending'
  BY <1>1, <1>2
  DEF BeforeStart, PointersAgree, SlotsAreFresh, SwitchPending, ReturnPoints,
      TypeOK
<1>5. MaskStaysWithItsTask' /\ FlagFollowsHandler'
  BY <1>1, <1>2
  DEF MaskStaysWithItsTask, FlagFollowsHandler, MaskedPoints, ReturnPoints,
      TypeOK
<1>6. Context'
  BY <1>1, <1>2
  DEF Context, ContextOnCpu, ContextOffCpu, Leaving, ReturnPoints, TypeOK
<1> QED
  BY <1>3, <1>4, <1>5, <1>6

\* A masked section begins on the core.
LEMMA EnterCriticalInv ==
  ASSUME Inv, NEW t \in Tasks, EnterCritical(t)
  PROVE  Inv'
<1>1. ~primask /\ ~pendsv /\ status[t] = "RUNNING"
  BY Unmasked DEF EnterCritical, MaskedPoints, ContextOnCpu, Leaving
<1> USE DEF EnterCritical, table, pointers, OnCpu, Inv
<1>2. TypeOK'
  BY DEF TypeOK, Points, MaskedPoints
<1>3. BeforeStart' /\ PointersAgree' /\ SlotsAreFresh' /\ SwitchPending'
  BY <1>1 DEF BeforeStart, PointersAgree, SlotsAreFresh, SwitchPending
<1>4. MaskStaysWithItsTask' /\ FlagFollowsHandler'
  BY <1>1 DEF MaskStaysWithItsTask, FlagFollowsHandler, MaskedPoints, TypeOK
<1>5. Context'
  BY <1>1 DEF Context, ContextOnCpu, ContextOffCpu, TypeOK
<1> QED
  BY <1>2, <1>3, <1>4, <1>5

\* A masked section ends where it began.
LEMMA LeaveCriticalInv ==
  ASSUME Inv, NEW t \in Tasks, LeaveCritical(t)
  PROVE  Inv'
<1>1. ~pendsv /\ status[t] = "RUNNING"
  BY DEF LeaveCritical, OnCpu, Inv, SwitchPending, Context, ContextOnCpu,
         Leaving
<1> USE DEF LeaveCritical, table, pointers, OnCpu, Inv
<1>2. TypeOK'
  BY DEF TypeOK, Points, SavedPoints
<1>3. BeforeStart' /\ PointersAgree' /\ SlotsAreFresh' /\ SwitchPending'
  BY <1>1 DEF BeforeStart, PointersAgree, SlotsAreFresh, SwitchPending
<1>4. MaskStaysWithItsTask' /\ FlagFollowsHandler'
  BY <1>1 DEF MaskStaysWithItsTask, FlagFollowsHandler, MaskedPoints, TypeOK
<1>5. Context'
  BY <1>1 DEF Context, ContextOnCpu, ContextOffCpu, TypeOK
<1> QED
  BY <1>2, <1>3, <1>4, <1>5

\* A call of the handler with no switch pending: the task it names is off the
\* core and gets a context if it has none, or the current task goes on.
LEMMA HandlerSwitch ==
  ASSUME Inv, started, ~pendsv,
         NEW contexts \in [Tasks -> Points], SysTickHandler(contexts)
  PROVE  \/ /\ next_task_id' # CURRENT_TASK
            /\ next_task' = next_task_id'
            /\ pendsv'
            /\ status'[next_task_id'] = Ticked[next_task_id']
            /\ Ticked[next_task_id'] \in Runnable
            /\ pc' = IF Ticked[next_task_id'] = "CREATED"
                     THEN [contexts EXCEPT ![next_task_id'] = "shell"]
                     ELSE contexts
         \/ /\ next_task_id' = CURRENT_TASK
            /\ ~pendsv'
            /\ pc' = contexts
<1>1. CURRENT_TASK_ID = CURRENT_TASK /\ CURRENT_TASK \in Tasks /\ TypeOK
  BY DEF Inv, PointersAgree
<1>2. next_task_id' = FindNext(CURRENT_TASK_ID, Ticked)
  BY DEF SysTickHandler, Switches
<1>3. next_task_id' \in Tasks
  BY <1>1, <1>2, FindNextTarget
<1>4. CASE next_task_id' = CURRENT_TASK
  BY <1>1, <1>2, <1>4 DEF SysTickHandler, Switches, TypeOK
<1>5. CASE next_task_id' # CURRENT_TASK
  <2>1. Ticked[next_task_id'] \in Runnable
    BY <1>1, <1>2, <1>5, FindNextTarget
  <2>2. status'[next_task_id'] = Ticked[next_task_id']
    BY <1>1, <1>3, <2>1, HandlerTable DEF Runnable
  <2> QED
    BY <1>1, <1>2, <1>5, <2>1, <2>2 DEF SysTickHandler, Switches
<1> QED
  BY <1>4, <1>5

\* What the handler leaves of the parts of Inv that speak of the task table
\* and of the tasks off the core.
LEMMA HandlerOffCpu ==
  ASSUME Inv, started, ~pendsv,
         NEW contexts \in [Tasks -> Points], SysTickHandler(contexts),
         NEW u \in Tasks, u # CURRENT_TASK, contexts[u] = pc[u]
  PROVE  ContextOffCpu(u)' /\ pc'[u] \notin MaskedPoints
<1>1. ContextOffCpu(u) /\ TypeOK /\ CURRENT_TASK_ID = CURRENT_TASK
  BY DEF Inv, Context, PointersAgree
<1>2. pc[u] \notin MaskedPoints
  BY <1>1 DEF ContextOffCpu, MaskedPoints
<1>3. /\ Ticked[u] = status[u] \/ (status[u] = "WAITING" /\ Ticked[u] = "RUNNING")
      /\ \/ status'[u] = Ticked[u]
         \/ Ticked[u] = "EXITED" /\ status'[u] = "INVALID"
  BY <1>1, HandlerTable
<1>4. next_task_id' \in Tasks /\ status' \in [Tasks -> Status]
  BY <1>1, HandlerTypes
<1>5. CASE pendsv' /\ next_task' = u
  <2>1. /\ next_task_id' = u
        /\ status'[u] = Ticked[u] /\ Ticked[u] \in Runnable
        /\ pc'[u] = IF Ticked[u] = "CREATED" THEN "shell" ELSE pc[u]
    BY <1>5, HandlerSwitch
  <2> QED
    BY <1>1, <1>2, <1>3, <1>5, <2>1
    DEF ContextOffCpu, Runnable, MaskedPoints
<1>6. CASE ~(pendsv' /\ next_task' = u)
  <2>1. pc'[u] = pc[u]
    BY <1>4, <1>6, HandlerSwitch
  <2>2. status[u] = "CREATED" => pc[u] \in {"none", "boot", "end"}
    BY <1>1 DEF ContextOffCpu
  <2> QED
    BY <1>1, <1>2, <1>3, <1>6, <2>1, <2>2 DEF ContextOffCpu
<1> QED
  BY <1>5, <1>6

\* The handler called by a task requests a switch if the task is not fit to go on.
LEMMA CallHandlerInv ==
  ASSUME Inv, NEW t \in Tasks, CallHandler(t)
  PROVE  Inv'
<1> DEFINE contexts == [pc EXCEPT ![t] = "enable"]
<1>1. /\ started /\ CURRENT_TASK = t /\ CURRENT_TASK_ID = t /\ TypeOK
      /\ pc[t] = "handler" /\ ~is_systick_trigger_by_int /\ ~pendsv
      /\ ContextOnCpu(t) /\ primask
  BY DEF CallHandler, OnCpu, Inv, PointersAgree, FlagFollowsHandler,
         SwitchPending, Context, MaskStaysWithItsTask, MaskedPoints
<1>2. contexts \in [Tasks -> Points]
  BY <1>1 DEF TypeOK, Points, MaskedPoints
<1>3. SysTickHandler(contexts) /\ UNCHANGED <<primask, systick>>
  BY DEF CallHandler
<1>4. /\ is_systick_trigger_by_int'
      /\ UNCHANGED <<task_id_for_next, CURRENT_TASK_ID, CURRENT_TASK, started,
                     ret, primask, systick>>
  BY <1>3 DEF SysTickHandler, Switches
<1>5. Ticked = status
  BY <1>1 DEF Ticked
<1>6. t # Idle /\ Idle \in Tasks
  BY <1>1, TaskCountAssumption DEF ContextOnCpu, Idle, Tasks
<1>7. status[Idle] \in Runnable
  BY <1>1, <1>6 DEF Inv, Context, ContextOffCpu, Runnable
<1>8. next_task_id' # t
  BY <1>1, <1>3, <1>5, <1>6, <1>7, FindNextLeaves DEF SysTickHandler, Switches
<1> HIDE DEF contexts
<1>9. /\ next_task' = next_task_id' /\ pendsv'
      /\ status'[next_task_id'] \in Runnable
      /\ pc'[t] = contexts[t]
  BY <1>1, <1>2, <1>3, <1>5, <1>8, HandlerSwitch
<1>10. pc'[t] = "enable" /\ \A u \in Tasks : u # t => contexts[u] = pc[u]
  BY <1>1, <1>9 DEF contexts, TypeOK
<1>11. \A u \in Tasks : u # t => ContextOffCpu(u)' /\ pc'[u] \notin MaskedPoints
  BY <1>1, <1>2, <1>3, <1>10, HandlerOffCpu
<1>12. TypeOK'
  BY <1>1, <1>2, <1>3, <1>4, HandlerTypes DEF TypeOK
<1>13. SlotsAreFresh'
  BY <1>1, <1>3, <1>4, <1>5, HandlerTable DEF Inv, SlotsAreFresh
<1>14. BeforeStart' /\ PointersAgree' /\ SwitchPending'
  BY <1>1, <1>4, <1>8, <1>9, <1>10, <1>12
  DEF BeforeStart, PointersAgree, SwitchPending, TypeOK
<1>15. MaskStaysWithItsTask'
  BY <1>1, <1>4, <1>10, <1>11 DEF MaskStaysWithItsTask, MaskedPoints
<1>16. FlagFollowsHandler'
  BY <1>4, <1>10, <1>11 DEF FlagFollowsHandler, MaskedPoints
<1>17. Context'
  <2>1. status'[t] = status[t]
    BY <1>1, <1>3, <1>5, HandlerTable
  <2>2. ContextOnCpu(t)'
    BY <1>1, <1>4, <1>9, <1>10, <2>1 DEF ContextOnCpu, Leaving
  <2> QED
    BY <1>1, <1>4, <1>11, <2>2 DEF Context
<1> QED
  BY <1>12, <1>13, <1>14, <1>15, <1>16, <1>17 DEF Inv

\* The handler taken as an exception only makes tasks runnable or reclaims them.
LEMMA TakeSysTickInv ==
  ASSUME Inv, TakeSysTick
  PROVE  Inv'
<1> DEFINE t == CURRENT_TASK
<1>1. /\ started /\ t \in Tasks /\ CURRENT_TASK_ID = t /\ TypeOK
      /\ ~pendsv /\ ~primask /\ ContextOnCpu(t)
      /\ pc \in [Tasks -> Points] /\ pc[t] \notin MaskedPoints
  BY DEF TakeSysTick, Inv, PointersAgree, Context, MaskStaysWithItsTask, TypeOK
<1>2. SysTickHandler(pc) /\ UNCHANGED primask /\ systick' = FALSE
  BY DEF TakeSysTick
<1>3. /\ is_systick_trigger_by_int'
      /\ UNCHANGED <<task_id_for_next, CURRENT_TASK_ID, CURRENT_TASK, started,
                     ret, primask>>
  BY <1>2 DEF SysTickHandler, Switches
<1>4. \A u \in Tasks : u # t => ContextOffCpu(u)' /\ pc'[u] \notin MaskedPoints
  BY <1>1, <1>2, HandlerOffCpu
<1>5. /\ pc'[t] = pc[t]
      /\ pendsv' => /\ next_task' = next_task_id' /\ next_task_id' # t
                    /\ status'[next_task_id'] \in Runnable
  BY <1>1, <1>2, HandlerSwitch
<1>6. status'[t] = status[t]
  <2>1. status[t] # "WAITING"
    BY <1>1 DEF ContextOnCpu, Leaving, MaskedPoints
  <2> QED
    BY <1>1, <1>2, <2>1, HandlerTable
<1>7. TypeOK'
  BY <1>1, <1>2, <1>3, HandlerTypes DEF TypeOK
<1>8. SlotsAreFresh'
  <2>1. ASSUME NEW u \in Tasks, status[u] = "INVALID"
        PROVE  status'[u] = "INVALID"
    BY <1>1, <1>2, <2>1, HandlerTable
  <2> QED
    BY <1>3, <2>1 DEF Inv, SlotsAreFresh
<1>9. BeforeStart' /\ PointersAgree' /\ SwitchPending'
  BY <1>1, <1>3, <1>5, <1>7
  DEF BeforeStart, PointersAgree, SwitchPending, TypeOK, MaskedPoints
<1>10. MaskStaysWithItsTask'
  BY <1>1, <1>3, <1>4, <1>5 DEF MaskStaysWithItsTask
<1>11. FlagFollowsHandler'
  BY <1>1, <1>3, <1>4, <1>5 DEF FlagFollowsHandler, MaskedPoints
<1>12. Context'
  <2>1. ContextOnCpu(t)'
    BY <1>1, <1>3, <1>5, <1>6 DEF ContextOnCpu, Leaving, MaskedPoints
  <2> QED
    BY <1>1, <1>3, <1>4, <2>1 DEF Context
<1> QED
  BY <1>7, <1>8, <1>9, <1>10, <1>11, <1>12 DEF Inv

\* A pending tick changes nothing else.
LEMMA RaiseTickInv ==
  ASSUME Inv, RaiseTick
  PROVE  Inv'
BY DEF RaiseTick, table, pointers, Inv, TypeOK, BeforeStart, PointersAgree,
       SlotsAreFresh, SwitchPending, MaskStaysWithItsTask, FlagFollowsHandler,
       Context, ContextOnCpu, ContextOffCpu, Leaving

\* A switch leaves one task at a resting point and resumes another from its own.
LEMMA TakePendSVInv ==
  ASSUME Inv, TakePendSV
  PROVE  Inv'
<1> DEFINE n == next_task
<1>1. /\ started /\ pendsv /\ ~primask /\ is_systick_trigger_by_int /\ TypeOK
      /\ n \in Tasks /\ n = next_task_id /\ n # CURRENT_TASK
      /\ CURRENT_TASK \in Tasks /\ status[n] \in Runnable
      /\ \A t \in Tasks : pc[t] \notin MaskedPoints
      /\ \A t \in Tasks :
           IF t = CURRENT_TASK THEN ContextOnCpu(t) ELSE ContextOffCpu(t)
  BY DEF TakePendSV, Inv, SwitchPending, PointersAgree, Context,
         MaskStaysWithItsTask
<1> USE DEF TakePendSV
<1>2. n \in Tasks /\ pc[n] \in {"shell", "user"}
  BY <1>1 DEF ContextOffCpu, Runnable
<1>3. TypeOK'
  BY <1>1 DEF TypeOK, Status
<1>4. BeforeStart' /\ PointersAgree' /\ SwitchPending'
  BY <1>1 DEF BeforeStart, PointersAgree, SwitchPending
<1>5. SlotsAreFresh'
  BY <1>1 DEF Inv, SlotsAreFresh, Runnable, TypeOK
<1>6. MaskStaysWithItsTask' /\ FlagFollowsHandler'
  <2>1. ~primask' /\ is_systick_trigger_by_int' /\ pc' = pc
    BY <1>1 DEF TypeOK
  <2> QED
    BY <1>1, <2>1 DEF MaskStaysWithItsTask, FlagFollowsHandler, MaskedPoints
<1>7. Context'
  <2> SUFFICES ASSUME NEW t \in Tasks
               PROVE  IF t = n THEN ContextOnCpu(t)' ELSE ContextOffCpu(t)'
    BY DEF Context
  <2>1. CASE t = n
    BY <1>1, <1>2, <2>1 DEF ContextOnCpu, TypeOK
  <2>2. CASE t = CURRENT_TASK
    BY <1>1, <2>2 DEF ContextOnCpu, ContextOffCpu, Leaving, MaskedPoints, TypeOK
  <2>3. CASE t # n /\ t # CURRENT_TASK
    BY <1>1, <2>3 DEF ContextOffCpu, TypeOK
  <2> QED
    BY <2>1, <2>2, <2>3
<1> QED
  BY <1>3, <1>4, <1>5, <1>6, <1>7 DEF Inv

\* A step that changes nothing keeps the invariant.
LEMMA StutterInv == Inv /\ UNCHANGED vars => Inv'
BY DEF vars, table, pointers, core, Inv, TypeOK, BeforeStart, PointersAgree,
       SlotsAreFresh, SwitchPending, MaskStaysWithItsTask, FlagFollowsHandler,
       Context, ContextOnCpu, ContextOffCpu, Leaving
-----------------------------------------------------------------------------
(***************************************************************************)
(* The theorems. Each assumes that the program creates a task before it    *)
(* calls yos_start.                                                        *)
(***************************************************************************)
LEMMA NextInv ==
  ASSUME MinTasks # 0
  PROVE  Inv /\ [Next]_vars => Inv'
<1> SUFFICES ASSUME Inv, [Next]_vars PROVE Inv'
  OBVIOUS
<1>1. CASE CreateTask
  BY <1>1, CreateTaskInv
<1>2. CASE Start
  BY <1>2, StartInv
<1>3. CASE Exceptions
  BY <1>3, RaiseTickInv, TakeSysTickInv, TakePendSVInv DEF Exceptions
<1>4. ASSUME NEW t \in Tasks, KernelStep(t) PROVE Inv'
  BY <1>4, CallHandlerInv, EnableInterruptsInv, LeaveCriticalInv DEF KernelStep
<1>5. ASSUME NEW t \in Tasks, UserStep(t) PROVE Inv'
  BY <1>5, ShellEnterInv, ExitTaskInv, ScheduleInv, DelayInv, EnterCriticalInv
  DEF UserStep
<1>6. CASE UNCHANGED vars
  BY <1>6, StutterInv
<1> QED
  BY <1>1, <1>2, <1>3, <1>4, <1>5, <1>6 DEF Next

\* The inductive invariant holds in every reachable state.
THEOREM Invariance ==
  ASSUME MinTasks # 0
  PROVE  Spec => []Inv
BY InitInv, NextInv, PTL DEF Spec

\* Every variable keeps its type.
THEOREM TypeCorrect ==
  ASSUME MinTasks # 0
  PROVE  Spec => []TypeOK
<1>1. Inv => TypeOK
  BY DEF Inv
<1> QED
  BY <1>1, Invariance, PTL

\* What pend_sv_handler finds when it runs is always a task to switch to.
THEOREM SwitchesAreValid ==
  ASSUME MinTasks # 0
  PROVE  Spec => []SwitchTargetValid
<1>1. Inv => SwitchTargetValid
  BY DEF Inv, SwitchTargetValid, SwitchPending, Context, ContextOffCpu, Runnable
<1> QED
  BY <1>1, Invariance, PTL

\* No context switch falls into a masked section.
THEOREM MasksAreKept ==
  ASSUME MinTasks # 0
  PROVE  Spec => []MaskStaysWithItsTask
<1>1. Inv => MaskStaysWithItsTask
  BY DEF Inv
<1> QED
  BY <1>1, Invariance, PTL

\* A task that sleeps, has exited or was never created does not execute.
THEOREM LiveTasksExecute ==
  ASSUME MinTasks # 0
  PROVE  Spec => []OnlyLiveTasksExecute
<1>1. Inv => OnlyLiveTasksExecute
  <2> SUFFICES ASSUME Inv, NEW t \in Tasks, OnCpu(t)
               PROVE  /\ CURRENT_TASK_ID = t
                      /\ pc[t] \in {"user", "crit"} => status[t] = "RUNNING"
                      /\ status[t] # "INVALID"
    BY DEF OnlyLiveTasksExecute
  <2>1. CURRENT_TASK_ID = t /\ ContextOnCpu(t)
    BY DEF Inv, OnCpu, PointersAgree, Context
  <2>2. ASSUME pc[t] \in {"user", "crit"} PROVE status[t] = "RUNNING"
    <3>1. CASE pc[t] = "user"
      BY <2>1, <3>1, Unmasked DEF ContextOnCpu, Leaving, MaskedPoints
    <3>2. CASE pc[t] = "crit"
      BY <2>1, <3>2 DEF ContextOnCpu, Leaving
    <3> QED
      BY <2>2, <3>1, <3>2
  <2>3. status[t] # "INVALID"
    BY <2>1 DEF ContextOnCpu
  <2> QED
    BY <2>1, <2>2, <2>3
<1> QED
  BY <1>1, Invariance, PTL

\* yos_start and _yos_task_shell never get past their last call.
THEOREM YosStartNeverReturns ==
  ASSUME MinTasks # 0
  PROVE  Spec => []NeverReturns
<1>1. Inv => NeverReturns
  <2> SUFFICES ASSUME Inv, NEW t \in Tasks, OnCpu(t), pc[t] = "end"
               PROVE  FALSE
    BY DEF NeverReturns
  <2> QED
    BY Unmasked DEF ContextOnCpu, Leaving, MaskedPoints
<1> QED
  BY <1>1, Invariance, PTL

\* Every change of a task's status follows an edge of the diagram.
LEMMA LifecycleOfStep ==
  ASSUME Inv, [Next]_vars
  PROVE  [LifecycleStep]_vars
<1> SUFFICES ASSUME NEW t \in Tasks, status'[t] # status[t]
             PROVE  \/ <<status[t], status'[t]>> \in LifecycleEdges
                    \/ /\ <<status[t], status'[t]>> = <<"INVALID", "CREATED">>
                       /\ t >= task_id_for_next
  BY DEF LifecycleStep
<1> USE DEF LifecycleEdges
<1>1. TypeOK
  BY DEF Inv
<1>2. CASE CreateTask
  <2>1. t = task_id_for_next
    BY <1>1, <1>2 DEF CreateTask, TypeOK
  <2> QED
    BY <1>1, <1>2, <2>1 DEF CreateTask, Inv, SlotsAreFresh, TypeOK, Tasks
<1>3. CASE Start
  BY <1>1, <1>3 DEF Start, Reap
<1>4. CASE TakeSysTick
  <2>1. SysTickHandler(pc)
    BY <1>4 DEF TakeSysTick
  <2> QED
    BY <1>1, <2>1, HandlerTable
<1>5. CASE TakePendSV
  BY <1>1, <1>5 DEF TakePendSV, Inv, SwitchPending, Runnable, TypeOK
<1>6. ASSUME NEW u \in Tasks, CallHandler(u)
      PROVE  <<status[t], status'[t]>> \in LifecycleEdges
  <2>1. SysTickHandler([pc EXCEPT ![u] = "enable"])
    BY <1>6 DEF CallHandler
  <2> QED
    BY <1>1, <2>1, HandlerTable
<1>7. ASSUME NEW u \in Tasks, ShellEnter(u) \/ ExitTask(u)
                              \/ \E ticks \in 0 .. MaxDelay : Delay(u, ticks)
      PROVE  <<status[t], status'[t]>> \in LifecycleEdges
  <2>1. OnCpu(u) /\ pc[u] \in {"shell", "user"}
    BY <1>7 DEF ShellEnter, ExitTask, Delay
  <2>2. status[u] = "RUNNING"
    BY <2>1, Unmasked DEF ContextOnCpu, Leaving, MaskedPoints
  <2> QED
    BY <1>1, <1>7, <2>2 DEF ShellEnter, ExitTask, Delay, TypeOK
<1>8. ASSUME NEW u \in Tasks, EnableInterrupts(u) \/ LeaveCritical(u)
                              \/ Schedule(u) \/ EnterCritical(u)
      PROVE  FALSE
  BY <1>8 DEF EnableInterrupts, LeaveCritical, Schedule, EnterCritical, table
<1>9. CASE RaiseTick \/ UNCHANGED vars
  BY <1>9 DEF RaiseTick, vars, table
<1> QED
  BY <1>2, <1>3, <1>4, <1>5, <1>6, <1>7, <1>8, <1>9
  DEF Next, Exceptions, KernelStep, UserStep

\* A task's status follows the diagram of yos.h, and no slot is used twice.
THEOREM LifecycleHolds ==
  ASSUME MinTasks # 0
  PROVE  Spec => Lifecycle
BY LifecycleOfStep, Invariance, PTL DEF Spec, Lifecycle
-----------------------------------------------------------------------------
(***************************************************************************)
(* YosKernel implements YosScheduler, for every size of the task table and *)
(* every bound on delays: its initial state is one of the scheduler's, and *)
(* each of its steps is a step of the scheduler or changes nothing the     *)
(* scheduler sees.                                                         *)
(***************************************************************************)

\* A scan over the concrete table passes the core on as the scheduler says.
LEMMA ScanPassesOn ==
  ASSUME NEW from \in Tasks, NEW st, NEW s, AbstractRunning' = FindNext(from, st),
         \A t \in Tasks : s[t] = "ready" <=> st[t] \in Runnable
  PROVE  Scheduler!PassOn(from, s)
<1>1. FindNext(from, st) \in Candidates(from, st)
  BY FindNextIsFirst
<1>2. \A u \in Tasks : s[u] = "ready" => u \in Candidates(from, st)
  BY DEF Candidates
<1>3. \A u \in Candidates(from, st) :
        Ahead(from, u) >= Ahead(from, FindNext(from, st))
  <2> SUFFICES ASSUME NEW u \in Candidates(from, st)
               PROVE  Ahead(from, u) >= Ahead(from, FindNext(from, st))
    OBVIOUS
  <2>1. u \in Tasks /\ FindNext(from, st) \in Tasks
    BY <1>1 DEF Candidates
  <2>2. Ahead(from, u) \in Nat /\ Ahead(from, FindNext(from, st)) \in Nat
    BY <2>1, AheadRange, TaskCountAssumption
  <2> QED
    BY <2>2, FindNextIsFirst
<1> QED
  BY <1>1, <1>2, <1>3
  DEF Scheduler!PassOn, Scheduler!Tasks, Scheduler!Ahead, Tasks, Ahead,
      Candidates

\* The kernel's initial state is one of the scheduler's.
LEMMA SchedulerInit == Init => Scheduler!SInit
BY TaskCountAssumption
DEF Init, Scheduler!SInit, AbstractState, AbstractLeft, AbstractRunning,
    Scheduler!Tasks, Tasks, Scheduler!Idle, Idle, Scheduler!NoTask, NoTask,
    Runnable

\* The steps the scheduler does not see.
LEMMA SilentStep ==
  ASSUME UNCHANGED <<status, block_ticks, started, pendsv, next_task, CURRENT_TASK>>
  PROVE  UNCHANGED Scheduler!svars
BY DEF Scheduler!svars, AbstractState, AbstractLeft, AbstractRunning

\* Creating a task is the scheduler's creating one.
LEMMA CreateTaskRefines ==
  ASSUME Inv, CreateTask
  PROVE  Scheduler!SCreate(task_id_for_next)
<1>1. /\ task_id_for_next \in Tasks /\ status[task_id_for_next] = "INVALID"
      /\ status \in [Tasks -> Status] /\ block_ticks \in [Tasks -> 0 .. MaxDelay]
  BY TaskCountAssumption DEF CreateTask, Inv, TypeOK, SlotsAreFresh, Tasks
<1>2. AbstractState' = [AbstractState EXCEPT ![task_id_for_next] = "ready"]
  BY <1>1 DEF CreateTask, AbstractState, Runnable, Status
<1>3. AbstractState[task_id_for_next] = "absent"
  BY <1>1 DEF AbstractState, Runnable
<1>4. AbstractLeft' = AbstractLeft
  BY <1>1 DEF CreateTask, AbstractLeft
<1>5. AbstractRunning = NoTask /\ AbstractRunning' = NoTask
  BY DEF CreateTask, core, AbstractRunning
<1> QED
  BY <1>2, <1>3, <1>4, <1>5 DEF Scheduler!SCreate, Scheduler!NoTask, NoTask

\* yos_start gives the core to the first ready task after idle.
LEMMA StartRefines ==
  ASSUME Inv, Start
  PROVE  Scheduler!SStart
<1>1. /\ ~started /\ CURRENT_TASK_ID = Idle /\ Idle \in Tasks /\ ~pendsv
      /\ TypeOK
  BY DEF Start, Inv, BeforeStart, TypeOK
<1>2. status' = Reap(Idle, FindNext(Idle, status), status)
  BY <1>1 DEF Start
<1>3. AbstractState' = AbstractState
  BY <1>1, <1>2 DEF Reap, AbstractState, TypeOK, Status, Runnable
<1>4. AbstractLeft' = AbstractLeft
  BY <1>1, <1>2 DEF Start, Reap, AbstractLeft, TypeOK
<1>5. AbstractRunning = NoTask /\ AbstractRunning' = FindNext(Idle, status)
  BY <1>1 DEF Start, AbstractRunning, TypeOK
<1>6. \A t \in Tasks : AbstractState[t] = "ready" <=> status[t] \in Runnable
  BY DEF AbstractState, Runnable
<1>7. Scheduler!PassOn(Idle, AbstractState)
  BY <1>1, <1>5, <1>6, ScanPassesOn
<1> QED
  BY <1>3, <1>4, <1>5, <1>7
  DEF Scheduler!SStart, Scheduler!NoTask, NoTask, Scheduler!Idle, Idle

\* A task that exits is absent from then on.
LEMMA ExitTaskRefines ==
  ASSUME Inv, NEW t \in Tasks, ExitTask(t)
  PROVE  Scheduler!SExit(t)
<1>1. ~pendsv /\ status[t] = "RUNNING" /\ started /\ CURRENT_TASK = t /\ TypeOK
  BY Unmasked DEF ExitTask, OnCpu, MaskedPoints, ContextOnCpu, Leaving, Inv
<1>2. AbstractState[t] = "ready"
      /\ AbstractState' = [AbstractState EXCEPT ![t] = "absent"]
  BY <1>1 DEF ExitTask, AbstractState, Runnable, TypeOK, Status
<1>3. AbstractLeft' = AbstractLeft
  BY <1>1 DEF ExitTask, AbstractLeft, TypeOK
<1>4. AbstractRunning = t /\ AbstractRunning' = t
  BY <1>1 DEF ExitTask, AbstractRunning, pointers, core
<1> QED
  BY <1>2, <1>3, <1>4 DEF Scheduler!SExit

\* A delay is a sleep of that many ticks, or of one for none.
LEMMA DelayRefines ==
  ASSUME Inv, NEW t \in Tasks, NEW ticks \in 0 .. MaxDelay, Delay(t, ticks)
  PROVE  Scheduler!SSleep(t)
<1> DEFINE n == IF ticks = 0 THEN 1 ELSE ticks
<1>1. ~pendsv /\ status[t] = "RUNNING" /\ started /\ CURRENT_TASK = t /\ TypeOK
  BY Unmasked DEF Delay, OnCpu, MaskedPoints, ContextOnCpu, Leaving, Inv
<1>2. AbstractState[t] = "ready"
      /\ AbstractState' = [AbstractState EXCEPT ![t] = "sleeping"]
  BY <1>1 DEF Delay, AbstractState, Runnable, TypeOK, Status
<1>3. AbstractLeft' = [AbstractLeft EXCEPT ![t] = n]
  BY <1>1 DEF Delay, AbstractLeft, TypeOK
<1>4. n \in 1 .. MaxDelay + 1
  BY DelayAssumption
<1>5. AbstractRunning = t /\ AbstractRunning' = t
  BY <1>1 DEF Delay, AbstractRunning, pointers, core
<1> QED
  BY <1>2, <1>3, <1>4, <1>5 DEF Scheduler!SSleep

\* The handler, called with no switch pending, passes the core on.
LEMMA HandlerPassesOn ==
  ASSUME Inv, started, ~pendsv, NEW contexts \in [Tasks -> Points],
         SysTickHandler(contexts)
  PROVE  /\ AbstractRunning = CURRENT_TASK /\ CURRENT_TASK \in Tasks
         /\ Scheduler!PassOn(CURRENT_TASK, AbstractState')
<1>1. CURRENT_TASK_ID = CURRENT_TASK /\ CURRENT_TASK \in Tasks /\ TypeOK
  BY DEF Inv, PointersAgree
<1>2. AbstractRunning = CURRENT_TASK
  BY DEF AbstractRunning
<1>3. AbstractRunning' = FindNext(CURRENT_TASK, Ticked)
  <2>1. next_task_id' = FindNext(CURRENT_TASK, Ticked) /\ started'
        /\ CURRENT_TASK' = CURRENT_TASK
    BY <1>1 DEF SysTickHandler, Switches
  <2>2. \/ pendsv' /\ next_task' = next_task_id'
        \/ ~pendsv' /\ next_task_id' = CURRENT_TASK
    BY HandlerSwitch
  <2> QED
    BY <2>1, <2>2 DEF AbstractRunning
<1>4. \A t \in Tasks : AbstractState'[t] = "ready" <=> Ticked[t] \in Runnable
  <2> SUFFICES ASSUME NEW t \in Tasks
               PROVE  AbstractState'[t] = "ready" <=> Ticked[t] \in Runnable
    OBVIOUS
  <2>1. status'[t] = Ticked[t] \/ (Ticked[t] = "EXITED" /\ status'[t] = "INVALID")
    BY <1>1, HandlerTable
  <2> QED
    BY <2>1 DEF AbstractState, Runnable
<1>5. Scheduler!PassOn(CURRENT_TASK, AbstractState')
  BY <1>1, <1>3, <1>4, ScanPassesOn
<1> QED
  BY <1>1, <1>2, <1>5

\* The handler called by a task passes the core on, and is no tick.
LEMMA CallHandlerRefines ==
  ASSUME Inv, NEW t \in Tasks, CallHandler(t)
  PROVE  Scheduler!SYield
<1>1. /\ started /\ CURRENT_TASK = t /\ ~is_systick_trigger_by_int /\ ~pendsv
      /\ TypeOK
  BY DEF CallHandler, OnCpu, Inv, FlagFollowsHandler, SwitchPending
<1> DEFINE contexts == [pc EXCEPT ![t] = "enable"]
<1>2. contexts \in [Tasks -> Points] /\ SysTickHandler(contexts)
  BY <1>1 DEF CallHandler, TypeOK, Points, MaskedPoints
<1>3. \A u \in Tasks : \/ status'[u] = status[u]
                       \/ status[u] = "EXITED" /\ status'[u] = "INVALID"
  BY <1>1, <1>2, HandlerTable DEF Ticked
<1>4. AbstractState' = AbstractState
  BY <1>3 DEF AbstractState, Runnable
<1>5. AbstractLeft' = AbstractLeft
  BY <1>1, <1>2, <1>3 DEF AbstractLeft, SysTickHandler, Switches
<1>6. AbstractRunning = CURRENT_TASK /\ CURRENT_TASK \in Tasks
      /\ Scheduler!PassOn(CURRENT_TASK, AbstractState')
  BY <1>1, <1>2, HandlerPassesOn
<1> QED
  BY <1>4, <1>5, <1>6
  DEF Scheduler!SYield, Scheduler!NoTask, Tasks

\* The handler taken as an exception is a tick.
LEMMA TakeSysTickRefines ==
  ASSUME Inv, TakeSysTick
  PROVE  Scheduler!STick
<1>1. /\ started /\ ~pendsv /\ ~primask /\ SysTickHandler(pc) /\ TypeOK
      /\ CURRENT_TASK \in Tasks /\ pc[CURRENT_TASK] \notin MaskedPoints
      /\ ContextOnCpu(CURRENT_TASK) /\ pc \in [Tasks -> Points]
  BY DEF TakeSysTick, Inv, PointersAgree, MaskStaysWithItsTask, TypeOK, Context
<1>2. is_systick_trigger_by_int
  BY <1>1 DEF Inv, FlagFollowsHandler, MaskedPoints
<1>3. AbstractState[CURRENT_TASK] # "sleeping"
  BY <1>1 DEF AbstractState, ContextOnCpu, Leaving, MaskedPoints
<1>4. ASSUME NEW t \in Tasks
      PROVE  /\ AbstractLeft'[t] = IF AbstractState[t] = "sleeping"
                                   THEN AbstractLeft[t] - 1 ELSE 0
             /\ AbstractState'[t] =
                  IF AbstractState[t] = "sleeping" /\ AbstractLeft[t] = 1
                  THEN "ready" ELSE AbstractState[t]
  <2>1. block_ticks[t] \in Nat /\ status[t] \in Status
    BY <1>1, DelayAssumption DEF TypeOK
  <2>2. CASE status[t] = "WAITING"
    <3>1. /\ block_ticks'[t] = IF block_ticks[t] > 0 THEN block_ticks[t] - 1 ELSE 0
          /\ Ticked[t] = IF block_ticks'[t] = 0 THEN "RUNNING" ELSE "WAITING"
      BY <1>1, <1>2, <2>1, <2>2, HandlerCounts
    <3>2. status'[t] = Ticked[t]
      BY <1>1, <3>1, HandlerTable
    <3> QED
      BY <2>1, <2>2, <3>1, <3>2 DEF AbstractState, AbstractLeft, Runnable
  <2>3. CASE status[t] # "WAITING"
    <3>1. \/ status'[t] = status[t]
          \/ status[t] = "EXITED" /\ status'[t] = "INVALID"
      BY <1>1, <2>3, HandlerTable
    <3> QED
      BY <2>3, <3>1 DEF AbstractState, AbstractLeft, Runnable
  <2> QED
    BY <2>2, <2>3
<1>5. /\ AbstractLeft' = [t \in Tasks |-> IF AbstractState[t] = "sleeping"
                                          THEN AbstractLeft[t] - 1 ELSE 0]
      /\ AbstractState' = [t \in Tasks |->
           IF AbstractState[t] = "sleeping" /\ AbstractLeft[t] = 1
           THEN "ready" ELSE AbstractState[t]]
  BY <1>4 DEF AbstractLeft, AbstractState
<1>6. AbstractRunning = CURRENT_TASK
      /\ Scheduler!PassOn(CURRENT_TASK, AbstractState')
  BY <1>1, HandlerPassesOn
<1> QED
  BY <1>1, <1>3, <1>5, <1>6
  DEF Scheduler!STick, Scheduler!NoTask, Scheduler!Tasks, Tasks

\* The switch itself is no step of the scheduler: the core had passed on.
LEMMA TakePendSVRefines ==
  ASSUME Inv, TakePendSV
  PROVE  UNCHANGED Scheduler!svars
<1>1. /\ started /\ pendsv /\ next_task \in Tasks /\ TypeOK
      /\ status[next_task] \in Runnable
      /\ status' = [status EXCEPT ![next_task] = "RUNNING"]
      /\ started' /\ ~pendsv' /\ CURRENT_TASK' = next_task
      /\ block_ticks' = block_ticks
  BY DEF TakePendSV, Inv, SwitchPending
<1>2. AbstractState' = AbstractState
  BY <1>1 DEF AbstractState, Runnable, TypeOK
<1>3. AbstractLeft' = AbstractLeft
  BY <1>1 DEF AbstractLeft, Runnable, TypeOK
<1>4. AbstractRunning' = AbstractRunning
  BY <1>1 DEF AbstractRunning
<1> QED
  BY <1>2, <1>3, <1>4 DEF Scheduler!svars

\* Every step of the kernel is a step of the scheduler or none.
LEMMA NextRefines ==
  ASSUME Inv, [Next]_vars
  PROVE  [Scheduler!SNext]_Scheduler!svars
<1> USE DEF Scheduler!SNext
<1>1. CASE CreateTask
  <2>1. task_id_for_next \in Scheduler!Tasks
    BY <1>1, TaskCountAssumption DEF CreateTask, Inv, TypeOK, Scheduler!Tasks
  <2> QED
    BY <1>1, <2>1, CreateTaskRefines
<1>2. CASE Start
  BY <1>2, StartRefines
<1>3. CASE TakeSysTick
  BY <1>3, TakeSysTickRefines
<1>4. CASE TakePendSV
  BY <1>4, TakePendSVRefines
<1>5. ASSUME NEW t \in Tasks, CallHandler(t)
      PROVE  Scheduler!SNext
  BY <1>5, CallHandlerRefines
<1>6. ASSUME NEW t \in Tasks,
             ExitTask(t) \/ \E ticks \in 0 .. MaxDelay : Delay(t, ticks)
      PROVE  Scheduler!SNext
  BY <1>6, ExitTaskRefines, DelayRefines DEF Scheduler!Tasks, Tasks
<1>7. ASSUME NEW t \in Tasks, ShellEnter(t)
      PROVE  UNCHANGED Scheduler!svars
  <2>1. status[t] = "RUNNING" /\ TypeOK
    BY <1>7, Unmasked DEF ShellEnter, MaskedPoints, ContextOnCpu, Leaving, Inv
  <2>2. status' = status
    BY <1>7, <2>1 DEF ShellEnter, TypeOK
  <2> QED
    BY <1>7, <2>2, SilentStep DEF ShellEnter, pointers, core
<1>8. ASSUME NEW t \in Tasks, EnableInterrupts(t) \/ LeaveCritical(t)
                              \/ Schedule(t) \/ EnterCritical(t)
      PROVE  UNCHANGED Scheduler!svars
  BY <1>8, SilentStep
  DEF EnableInterrupts, LeaveCritical, Schedule, EnterCritical, table, pointers
<1>9. CASE RaiseTick \/ UNCHANGED vars
  BY <1>9, SilentStep DEF RaiseTick, vars, table, pointers, core
<1> QED
  BY <1>1, <1>2, <1>3, <1>4, <1>5, <1>6, <1>7, <1>8, <1>9
  DEF Next, Exceptions, KernelStep, UserStep

\* The kernel is an implementation of the abstract scheduler.
THEOREM KernelImplementsScheduler ==
  ASSUME MinTasks # 0
  PROVE  Spec => ImplementsScheduler
BY SchedulerInit, NextRefines, Invariance, PTL
DEF Spec, ImplementsScheduler, Scheduler!SSpec
=============================================================================
