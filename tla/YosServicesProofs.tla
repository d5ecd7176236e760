------------------------- MODULE YosServicesProofs -------------------------
(***************************************************************************)
(* What the kernel gives its tasks, proved for every size of the task      *)
(* table and every bound on delays: a delay ends on time and turns are     *)
(* bounded (YosHistory), a sleep in milliseconds is short by less than two *)
(* ticks (YosSleep), a mutex excludes and its owner field tells who is     *)
(* inside (YosMutex). All three rest on the invariant of YosKernelProofs.  *)
(***************************************************************************)
EXTENDS YosHistory, YosSleep, YosMutex, YosKernelProofs

\* Only the SysTick exception takes a tick.
LEMMA TickIsSysTick ==
  ASSUME [Next]_vars, TickTaken
  PROVE  TakeSysTick
BY DEF TickTaken, Next, Exceptions, KernelStep, UserStep, CreateTask, Start,
       RaiseTick, TakePendSV, CallHandler, EnableInterrupts, LeaveCritical,
       ShellEnter, ExitTask, Schedule, Delay, EnterCritical, vars, core

\* Between ticks a sleeping task stays asleep and its countdown stands still.
LEMMA SleepsBetweenTicks ==
  ASSUME Inv, [Next]_vars, ~TickTaken, NEW t \in Tasks, status[t] = "WAITING"
  PROVE  status'[t] = "WAITING" /\ block_ticks'[t] = block_ticks[t]
<1>1. TypeOK
  BY DEF Inv
<1>2. CASE CreateTask
  BY <1>1, <1>2 DEF CreateTask, TypeOK, Inv, SlotsAreFresh, Tasks
<1>3. CASE Start
  BY <1>1, <1>3 DEF Start, Reap
<1>4. CASE TakeSysTick
  BY <1>4 DEF TakeSysTick, TickTaken
<1>5. CASE TakePendSV
  BY <1>1, <1>5 DEF TakePendSV, Inv, SwitchPending, Runnable, TypeOK
<1>6. ASSUME NEW u \in Tasks, CallHandler(u)
      PROVE  status'[t] = "WAITING" /\ block_ticks'[t] = block_ticks[t]
  <2>1. ~is_systick_trigger_by_int
    BY <1>6 DEF CallHandler, Inv, FlagFollowsHandler
  <2> QED
    BY <1>6, <2>1 DEF CallHandler, SysTickHandler, Switches, Ticked, Reap
<1>7. ASSUME NEW u \in Tasks, ShellEnter(u) \/ ExitTask(u)
                              \/ \E ticks \in 0 .. MaxDelay : Delay(u, ticks)
      PROVE  status'[t] = "WAITING" /\ block_ticks'[t] = block_ticks[t]
  <2>1. OnCpu(u) /\ pc[u] \in {"shell", "user"}
    BY <1>7 DEF ShellEnter, ExitTask, Delay
  <2>2. status[u] = "RUNNING"
    BY <2>1, Unmasked DEF ContextOnCpu, Leaving, MaskedPoints
  <2> QED
    BY <1>1, <1>7, <2>2 DEF ShellEnter, ExitTask, Delay, TypeOK
<1>8. ASSUME NEW u \in Tasks, EnableInterrupts(u) \/ LeaveCritical(u)
                              \/ Schedule(u) \/ EnterCritical(u)
      PROVE  UNCHANGED table
  BY <1>8 DEF EnableInterrupts, LeaveCritical, Schedule, EnterCritical
<1>9. CASE RaiseTick \/ UNCHANGED vars
  BY <1>9 DEF RaiseTick, vars, table
<1> QED
  BY <1>2, <1>3, <1>4, <1>5, <1>6, <1>7, <1>8, <1>9
  DEF Next, Exceptions, KernelStep, UserStep, table

\* A tick counts a sleeping task down and wakes it at the last one.
LEMMA TickCounts ==
  ASSUME Inv, TakeSysTick, NEW t \in Tasks, status[t] = "WAITING"
  PROVE  /\ status'[t] \in {"WAITING", "RUNNING"}
         /\ status'[t] = "WAITING" <=> block_ticks[t] > 1
         /\ block_ticks[t] > 1 => block_ticks'[t] = block_ticks[t] - 1
<1>1. TypeOK /\ started /\ ~primask /\ SysTickHandler(pc) /\ CURRENT_TASK \in Tasks
  BY DEF TakeSysTick, Inv, PointersAgree
<1>2. is_systick_trigger_by_int
  BY <1>1 DEF Inv, FlagFollowsHandler, MaskStaysWithItsTask, MaskedPoints
<1>3. block_ticks[t] \in Nat
  BY <1>1, DelayAssumption DEF TypeOK
<1>4. /\ block_ticks'[t] = IF block_ticks[t] > 0 THEN block_ticks[t] - 1 ELSE 0
      /\ Ticked[t] = IF block_ticks'[t] = 0 THEN "RUNNING" ELSE "WAITING"
  BY <1>1, <1>2, <1>3, HandlerCounts
<1>5. status'[t] = Ticked[t]
  BY <1>1, <1>4, HandlerTable
<1> QED
  BY <1>3, <1>4, <1>5

\* Only yos_task_delay puts a task to sleep.
LEMMA OnlyDelaySleeps ==
  ASSUME Inv, [Next]_vars, NEW t \in Tasks, FallsAsleep(t)
  PROVE  block_ticks'[t] \in 0 .. MaxDelay /\ ~TickTaken
<1>1. TypeOK /\ status[t] # "WAITING" /\ status'[t] = "WAITING"
  BY DEF Inv, FallsAsleep
<1>2. ASSUME NEW contexts, SysTickHandler(contexts)
      PROVE  FALSE
  BY <1>1, <1>2, HandlerTable
<1>3. CASE CreateTask \/ Start \/ RaiseTick \/ TakePendSV \/ UNCHANGED vars
  BY <1>1, <1>3
  DEF CreateTask, Start, Reap, RaiseTick, TakePendSV, vars, table, TypeOK
<1>4. CASE TakeSysTick
  BY <1>2, <1>4 DEF TakeSysTick
<1>5. ASSUME NEW u \in Tasks, KernelStep(u)
      PROVE  FALSE
  BY <1>1, <1>2, <1>5
  DEF KernelStep, CallHandler, EnableInterrupts, LeaveCritical, table
<1>6. ASSUME NEW u \in Tasks,
             ShellEnter(u) \/ ExitTask(u) \/ Schedule(u) \/ EnterCritical(u)
      PROVE  FALSE
  BY <1>1, <1>6
  DEF ShellEnter, ExitTask, Schedule, EnterCritical, table, TypeOK
<1>7. ASSUME NEW u \in Tasks, NEW ticks \in 0 .. MaxDelay, Delay(u, ticks)
      PROVE  block_ticks'[t] \in 0 .. MaxDelay /\ ~TickTaken
  BY <1>1, <1>7 DEF Delay, TypeOK, TickTaken
<1> QED
  BY <1>3, <1>4, <1>5, <1>6, <1>7 DEF Next, Exceptions, UserStep
-----------------------------------------------------------------------------
(***************************************************************************)
(* Delays.                                                                 *)
(***************************************************************************)
LEMMA TimingStep ==
  ASSUME Inv, HistoryTypeOK, Timing, [Next]_vars, Observe
  PROVE  /\ Timing'
         /\ asked' \in [Tasks -> 0 .. MaxDelay]
         /\ elapsed' \in [Tasks -> 0 .. MaxDelay]
<1> SUFFICES ASSUME NEW t \in Tasks
             PROVE  /\ asked'[t] \in 0 .. MaxDelay
                    /\ elapsed'[t] \in 0 .. MaxDelay
                    /\ status'[t] = "WAITING" =>
                         IF asked'[t] = 0
                         THEN block_ticks'[t] = 0 /\ elapsed'[t] = 0
                         ELSE /\ block_ticks'[t] > 0
                              /\ elapsed'[t] + block_ticks'[t] = asked'[t]
  BY DEF Timing, Observe
<1>1. /\ block_ticks[t] \in 0 .. MaxDelay /\ asked[t] \in 0 .. MaxDelay
      /\ elapsed[t] \in 0 .. MaxDelay
  BY DEF Inv, TypeOK, HistoryTypeOK
<1>2. CASE status'[t] # "WAITING"
  BY <1>2, DelayAssumption DEF Observe, FallsAsleep
<1>3. CASE FallsAsleep(t)
  <2>1. block_ticks'[t] \in 0 .. MaxDelay /\ ~TickTaken
    BY <1>3, OnlyDelaySleeps
  <2>2. asked'[t] = block_ticks'[t] /\ elapsed'[t] = 0
    BY <1>3, <2>1 DEF Observe, FallsAsleep
  <2> QED
    BY <2>1, <2>2, DelayAssumption
<1>4. CASE status[t] = "WAITING" /\ status'[t] = "WAITING" /\ ~TickTaken
  <2>1. block_ticks'[t] = block_ticks[t]
    BY <1>4, SleepsBetweenTicks
  <2>2. asked'[t] = asked[t] /\ elapsed'[t] = elapsed[t]
    BY <1>4 DEF Observe, FallsAsleep
  <2> QED
    BY <1>1, <1>4, <2>1, <2>2 DEF Timing
<1>5. CASE status[t] = "WAITING" /\ status'[t] = "WAITING" /\ TickTaken
  <2>1. block_ticks[t] > 1 /\ block_ticks'[t] = block_ticks[t] - 1
    BY <1>5, TickIsSysTick, TickCounts
  <2>2. asked'[t] = asked[t] /\ elapsed'[t] = elapsed[t] + 1
    BY <1>5 DEF Observe, FallsAsleep
  <2>3. asked[t] # 0 /\ elapsed[t] + block_ticks[t] = asked[t]
    BY <1>1, <1>5, <2>1 DEF Timing
  <2> QED
    BY <1>1, <2>1, <2>2, <2>3, DelayAssumption
<1> QED
  BY <1>2, <1>3, <1>4, <1>5 DEF FallsAsleep

\* In every step a task that wakes up has had its ticks.
LEMMA WakesOnTimeOfStep ==
  ASSUME Inv, HistoryTypeOK, Timing, [Next]_vars
  PROVE  WakesOnTimeStep
<1> SUFFICES ASSUME NEW t \in Tasks, WakesUp(t)
             PROVE  /\ TickTaken
                    /\ status'[t] = "RUNNING"
                    /\ elapsed[t] + 1 = IF asked[t] = 0 THEN 1 ELSE asked[t]
  BY DEF WakesOnTimeStep
<1>1. status[t] = "WAITING" /\ status'[t] # "WAITING"
  BY DEF WakesUp
<1>2. /\ block_ticks[t] \in 0 .. MaxDelay /\ asked[t] \in 0 .. MaxDelay
      /\ elapsed[t] \in 0 .. MaxDelay
  BY DEF Inv, TypeOK, HistoryTypeOK
<1>3. TickTaken
  BY <1>1, SleepsBetweenTicks
<1>4. status'[t] = "RUNNING" /\ ~(block_ticks[t] > 1)
  BY <1>1, <1>3, TickIsSysTick, TickCounts
<1> QED
  BY <1>1, <1>2, <1>3, <1>4 DEF Timing
-----------------------------------------------------------------------------
(***************************************************************************)
(* Turns.                                                                  *)
(***************************************************************************)

\* If n comes before t when one starts from c, then c comes before n when one
\* starts from t: going round from t one meets c first.
LEMMA AroundTheCircle ==
  ASSUME NEW c \in Tasks, NEW n \in Tasks, NEW t \in Tasks,
         n # c, t # c, n # t, Ahead(c, n) <= Ahead(c, t)
  PROVE  Ahead(t, c) < Ahead(t, n)
BY TaskCountAssumption DEF Ahead, Tasks

\* Two tasks cannot be met at the same place.
LEMMA PlacesDiffer ==
  ASSUME NEW t \in Tasks, NEW u \in Tasks, NEW v \in Tasks,
         Ahead(t, u) = Ahead(t, v)
  PROVE  u = v
BY TaskCountAssumption DEF Ahead, Tasks

\* The handler is the only code that asks for a switch.
LEMMA PendingSwitchStays ==
  ASSUME Inv, [Next]_vars, pendsv, pendsv'
  PROVE  UNCHANGED <<status, CURRENT_TASK, next_task>>
<1>1. started /\ TypeOK /\ is_systick_trigger_by_int
  BY DEF Inv, BeforeStart, SwitchPending
<1>2. ASSUME NEW u \in Tasks, EnableInterrupts(u)
      PROVE  UNCHANGED <<status, CURRENT_TASK, next_task>>
  BY <1>2 DEF EnableInterrupts, table, pointers
<1>3. ASSUME NEW u \in Tasks, UserStep(u)
      PROVE  FALSE
  <2>1. OnCpu(u) /\ pc[u] \notin MaskedPoints
    BY <1>3 DEF UserStep, ShellEnter, ExitTask, Schedule, Delay, EnterCritical,
                MaskedPoints
  <2> QED
    BY <2>1, Unmasked
<1>4. ASSUME NEW u \in Tasks, CallHandler(u) \/ LeaveCritical(u)
      PROVE  FALSE
  BY <1>1, <1>4
  DEF CallHandler, LeaveCritical, OnCpu, Inv, FlagFollowsHandler, SwitchPending
<1>5. CASE RaiseTick \/ UNCHANGED vars
  BY <1>5 DEF RaiseTick, vars, table, pointers
<1> QED
  BY <1>1, <1>2, <1>3, <1>4, <1>5
  DEF Next, Exceptions, KernelStep, CreateTask, Start, TakeSysTick, TakePendSV

\* What is known of the first runnable task when a switch is asked for.
LEMMA NextIsFirstStep ==
  ASSUME Inv, NextIsFirst, [Next]_vars
  PROVE  NextIsFirst'
<1> SUFFICES ASSUME pendsv', NEW v \in Tasks,
                    status'[v] \in Runnable, v # CURRENT_TASK'
             PROVE  Ahead(CURRENT_TASK', next_task') <= Ahead(CURRENT_TASK', v)
  BY DEF NextIsFirst, Ahead
<1>1. CASE pendsv
  BY <1>1, PendingSwitchStays DEF NextIsFirst
<1>2. ASSUME ~pendsv, started,
             NEW contexts \in [Tasks -> Points], SysTickHandler(contexts)
      PROVE  Ahead(CURRENT_TASK', next_task') <= Ahead(CURRENT_TASK', v)
  <2>1. /\ CURRENT_TASK' = CURRENT_TASK /\ CURRENT_TASK \in Tasks
        /\ CURRENT_TASK_ID = CURRENT_TASK /\ TypeOK
    BY <1>2 DEF SysTickHandler, Switches, Inv, PointersAgree
  <2>2. next_task' = FindNext(CURRENT_TASK, Ticked)
    BY <1>2, <2>1, HandlerSwitch DEF SysTickHandler, Switches
  <2>3. Ticked[v] \in Runnable
    BY <1>2, <2>1, HandlerTable DEF Runnable
  <2>4. v \in Candidates(CURRENT_TASK, Ticked)
    BY <2>3 DEF Candidates
  <2> QED
    BY <2>1, <2>2, <2>4, FindNextIsFirst
<1>3. CASE ~pendsv /\ TakeSysTick
  BY <1>2, <1>3 DEF TakeSysTick, Inv, TypeOK
<1>4. ASSUME ~pendsv, NEW u \in Tasks, CallHandler(u)
      PROVE  Ahead(CURRENT_TASK', next_task') <= Ahead(CURRENT_TASK', v)
  <2>1. [pc EXCEPT ![u] = "enable"] \in [Tasks -> Points]
    BY DEF Inv, TypeOK, Points, MaskedPoints
  <2> QED
    BY <1>2, <1>4, <2>1 DEF CallHandler, OnCpu
<1>5. ASSUME ~pendsv, ~TakeSysTick, \A u \in Tasks : ~CallHandler(u)
      PROVE  FALSE
  BY <1>5
  DEF Next, Exceptions, KernelStep, UserStep, CreateTask, Start, RaiseTick,
      TakePendSV, EnableInterrupts, LeaveCritical, ShellEnter, ExitTask,
      Schedule, Delay, EnterCritical, vars, core
<1> QED
  BY <1>1, <1>3, <1>4, <1>5

\* A switch goes by no runnable task, so the task it goes to has not been
\* served since any of the others last was.
LEMMA SwitchServesNext ==
  ASSUME Inv, NextIsFirst, Turns, HistoryTypeOK, pendsv,
         NEW t \in Tasks, status[t] \in Runnable, t # CURRENT_TASK, t # next_task
  PROVE  /\ Ahead(t, CURRENT_TASK) < Ahead(t, next_task)
         /\ next_task \notin since[t]
<1>1. /\ started /\ CURRENT_TASK \in Tasks /\ next_task \in Tasks
      /\ next_task # CURRENT_TASK
  BY DEF Inv, BeforeStart, PointersAgree, SwitchPending
<1>2. Ahead(t, CURRENT_TASK) < Ahead(t, next_task)
  BY <1>1, AroundTheCircle DEF NextIsFirst
<1>3. Ahead(t, CURRENT_TASK) \in Nat /\ Ahead(t, next_task) \in Nat
  BY <1>1, AheadRange, TaskCountAssumption
<1> QED
  BY <1>1, <1>2, <1>3 DEF Turns

\* The steps that move the core from one task to another.
LEMMA CurrentChanges ==
  ASSUME Inv, [Next]_vars, ~TakePendSV, ~Start
  PROVE  UNCHANGED <<CURRENT_TASK, started>> /\ (pendsv => pendsv')
<1>1. ASSUME NEW contexts, SysTickHandler(contexts)
      PROVE  UNCHANGED <<CURRENT_TASK, started>> /\ (pendsv => pendsv')
  BY <1>1 DEF SysTickHandler, Switches
<1>2. CASE CreateTask \/ RaiseTick \/ UNCHANGED vars
  BY <1>2 DEF CreateTask, RaiseTick, vars, core, pointers
<1>3. CASE TakeSysTick
  BY <1>1, <1>3 DEF TakeSysTick
<1>4. ASSUME NEW u \in Tasks, KernelStep(u)
      PROVE  UNCHANGED <<CURRENT_TASK, started>> /\ (pendsv => pendsv')
  BY <1>1, <1>4
  DEF KernelStep, CallHandler, EnableInterrupts, LeaveCritical, pointers
<1>5. ASSUME NEW u \in Tasks, UserStep(u)
      PROVE  UNCHANGED <<CURRENT_TASK, started>> /\ (pendsv => pendsv')
  BY <1>5
  DEF UserStep, ShellEnter, ExitTask, Schedule, Delay, EnterCritical, core,
      pointers
<1> QED
  BY <1>2, <1>3, <1>4, <1>5 DEF Next, Exceptions

\* Every step keeps the tasks served since a task's turn behind the current one.
LEMMA TurnsStep ==
  ASSUME Inv, NextIsFirst, Turns, HistoryTypeOK, [Next]_vars, Observe
  PROVE  Turns' /\ since' \in [Tasks -> SUBSET Tasks]
<1>1. since' \in [Tasks -> SUBSET Tasks]
  BY DEF Observe, HistoryTypeOK
<1> SUFFICES ASSUME NEW t \in Tasks, started', status'[t] \in Runnable,
                    t # CURRENT_TASK', NEW u \in since'[t]
             PROVE  Ahead(t, u) <= Ahead(t, CURRENT_TASK')
  BY <1>1 DEF Turns, Observe, Ahead
<1>2. u \in since[t] \/ SwitchTo(u)
  BY DEF Observe
<1>3. CASE TakePendSV
  <2>1. /\ started /\ pendsv /\ next_task \in Tasks /\ CURRENT_TASK \in Tasks
        /\ CURRENT_TASK' = next_task /\ next_task # CURRENT_TASK
        /\ status' = [status EXCEPT ![next_task] = "RUNNING"] /\ TypeOK
    BY <1>3 DEF TakePendSV, Inv, SwitchPending, PointersAgree
  <2>2. status[t] \in Runnable /\ t # next_task
    BY <2>1 DEF TypeOK
  <2>3. u \in Tasks
    BY <1>1
  <2>4. /\ Ahead(t, u) \in Nat /\ Ahead(t, next_task) \in Nat
        /\ Ahead(t, CURRENT_TASK) \in Nat
    BY <2>1, <2>3, AheadRange, TaskCountAssumption
  <2>5. CASE u = next_task
    BY <2>1, <2>4, <2>5
  <2>6. CASE u # next_task
    <3>1. u \in since[t] /\ t # CURRENT_TASK
      BY <1>2, <2>1, <2>6 DEF SwitchTo, Turns
    <3>2. Ahead(t, u) <= Ahead(t, CURRENT_TASK)
      BY <2>1, <2>2, <3>1 DEF Turns
    <3>3. Ahead(t, CURRENT_TASK) < Ahead(t, next_task)
      BY <2>1, <2>2, <3>1, SwitchServesNext
    <3> QED
      BY <2>1, <2>4, <3>2, <3>3
  <2> QED
    BY <2>5, <2>6
<1>4. CASE Start
  <2>1. since[t] = {} /\ ~pendsv
    BY <1>4 DEF Start, Turns, Inv, BeforeStart
  <2> QED
    BY <1>2, <2>1 DEF SwitchTo
<1>5. CASE ~TakePendSV /\ ~Start
  <2>1. UNCHANGED <<CURRENT_TASK, started>> /\ (pendsv => pendsv')
    BY <1>5, CurrentChanges
  <2>2. u \in since[t]
    BY <1>2, <2>1 DEF SwitchTo
  <2> QED
    BY <2>1, <2>2 DEF Turns
<1> QED
  BY <1>3, <1>4, <1>5

\* In every step the task switched to has not been served since the turn of one that waits.
LEMMA BoundedBypassOfStep ==
  ASSUME Inv, NextIsFirst, Turns, HistoryTypeOK, [Next]_vars
  PROVE  NoTaskServedTwice
<1> SUFFICES ASSUME NEW t \in Tasks, NEW u \in Tasks, started,
                    status[t] \in Runnable, CURRENT_TASK # t, SwitchTo(u)
             PROVE  u \notin since[t]
  BY DEF NoTaskServedTwice
<1>1. ~pendsv' /\ pendsv /\ CURRENT_TASK' = u
  BY DEF SwitchTo
<1>2. TakePendSV
  <2>1. ~Start
    BY <1>1 DEF Start, Inv, BeforeStart
  <2> QED
    BY <1>1, <2>1, CurrentChanges
<1>3. u = next_task /\ next_task \in Tasks /\ CURRENT_TASK \in Tasks
      /\ next_task # CURRENT_TASK
  BY <1>1, <1>2 DEF TakePendSV, Inv, SwitchPending, PointersAgree
<1>4. CASE t # u
  BY <1>1, <1>3, <1>4, SwitchServesNext
<1>5. CASE t = u
  <2>1. Ahead(t, CURRENT_TASK) < Ahead(t, t)
    BY <1>3, <1>5, AheadRange, TaskCountAssumption DEF Tasks
  <2>2. Ahead(t, CURRENT_TASK) \in Nat /\ Ahead(t, t) \in Nat
    BY <1>3, AheadRange, TaskCountAssumption
  <2> QED
    BY <1>5, <2>1, <2>2 DEF Turns
<1> QED
  BY <1>4, <1>5
-----------------------------------------------------------------------------
\* Nothing has been asked for or served at first.
LEMMA HistoryInit == HInit => HInv
<1> SUFFICES ASSUME HInit PROVE HInv
  OBVIOUS
<1>1. Inv
  BY InitInv DEF HInit
<1>2. HistoryTypeOK
  BY <1>1, DelayAssumption DEF HInit, HistoryTypeOK, Inv
<1> QED
  BY <1>1, <1>2
  DEF HInit, Init, HInv, Timing, NextIsFirst, Turns, Tasks, Idle

\* Every observed step keeps the invariant.
LEMMA HistoryNext ==
  ASSUME MinTasks # 0
  PROVE  HInv /\ [HNext]_hvars => HInv'
<1> SUFFICES ASSUME HInv, [HNext]_hvars PROVE HInv'
  OBVIOUS
<1>1. CASE HNext
  <2>1. [Next]_vars /\ Observe
    BY <1>1 DEF HNext
  <2>2. Inv'
    BY <2>1, NextInv DEF HInv
  <2>3. Timing' /\ NextIsFirst' /\ Turns'
    BY <2>1, TimingStep, NextIsFirstStep, TurnsStep DEF HInv
  <2>4. HistoryTypeOK'
    BY <2>1, <2>2, TimingStep, TurnsStep DEF HInv, HistoryTypeOK, Inv
  <2> QED
    BY <2>2, <2>3, <2>4 DEF HInv
<1>2. CASE UNCHANGED hvars
  <2>1. UNCHANGED vars /\ UNCHANGED <<asked, elapsed, since>>
    BY <1>2 DEF hvars, history
  <2>2. Inv'
    BY <2>1, StutterInv DEF HInv
  <2> QED
    BY <2>1, <2>2
    DEF HInv, HistoryTypeOK, Timing, NextIsFirst, Turns, vars, table, pointers,
        core, Inv, Ahead
<1> QED
  BY <1>1, <1>2

\* The countdowns, the ticks taken and the turns served agree in every state.
THEOREM HistoryInvariance ==
  ASSUME MinTasks # 0
  PROVE  HSpec => []HInv
BY HistoryInit, HistoryNext, PTL DEF HSpec

\* A delay ends with the tick it asked for, neither sooner nor later.
THEOREM DelaysEndOnTime ==
  ASSUME MinTasks # 0
  PROVE  HSpec => WakesOnTime
<1>1. HInv /\ [HNext]_hvars => [WakesOnTimeStep]_hvars
  BY WakesOnTimeOfStep DEF HInv, HNext
<1> QED
  BY <1>1, HistoryInvariance, PTL DEF HSpec, WakesOnTime

\* No task is served twice while another one waits for its turn.
THEOREM TurnsAreBounded ==
  ASSUME MinTasks # 0
  PROVE  HSpec => BoundedBypass
<1>1. HInv /\ [HNext]_hvars => [NoTaskServedTwice]_hvars
  BY BoundedBypassOfStep DEF HInv, HNext
<1> QED
  BY <1>1, HistoryInvariance, PTL DEF HSpec, BoundedBypass
-----------------------------------------------------------------------------
(***************************************************************************)
(* Sleeps in milliseconds.                                                 *)
(***************************************************************************)

\* Whole ticks of a sleep leave out less than one tick of it, and are no more
\* than it unless it is shorter than one.
LEMMA WholeTicks ==
  ASSUME NEW ms \in 0 .. MaxSleep
  PROVE  /\ TicksOf(ms) \in 1 .. MaxDelay
         /\ ms < TicksOf(ms) * TASK_SWITCH_INTERVAL_MS + TASK_SWITCH_INTERVAL_MS
         /\ \/ TicksOf(ms) * TASK_SWITCH_INTERVAL_MS <= ms
            \/ TicksOf(ms) = 1
<1> DEFINE I == TASK_SWITCH_INTERVAL_MS
<1>1. I \in Nat \ {0} /\ ms \in Nat /\ TicksOf(ms) \in 1 .. MaxDelay
  BY IntervalAssumption, SleepAssumption
<1>2. /\ ms < (ms \div I + 1) * I /\ (ms \div I + 1) * I = (ms \div I) * I + I
      /\ (ms \div I) * I <= ms
  BY <1>1
<1>3. ms < I => ms < 1 * I + I
  BY <1>1
<1> QED
  BY <1>1, <1>2, <1>3 DEF TicksOf

\* The clock and the tasks take only steps of the kernel.
LEMMA SleepStepsAreKernelSteps ==
  ASSUME [TNext]_tvars
  PROVE  [Next]_vars
<1>1. ASSUME NEW t \in Tasks, NEW ms \in 0 .. MaxSleep, MSleep(t, ms)
      PROVE  Next
  <2>1. TicksOf(ms) \in 0 .. MaxDelay
    BY WholeTicks, DelayAssumption
  <2> QED
    BY <1>1, <2>1 DEF MSleep, Next, UserStep
<1>2. CASE Millisecond
  BY <1>2 DEF Millisecond, Next, Exceptions
<1>3. CASE TimelessStep
  BY <1>3 DEF TimelessStep, Next, Exceptions, UserStep
<1> QED
  BY <1>1, <1>2, <1>3 DEF TNext, tvars

\* Nobody sleeps at first.
LEMMA SleepInit == TInit => TInv
<1> SUFFICES ASSUME TInit PROVE TInv
  OBVIOUS
<1>1. Inv
  BY InitInv DEF TInit
<1>2. TTypeOK
  BY <1>1, IntervalAssumption, SleepAssumption DEF TInit, TTypeOK, Inv
<1>3. Slept
  BY DEF TInit, Init, Slept
<1> QED
  BY <1>1, <1>2, <1>3 DEF TInv

\* A millisecond is one more of every sleep, and the tick it may bring has it.
LEMMA MillisecondStep ==
  ASSUME TInv, Millisecond
  PROVE  TTypeOK' /\ Slept'
<1> DEFINE I == TASK_SWITCH_INTERVAL_MS
<1>1. /\ I \in Nat \ {0} /\ MaxSleep \in Nat /\ phase \in 0 .. I - 1
      /\ wanted \in [Tasks -> 0 .. MaxSleep]
      /\ slept \in [Tasks -> Nat] /\ TypeOK
  BY IntervalAssumption, SleepAssumption DEF TInv, TTypeOK
<1>2. phase' = IF phase = I - 1 THEN 0 ELSE phase + 1
  BY <1>1 DEF Millisecond
<1>3. /\ UNCHANGED <<status, block_ticks, wanted>>
      /\ phase' = 0 => ~systick /\ systick' = TRUE
      /\ phase' # 0 => systick' = systick
  BY DEF Millisecond, RaiseTick, vars, core, table
<1>4. \A t \in Tasks :
        slept'[t] = IF Awake(t) THEN slept[t] ELSE slept[t] + 1
  BY DEF Millisecond
<1>5. TTypeOK'
  <2>1. TypeOK'
    BY <1>1 DEF Millisecond, RaiseTick, TypeOK, vars, core, table, pointers
  <2>2. slept' \in [Tasks -> Nat]
    <3>1. \A t \in Tasks : slept'[t] \in Nat
      BY <1>1, <1>4
    <3> QED
      BY <3>1 DEF Millisecond
  <2> QED
    BY <1>1, <1>2, <1>3, <2>1, <2>2 DEF TTypeOK
<1>6. Slept'
  <2> SUFFICES ASSUME NEW t \in Tasks, status'[t] = "WAITING"
               PROVE  /\ block_ticks'[t] > 0
                      /\ slept'[t] <= TicksPassed(t)' * I + phase'
                      /\ slept'[t] + I > TicksPassed(t)' * I + phase'
    BY DEF Slept
  <2>1. /\ block_ticks[t] > 0
        /\ slept[t] <= TicksPassed(t) * I + phase
        /\ slept[t] + I > TicksPassed(t) * I + phase
    BY <1>3 DEF TInv, Slept
  <2>2. slept'[t] = slept[t] + 1
    BY <1>3, <1>4 DEF Awake
  <2>3. TicksPassed(t) \in Int /\ slept[t] \in Nat
    <3>1. TicksOf(wanted[t]) \in Int /\ block_ticks[t] \in Int
      BY <1>1, WholeTicks, DelayAssumption DEF TypeOK
    <3> QED
      BY <1>1, <3>1 DEF TicksPassed
  <2>4. CASE phase = I - 1
    <3>1. TicksPassed(t)' = TicksPassed(t) + 1
      <4>1. TicksOf(wanted[t]) \in Int /\ block_ticks[t] \in Int
        BY <1>1, WholeTicks, DelayAssumption DEF TypeOK
      <4> QED
        BY <1>1, <1>2, <1>3, <2>4, <4>1 DEF TicksPassed
    <3>2. (TicksPassed(t) + 1) * I = TicksPassed(t) * I + I
      BY <1>1, <2>3
    <3> HIDE DEF TicksPassed
    <3> QED
      BY <1>1, <1>2, <1>3, <2>1, <2>2, <2>3, <2>4, <3>1, <3>2
  <2>5. CASE phase # I - 1
    <3>1. TicksPassed(t)' = TicksPassed(t) /\ phase' = phase + 1
      BY <1>1, <1>2, <1>3, <2>5 DEF TicksPassed
    <3>2. TicksPassed(t) * I \in Int
      BY <1>1, <2>3
    <3> QED
      BY <1>1, <1>3, <2>1, <2>2, <2>3, <3>1, <3>2
  <2> QED
    BY <2>4, <2>5
<1> QED
  BY <1>5, <1>6

\* A sleep begins with all its ticks to come.
LEMMA MSleepStep ==
  ASSUME TInv, Inv', NEW t \in Tasks, NEW ms \in 0 .. MaxSleep, MSleep(t, ms)
  PROVE  TTypeOK' /\ Slept'
<1> DEFINE I == TASK_SWITCH_INTERVAL_MS
<1>1. /\ I \in Nat \ {0} /\ MaxSleep \in Nat /\ phase \in 0 .. I - 1
      /\ wanted \in [Tasks -> 0 .. MaxSleep]
      /\ slept \in [Tasks -> Nat] /\ TypeOK
  BY IntervalAssumption, SleepAssumption DEF TInv, TTypeOK
<1>2. /\ wanted' = [wanted EXCEPT ![t] = ms] /\ slept' = [slept EXCEPT ![t] = 0]
      /\ phase' = phase /\ Delay(t, TicksOf(ms))
  BY DEF MSleep
<1>3. /\ status' = [status EXCEPT ![t] = "WAITING"]
      /\ block_ticks' = [block_ticks EXCEPT ![t] = TicksOf(ms)]
      /\ systick' = systick /\ OnCpu(t) /\ pc[t] = "user"
  BY <1>2 DEF Delay
<1>4. ~systick
  BY <1>3, Unmasked DEF TInv, MaskedPoints, OnCpu
<1>5. TicksOf(ms) \in 1 .. MaxDelay
  BY WholeTicks
<1>6. TTypeOK'
  BY <1>1, <1>2 DEF Inv, TTypeOK
<1>7. Slept'
  <2> SUFFICES ASSUME NEW u \in Tasks, status'[u] = "WAITING"
               PROVE  /\ block_ticks'[u] > 0
                      /\ slept'[u] <= TicksPassed(u)' * I + phase'
                      /\ slept'[u] + I > TicksPassed(u)' * I + phase'
    BY DEF Slept
  <2>1. CASE u = t
    <3>1. /\ block_ticks'[u] = TicksOf(ms) /\ wanted'[u] = ms /\ slept'[u] = 0
      BY <1>1, <1>2, <1>3, <2>1 DEF TypeOK
    <3>2. TicksPassed(u)' = 0
      BY <1>3, <1>4, <1>5, <3>1, DelayAssumption DEF TicksPassed
    <3> QED
      BY <1>1, <1>2, <1>5, <3>1, <3>2, DelayAssumption
  <2>2. CASE u # t
    <3>1. /\ block_ticks'[u] = block_ticks[u] /\ wanted'[u] = wanted[u]
          /\ slept'[u] = slept[u] /\ status'[u] = status[u]
      BY <1>1, <1>2, <1>3, <2>2 DEF TypeOK
    <3> QED
      BY <1>2, <1>3, <3>1 DEF TInv, Slept, TicksPassed
  <2> QED
    BY <2>1, <2>2
<1> QED
  BY <1>6, <1>7

\* A step that takes no time and puts nobody to sleep.
LEMMA TimelessStepKeeps ==
  ASSUME TInv, Inv', [Next]_vars, UNCHANGED sleepvars,
         \A t \in Tasks : ~FallsAsleep(t), systick' => systick
  PROVE  TTypeOK' /\ Slept'
<1> DEFINE I == TASK_SWITCH_INTERVAL_MS
<1>1. TTypeOK'
  BY DEF TInv, Inv, TTypeOK, sleepvars
<1>2. UNCHANGED <<phase, wanted, slept>>
  BY DEF sleepvars
<1>3. Slept'
  <2> SUFFICES ASSUME NEW t \in Tasks, status'[t] = "WAITING"
               PROVE  /\ block_ticks'[t] > 0
                      /\ slept'[t] <= TicksPassed(t)' * I + phase'
                      /\ slept'[t] + I > TicksPassed(t)' * I + phase'
    BY DEF Slept
  <2>1. /\ status[t] = "WAITING" /\ block_ticks[t] > 0
        /\ slept[t] <= TicksPassed(t) * I + phase
        /\ slept[t] + I > TicksPassed(t) * I + phase
    BY DEF FallsAsleep, TInv, Slept
  <2>2. CASE TickTaken
    <3>1. block_ticks[t] > 1 /\ block_ticks'[t] = block_ticks[t] - 1
      BY <2>1, <2>2, TickIsSysTick, TickCounts DEF TInv
    <3>2. TicksPassed(t)' = TicksPassed(t)
      <4>1. TicksOf(wanted[t]) \in Int /\ block_ticks[t] \in Int
        BY WholeTicks, DelayAssumption, SleepAssumption DEF TInv, TTypeOK, TypeOK
      <4> QED
        BY <1>2, <2>2, <3>1, <4>1 DEF TicksPassed, TickTaken
    <3>3. block_ticks[t] \in Int
      BY DEF TInv, TTypeOK, TypeOK
    <3> QED
      BY <1>2, <2>1, <3>1, <3>2, <3>3
  <2>3. CASE ~TickTaken
    <3>1. block_ticks'[t] = block_ticks[t] /\ (systick' <=> systick)
      BY <2>1, <2>3, SleepsBetweenTicks DEF TInv, TickTaken
    <3> QED
      BY <1>2, <2>1, <3>1 DEF TicksPassed
  <2> QED
    BY <2>2, <2>3
<1> QED
  BY <1>1, <1>3

\* Which steps take no time and put nobody to sleep.
LEMMA TimelessStepIsOne ==
  ASSUME Inv, TimelessStep \/ UNCHANGED vars
  PROVE  (\A t \in Tasks : ~FallsAsleep(t)) /\ (systick' => systick)
<1>1. TypeOK
  BY DEF Inv
<1>2. ASSUME NEW t \in Tasks, FallsAsleep(t)
      PROVE  FALSE
  <2>1. status[t] # "WAITING" /\ status'[t] = "WAITING"
    BY <1>2 DEF FallsAsleep
  <2>2. ASSUME NEW contexts, SysTickHandler(contexts)
        PROVE  FALSE
    BY <1>1, <2>1, <2>2, HandlerTable
  <2>3. CASE CreateTask \/ Start \/ TakePendSV \/ UNCHANGED vars
    BY <1>1, <2>1, <2>3
    DEF CreateTask, Start, Reap, TakePendSV, vars, table, TypeOK
  <2>4. CASE TakeSysTick
    BY <2>2, <2>4 DEF TakeSysTick
  <2>5. ASSUME NEW u \in Tasks, KernelStep(u)
        PROVE  FALSE
    BY <2>1, <2>2, <2>5
    DEF KernelStep, CallHandler, EnableInterrupts, LeaveCritical, table
  <2>6. ASSUME NEW u \in Tasks,
               ShellEnter(u) \/ ExitTask(u) \/ Schedule(u) \/ EnterCritical(u)
        PROVE  FALSE
    BY <1>1, <2>1, <2>6
    DEF ShellEnter, ExitTask, Schedule, EnterCritical, table, TypeOK
  <2> QED
    BY <2>3, <2>4, <2>5, <2>6 DEF TimelessStep
<1>3. systick' => systick
  BY DEF TimelessStep, CreateTask, Start, TakeSysTick, TakePendSV, KernelStep,
         CallHandler, EnableInterrupts, LeaveCritical, ShellEnter, ExitTask,
         Schedule, EnterCritical, vars, core
<1> QED
  BY <1>2, <1>3

\* Every step of the clock and of the tasks keeps the invariant.
LEMMA SleepNext ==
  ASSUME MinTasks # 0
  PROVE  TInv /\ [TNext]_tvars => TInv'
<1> SUFFICES ASSUME TInv, [TNext]_tvars PROVE TInv'
  OBVIOUS
<1>1. [Next]_vars /\ Inv'
  BY SleepStepsAreKernelSteps, NextInv DEF TInv
<1>2. CASE Millisecond
  BY <1>1, <1>2, MillisecondStep DEF TInv
<1>3. ASSUME NEW t \in Tasks, NEW ms \in 0 .. MaxSleep, MSleep(t, ms)
      PROVE  TInv'
  BY <1>1, <1>3, MSleepStep DEF TInv
<1>4. CASE (TimelessStep /\ UNCHANGED sleepvars) \/ UNCHANGED tvars
  <2>1. (TimelessStep \/ UNCHANGED vars) /\ UNCHANGED sleepvars
    BY <1>4 DEF tvars
  <2>2. (\A t \in Tasks : ~FallsAsleep(t)) /\ (systick' => systick)
    BY <2>1, TimelessStepIsOne DEF TInv
  <2> QED
    BY <1>1, <2>1, <2>2, TimelessStepKeeps DEF TInv
<1> QED
  BY <1>2, <1>3, <1>4 DEF TNext

\* What a sleeping task has been through and what it has to come agree with
\* what it asked for in every state.
THEOREM SleepInvariance ==
  ASSUME MinTasks # 0
  PROVE  TSpec => []TInv
BY SleepInit, SleepNext, PTL DEF TSpec

\* In every step a task that wakes up has slept long enough but for two ticks,
\* and not a tick too long.
LEMMA AlmostEnoughOfStep ==
  ASSUME TInv, [TNext]_tvars
  PROVE  AlmostEnoughStep
<1> DEFINE I == TASK_SWITCH_INTERVAL_MS
<1> SUFFICES ASSUME NEW t \in Tasks, Wakes(t)
             PROVE  /\ slept[t] + 2 * I > wanted[t]
                    /\ slept[t] < wanted[t] + I \/ slept[t] < 2 * I
  BY DEF AlmostEnoughStep
<1>1. /\ I \in Nat \ {0} /\ MaxSleep \in Nat /\ phase \in 0 .. I - 1
      /\ wanted[t] \in 0 .. MaxSleep /\ slept[t] \in Nat
      /\ block_ticks[t] \in Nat
  BY IntervalAssumption, SleepAssumption, DelayAssumption
  DEF TInv, TTypeOK, TypeOK
<1>2. status[t] = "WAITING" /\ status'[t] # "WAITING" /\ [Next]_vars
  BY SleepStepsAreKernelSteps DEF Wakes
<1>3. TickTaken
  BY <1>2, SleepsBetweenTicks DEF TInv
<1>4. block_ticks[t] = 1 /\ systick
  <2>1. ~(block_ticks[t] > 1)
    BY <1>2, <1>3, TickIsSysTick, TickCounts DEF TInv
  <2> QED
    BY <1>1, <1>2, <1>3, <2>1 DEF TInv, Slept, TickTaken
<1>5. TicksPassed(t) = TicksOf(wanted[t]) /\ TicksOf(wanted[t]) \in Nat
  BY <1>1, <1>4, WholeTicks, DelayAssumption DEF TicksPassed
<1>6. /\ wanted[t] < TicksOf(wanted[t]) * I + I
      /\ TicksOf(wanted[t]) * I <= wanted[t] \/ TicksOf(wanted[t]) * I = I
  BY <1>1, WholeTicks
<1>7. /\ slept[t] + I > TicksOf(wanted[t]) * I + phase
      /\ slept[t] <= TicksOf(wanted[t]) * I + phase
  BY <1>2, <1>5 DEF TInv, Slept
<1>8. TicksOf(wanted[t]) * I \in Nat
  BY <1>1, <1>5
<1> QED
  BY <1>1, <1>6, <1>7, <1>8

\* A sleep is short by less than two ticks and long by less than one.
THEOREM SleepsAlmostEnough ==
  ASSUME MinTasks # 0
  PROVE  TSpec => AlmostEnough
<1>1. TInv /\ [TNext]_tvars => [AlmostEnoughStep]_tvars
  BY AlmostEnoughOfStep
<1> QED
  BY <1>1, SleepInvariance, PTL DEF TSpec, AlmostEnough
-----------------------------------------------------------------------------
(***************************************************************************)
(* The mutex.                                                              *)
(***************************************************************************)

\* The tasks of YosMutex take only steps of the kernel.
LEMMA MutexStepsAreKernelSteps ==
  ASSUME [MutexNext]_allvars
  PROVE  [Next]_vars
BY DEF MutexNext, SystemStep, MutexStep, EnterMutex, TestOwner, OwnerTest, SetOwner,
       LeaveMutex, RetryLock, DeinitOwner, InSection, RescheduleStep, OtherStep,
       Next, KernelStep, UserStep, allvars

\* A mutex that nobody has touched satisfies the invariant.
LEMMA MutexInitInv == MutexInit => MInv
<1> SUFFICES ASSUME MutexInit PROVE MInv
  OBVIOUS
<1>1. Inv
  BY InitInv DEF MutexInit
<1>2. MutexTypeOK
  BY <1>1 DEF Inv, MutexTypeOK, MutexInit, Calls, Stages
<1>3. SectionsMatch /\ OwnerKnown /\ FreeWhenSeen
  BY DEF SectionsMatch, SectionMatches, InFunction, OwnerKnown, FreeWhenSeen,
         MutexInit, Init, Tasks, YMUTEX_OWNER_NONE
<1> QED
  BY <1>1, <1>2, <1>3 DEF MInv

\* Steps of the kernel outside the ymutex functions.
LEMMA OtherStepInv ==
  ASSUME MInv, Inv', UNCHANGED mvars,
         SystemStep \/ \E t \in Tasks : RescheduleStep(t) \/ OtherStep(t)
  PROVE  MInv'
<1>1. MutexTypeOK' /\ OwnerKnown' /\ FreeWhenSeen'
  BY DEF MInv, Inv, MutexTypeOK, OwnerKnown, FreeWhenSeen, mvars
<1>2. UNCHANGED at
  BY DEF mvars
<1>3. ASSUME NEW u \in Tasks
      PROVE  SectionMatches(u)'
  <2> USE DEF SectionMatches, InFunction
  <2>1. SectionMatches(u) /\ TypeOK
    BY DEF MInv, SectionsMatch, MutexTypeOK
  <2>2. CASE CreateTask \/ RaiseTick \/ TakePendSV
    BY <1>2, <2>1, <2>2 DEF CreateTask, RaiseTick, TakePendSV
  <2>3. CASE Start
    <3>1. pc[u] = "none" /\ pc'[u] \in {"none", "boot"}
      BY <2>1, <2>3 DEF Start, MInv, Inv, BeforeStart, TypeOK
    <3> QED
      BY <1>2, <2>1, <3>1
  <2>4. ASSUME NEW contexts \in [Tasks -> Points], SysTickHandler(contexts),
               ~pendsv, started,
               contexts[u] = pc[u] \/ (pc[u] = "handler" /\ contexts[u] = "enable")
        PROVE  SectionMatches(u)'
    <3>1. CASE pc'[u] = contexts[u]
      BY <1>2, <2>1, <2>4, <3>1 DEF SysTickHandler, Switches
    <3>2. CASE pc'[u] # contexts[u]
      <4>1. /\ next_task_id' = u /\ u # CURRENT_TASK
            /\ Ticked[u] = "CREATED" /\ pc'[u] = "shell"
        BY <2>4, <3>2, HandlerSwitch DEF MInv
      <4>2. status[u] = "CREATED"
        BY <2>1, <2>4, <4>1, HandlerTable
      <4>3. pc[u] \in {"none", "boot", "end", "shell"}
        BY <4>1, <4>2 DEF MInv, Inv, Context, ContextOffCpu
      <4> QED
        BY <1>2, <2>1, <4>1, <4>3
    <3> QED
      BY <3>1, <3>2
  <2>5. CASE TakeSysTick
    BY <2>1, <2>4, <2>5 DEF TakeSysTick, TypeOK
  <2>6. ASSUME NEW t \in Tasks, CallHandler(t)
        PROVE  SectionMatches(u)'
    <3> DEFINE contexts == [pc EXCEPT ![t] = "enable"]
    <3>1. /\ contexts \in [Tasks -> Points]
          /\ contexts[u] = pc[u] \/ (pc[u] = "handler" /\ contexts[u] = "enable")
      BY <2>1, <2>6 DEF CallHandler, TypeOK, Points, MaskedPoints
    <3>2. ~pendsv /\ started /\ SysTickHandler(contexts)
      BY <2>6 DEF CallHandler, OnCpu, MInv, Inv, FlagFollowsHandler, SwitchPending
    <3> HIDE DEF contexts
    <3> QED
      BY <2>4, <3>1, <3>2
  <2>7. ASSUME NEW t \in Tasks, EnableInterrupts(t)
        PROVE  SectionMatches(u)'
    BY <1>2, <2>1, <2>7 DEF EnableInterrupts, TypeOK, ReturnPoints
  <2>8. ASSUME NEW t \in Tasks, OtherStep(t)
        PROVE  SectionMatches(u)'
    BY <1>2, <2>1, <2>8
    DEF OtherStep, ShellEnter, ExitTask, Schedule, Delay, BeginReschedule, TypeOK
  <2> QED
    BY <2>2, <2>3, <2>5, <2>6, <2>7, <2>8
    DEF SystemStep, Exceptions, RescheduleStep
<1> QED
  BY <1>1, <1>3 DEF MInv, SectionsMatch
-----------------------------------------------------------------------------
(***************************************************************************)
(* The steps of the mutex. Each is taken by the task on the core; while it *)
(* is masked no other task is in a masked section.                         *)
(***************************************************************************)
LEMMA OneSection ==
  ASSUME MInv, NEW t \in Tasks, NEW u \in Tasks, OnCpu(t), u # t
  PROVE  at[u] \notin {"test", "set", "leave"}
BY DEF MInv, Inv, OnCpu, MaskStaysWithItsTask, MaskedPoints, SectionsMatch,
       SectionMatches

\* A ymutex function begins in a masked section, about to read the owner.
LEMMA EnterMutexInv ==
  ASSUME MInv, Inv', NEW t \in Tasks, EnterMutex(t)
  PROVE  MInv'
<1>1. PICK c \in Callable(t) : call' = [call EXCEPT ![t] = c]
  BY DEF EnterMutex
<1>2. c \in Calls /\ (at[t] = "in" => c = "unlock")
      /\ at[t] \in {"out", "in", "again"}
  BY <1>1 DEF Callable
<1>3. /\ pc[t] = "user" /\ pc' = [pc EXCEPT ![t] = "crit"] /\ UNCHANGED ret
      /\ at' = [at EXCEPT ![t] = "test"] /\ UNCHANGED <<owner, saw>>
      /\ MutexTypeOK /\ pc \in [Tasks -> Points]
  BY DEF EnterMutex, EnterCritical, MInv, MutexTypeOK, TypeOK
<1>4. MutexTypeOK'
  BY <1>1, <1>2, <1>3 DEF Inv, MutexTypeOK, Stages
<1>5. SectionsMatch'
  BY <1>3 DEF MInv, MutexTypeOK, SectionsMatch, SectionMatches, InFunction
<1>6. OwnerKnown' /\ FreeWhenSeen'
  <2>1. owner = t => at[t] = "in"
    BY <1>2 DEF MInv, OwnerKnown
  <2> QED
    BY <1>1, <1>2, <1>3, <2>1 DEF MInv, MutexTypeOK, OwnerKnown, FreeWhenSeen
<1> QED
  BY <1>4, <1>5, <1>6 DEF MInv

\* What the section has read of the owner is true of it.
LEMMA TestOwnerInv ==
  ASSUME MInv, Inv', NEW t \in Tasks, TestOwner(t)
  PROVE  MInv'
<1>1. /\ CURRENT_TASK_ID = t /\ UNCHANGED <<pc, ret>> /\ pc[t] = "crit"
      /\ OnCpu(t) /\ MutexTypeOK
  BY DEF TestOwner, OwnerTest, InSection, vars, OnCpu, MInv, Inv, PointersAgree
<1>2. /\ at[t] = "test" /\ at' = [at EXCEPT ![t] = "set"]
      /\ saw' = [saw EXCEPT ![t] = IF call[t] = "unlock" THEN owner = t
                                   ELSE owner < 0]
      /\ UNCHANGED <<owner, call>>
  BY <1>1 DEF TestOwner, OwnerTest
<1>3. owner < 0 <=> owner = YMUTEX_OWNER_NONE
  BY <1>1, TaskCountAssumption DEF MutexTypeOK, YMUTEX_OWNER_NONE, Tasks
<1>4. MutexTypeOK'
  <2> DEFINE read == IF call[t] = "unlock" THEN owner = t ELSE owner < 0
  <2>1. read \in BOOLEAN
    <3>1. (owner < 0) \in BOOLEAN /\ (owner = t) \in BOOLEAN
      BY <1>3
    <3> QED
      BY <3>1
  <2>2. saw' = [saw EXCEPT ![t] = read]
    BY <1>2
  <2> HIDE DEF read
  <2>3. saw' \in [Tasks -> BOOLEAN]
    BY <1>1, <2>1, <2>2 DEF MutexTypeOK
  <2> QED
    BY <1>1, <1>2, <2>3 DEF Inv, MutexTypeOK, Stages
<1>5. SectionsMatch'
  BY <1>1, <1>2 DEF MInv, MutexTypeOK, SectionsMatch, SectionMatches, InFunction
<1>6. OwnerKnown' /\ FreeWhenSeen'
  BY <1>1, <1>2, <1>3 DEF MInv, MutexTypeOK, OwnerKnown, FreeWhenSeen
<1> QED
  BY <1>4, <1>5, <1>6 DEF MInv

\* The write makes the task the owner of a free mutex, or frees its own.
LEMMA SetOwnerInv ==
  ASSUME MInv, Inv', NEW t \in Tasks, SetOwner(t)
  PROVE  MInv'
<1>1. /\ CURRENT_TASK_ID = t /\ UNCHANGED <<pc, ret>> /\ pc[t] = "crit"
      /\ OnCpu(t) /\ MutexTypeOK
  BY DEF SetOwner, InSection, vars, OnCpu, MInv, Inv, PointersAgree
<1>2. /\ at[t] = "set" /\ at' = [at EXCEPT ![t] = "leave"]
      /\ owner' = IF ~saw[t] THEN owner
                  ELSE IF call[t] = "unlock" THEN YMUTEX_OWNER_NONE ELSE t
      /\ UNCHANGED <<call, saw>>
  BY <1>1 DEF SetOwner
<1>3. YMUTEX_OWNER_NONE \notin Tasks
  BY TaskCountAssumption DEF YMUTEX_OWNER_NONE, Tasks
<1>4. \A u \in Tasks : u # t => at[u] \notin {"test", "set", "leave"}
  BY <1>1, OneSection
<1>5. MutexTypeOK'
  BY <1>1, <1>2 DEF Inv, MutexTypeOK, Stages
<1>6. SectionsMatch'
  BY <1>1, <1>2 DEF MInv, MutexTypeOK, SectionsMatch, SectionMatches, InFunction
<1>7. FreeWhenSeen'
  BY <1>1, <1>2, <1>4 DEF MutexTypeOK, FreeWhenSeen
<1>8. OwnerKnown'
  <2> SUFFICES ASSUME NEW u \in Tasks
               PROVE  owner' = u <=>
                        \/ at'[u] \in {"in", "clear"}
                        \/ at'[u] = "test" /\ call'[u] = "unlock" /\ owner' = u
                        \/ at'[u] = "set" /\ call'[u] = "unlock" /\ saw'[u]
                        \/ at'[u] = "leave" /\ call'[u] # "unlock" /\ saw'[u]
    BY DEF OwnerKnown
  <2>1. owner = u <=> \/ at[u] \in {"in", "clear"}
                      \/ at[u] = "test" /\ call[u] = "unlock" /\ owner = u
                      \/ at[u] = "set" /\ call[u] = "unlock" /\ saw[u]
                      \/ at[u] = "leave" /\ call[u] # "unlock" /\ saw[u]
    BY DEF MInv, OwnerKnown
  <2>2. CASE u = t
    BY <1>1, <1>2, <1>3, <2>1, <2>2 DEF MutexTypeOK
  <2>3. CASE u # t
    <3>1. at'[u] = at[u] /\ at[u] \notin {"test", "set", "leave"}
      BY <1>1, <1>2, <1>4, <2>3 DEF MutexTypeOK
    <3>2. owner = u <=> owner' = u
      <4>1. CASE saw[t] /\ call[t] = "unlock"
        BY <1>2, <1>3, <2>3, <4>1 DEF MInv, OwnerKnown
      <4>2. CASE saw[t] /\ call[t] # "unlock"
        BY <1>2, <1>3, <2>3, <4>2 DEF MInv, FreeWhenSeen
      <4>3. CASE ~saw[t]
        BY <1>2, <4>3
      <4> QED
        BY <4>1, <4>2, <4>3
    <3> QED
      BY <2>1, <3>1, <3>2
  <2> QED
    BY <2>2, <2>3
<1> QED
  BY <1>5, <1>6, <1>7, <1>8 DEF MInv

\* The section ends with the owner telling who is inside.
LEMMA LeaveMutexInv ==
  ASSUME MInv, Inv', NEW t \in Tasks, LeaveMutex(t)
  PROVE  MInv'
<1>1. /\ pc' = [pc EXCEPT ![t] = "user"] /\ UNCHANGED <<ret, owner, call, saw>>
      /\ OnCpu(t) /\ MutexTypeOK /\ at[t] = "leave" /\ pc \in [Tasks -> Points]
      /\ at' = [at EXCEPT ![t] = AfterSection(call[t], saw[t])]
  BY DEF LeaveMutex, LeaveCritical, MInv, MutexTypeOK, TypeOK
<1>2. /\ AfterSection(call[t], saw[t]) \in {"in", "out", "retry", "clear"}
      /\ AfterSection(call[t], saw[t]) \in {"in", "clear"}
           <=> call[t] # "unlock" /\ saw[t]
  BY <1>1 DEF AfterSection, MutexTypeOK, Calls
<1> HIDE DEF AfterSection
<1>3. MutexTypeOK'
  BY <1>1, <1>2 DEF Inv, MutexTypeOK, Stages
<1>4. SectionsMatch'
  BY <1>1, <1>2 DEF MInv, MutexTypeOK, SectionsMatch, SectionMatches, InFunction
<1>5. OwnerKnown' /\ FreeWhenSeen'
  BY <1>1, <1>2 DEF MInv, MutexTypeOK, OwnerKnown, FreeWhenSeen
<1> QED
  BY <1>3, <1>4, <1>5 DEF MInv

\* A task that calls schedule() to try again has not got the mutex.
LEMMA RetryLockInv ==
  ASSUME MInv, Inv', NEW t \in Tasks, RetryLock(t)
  PROVE  MInv'
<1>1. /\ pc[t] = "user" /\ pc' = [pc EXCEPT ![t] = "handler"]
      /\ ret' = [ret EXCEPT ![t] = "user"] /\ at[t] = "retry"
      /\ at' = [at EXCEPT ![t] = "again"] /\ UNCHANGED <<owner, call, saw>>
      /\ MutexTypeOK /\ pc \in [Tasks -> Points] /\ ret \in [Tasks -> ReturnPoints]
  BY DEF RetryLock, Schedule, BeginReschedule, MInv, MutexTypeOK, TypeOK,
         SectionsMatch, SectionMatches, InFunction
<1>2. MutexTypeOK'
  BY <1>1 DEF Inv, MutexTypeOK, Stages
<1>3. SectionsMatch'
  BY <1>1 DEF MInv, MutexTypeOK, SectionsMatch, SectionMatches, InFunction
<1>4. OwnerKnown' /\ FreeWhenSeen'
  BY <1>1 DEF MInv, MutexTypeOK, OwnerKnown, FreeWhenSeen
<1> QED
  BY <1>2, <1>3, <1>4 DEF MInv

\* ymutex_deinit gives up a mutex that the task has.
LEMMA DeinitOwnerInv ==
  ASSUME MInv, Inv', NEW t \in Tasks, DeinitOwner(t)
  PROVE  MInv'
<1>1. /\ UNCHANGED <<pc, ret, call, saw>> /\ OnCpu(t) /\ MutexTypeOK
      /\ pc[t] = "user" /\ at[t] = "clear" /\ owner' = YMUTEX_OWNER_NONE
      /\ at' = [at EXCEPT ![t] = "out"]
  BY DEF DeinitOwner, vars, MInv
<1>2. YMUTEX_OWNER_NONE \notin Tasks
  BY TaskCountAssumption DEF YMUTEX_OWNER_NONE, Tasks
<1>3. owner = t
  BY <1>1 DEF MInv, OwnerKnown
<1>4. \A u \in Tasks : at[u] \notin {"test", "set", "leave"}
  BY <1>1, OneSection
<1>5. MutexTypeOK'
  BY <1>1 DEF Inv, MutexTypeOK, Stages
<1>6. SectionsMatch'
  BY <1>1 DEF MInv, MutexTypeOK, SectionsMatch, SectionMatches, InFunction
<1>7. OwnerKnown' /\ FreeWhenSeen'
  BY <1>1, <1>2, <1>3, <1>4
  DEF MInv, MutexTypeOK, OwnerKnown, FreeWhenSeen
<1> QED
  BY <1>5, <1>6, <1>7 DEF MInv
-----------------------------------------------------------------------------
\* Every step of the mutex and of the kernel keeps the invariant.
LEMMA MutexNextInv ==
  ASSUME MinTasks # 0
  PROVE  MInv /\ [MutexNext]_allvars => MInv'
<1> SUFFICES ASSUME MInv, [MutexNext]_allvars PROVE MInv'
  OBVIOUS
<1>1. Inv'
  BY MutexStepsAreKernelSteps, NextInv DEF MInv
<1>2. CASE SystemStep \/ \E t \in Tasks : RescheduleStep(t) \/ OtherStep(t)
  BY <1>1, <1>2, OtherStepInv DEF SystemStep, RescheduleStep, OtherStep
<1>3. ASSUME NEW t \in Tasks, MutexStep(t)
      PROVE  MInv'
  BY <1>1, <1>3, EnterMutexInv, TestOwnerInv, SetOwnerInv, LeaveMutexInv,
     RetryLockInv, DeinitOwnerInv
  DEF MutexStep
<1>4. CASE UNCHANGED allvars
  <2>1. UNCHANGED <<pc, ret>> /\ UNCHANGED mvars
    BY <1>4 DEF allvars, vars
  <2> QED
    BY <1>1, <2>1
    DEF MInv, Inv, MutexTypeOK, SectionsMatch, SectionMatches, InFunction,
        OwnerKnown, FreeWhenSeen, mvars
<1> QED
  BY <1>2, <1>3, <1>4 DEF MutexNext

\* The mutex and the kernel under it keep their invariant in every state.
THEOREM MutexInvariance ==
  ASSUME MinTasks # 0
  PROVE  MSpec => []MInv
BY MutexInitInv, MutexNextInv, PTL DEF MSpec

\* What the mutex and its callers keep always has its type.
THEOREM MutexTypeCorrect ==
  ASSUME MinTasks # 0
  PROVE  MSpec => []MutexTypeOK
<1>1. MInv => MutexTypeOK
  BY DEF MInv
<1> QED
  BY <1>1, MutexInvariance, PTL

\* The owner field names the task inside, and nobody when nobody is.
THEOREM OwnerTellsWhoIsInside ==
  ASSUME MinTasks # 0
  PROVE  MSpec => []OwnerIsInside
<1>1. MInv => OwnerIsInside
  <2> SUFFICES ASSUME MInv, ~primask, Inside = {} PROVE owner = YMUTEX_OWNER_NONE
    BY DEF OwnerIsInside, Inside, MInv, OwnerKnown
  <2>1. \A t \in Tasks : at[t] \notin {"test", "set", "leave"}
    BY DEF MInv, Inv, MaskStaysWithItsTask, MaskedPoints, SectionsMatch,
           SectionMatches
  <2> QED
    BY <2>1 DEF Inside, MInv, OwnerKnown, MutexTypeOK
<1> QED
  BY <1>1, MutexInvariance, PTL

\* At most one task is inside, and nobody is let in while another one is.
THEOREM MutualExclusion ==
  ASSUME MinTasks # 0
  PROVE  MSpec => ImplementsMutex
<1>1. MutexInit => AbstractMutex!MInit
  BY DEF MutexInit, AbstractMutex!MInit, Inside
<1>2. MInv /\ [MutexNext]_allvars =>
        [\E t \in Tasks : AbstractMutex!Acquire(t) \/ AbstractMutex!Release(t)]_Inside
  <2> SUFFICES ASSUME MInv, [MutexNext]_allvars, Inside' # Inside
               PROVE  \E t \in Tasks : \/ AbstractMutex!Acquire(t)
                                       \/ AbstractMutex!Release(t)
    OBVIOUS
  <2>1. at' # at
    BY DEF Inside
  <2>2. PICK t \in Tasks : MutexStep(t)
    BY <2>1 DEF MutexNext, SystemStep, RescheduleStep, OtherStep, allvars, mvars
  <2>3. at \in [Tasks -> Stages] /\ call[t] \in Calls /\ saw[t] \in BOOLEAN
    BY DEF MInv, MutexTypeOK
  <2>4. \A u \in Tasks : u # t => at'[u] = at[u]
    BY <2>2, <2>3
    DEF MutexStep, EnterMutex, TestOwner, OwnerTest, SetOwner, LeaveMutex, RetryLock,
        DeinitOwner
  <2>5. \A u, v \in Inside : u = v
    BY DEF Inside, MInv, OwnerKnown
  <2>6. CASE t \in Inside
    <3>1. t \notin Inside' /\ Inside = {t}
      BY <2>4, <2>5, <2>6 DEF Inside
    <3> QED
      BY <2>4, <3>1 DEF Inside, AbstractMutex!Release
  <2>7. CASE t \notin Inside
    <3>1. t \in Inside'
      BY <2>4, <2>7 DEF Inside
    <3>2. LeaveMutex(t)
      BY <2>2, <2>3, <3>1
      DEF MutexStep, EnterMutex, TestOwner, OwnerTest, SetOwner, RetryLock, DeinitOwner,
          Inside
    <3>3. call[t] # "unlock" /\ saw[t] /\ at[t] = "leave"
      BY <2>3, <3>1, <3>2 DEF LeaveMutex, AfterSection, Inside
    <3>4. owner = t
      BY <3>3 DEF MInv, OwnerKnown
    <3>5. Inside = {}
      BY <2>7, <3>4 DEF Inside, MInv, OwnerKnown
    <3> QED
      BY <2>4, <3>1, <3>5 DEF Inside, AbstractMutex!Acquire
  <2> QED
    BY <2>6, <2>7
<1> QED
  BY <1>1, <1>2, MutexInvariance, PTL
  DEF MSpec, ImplementsMutex, AbstractMutex!MutexSpec
=============================================================================
