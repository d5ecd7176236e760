----------------------------- MODULE YosHistory -----------------------------
(***************************************************************************)
(* The kernel, observed. Three history variables record what a task asked  *)
(* for and what it has got since; they read the kernel's steps and never   *)
(* constrain them. The properties about time and about turns are stated on *)
(* them.                                                                   *)
(***************************************************************************)
EXTENDS YosKernel

VARIABLES
  asked,     \* the ticks a waiting task asked for
  elapsed,   \* the SysTick exceptions taken since
  since      \* the tasks switched to since a runnable task last had the core

history == <<asked, elapsed, since>>
hvars   == <<vars, history>>

HInit ==
  /\ Init
  /\ asked = [t \in Tasks |-> 0]
  /\ elapsed = [t \in Tasks |-> 0]
  /\ since = [t \in Tasks |-> {}]

FallsAsleep(t) == status[t] # "WAITING" /\ status'[t] = "WAITING"
WakesUp(t)     == status[t] = "WAITING" /\ status'[t] # "WAITING"
TickTaken      == systick /\ ~systick'
SwitchTo(t)    == pendsv /\ ~pendsv' /\ CURRENT_TASK' = t

\* The counters of a task that is not waiting are of no interest.
Observe ==
  /\ asked' = [t \in Tasks |->
       IF FallsAsleep(t) THEN block_ticks'[t]
       ELSE IF status'[t] = "WAITING" THEN asked[t] ELSE 0]
  /\ elapsed' = [t \in Tasks |->
       IF status[t] = "WAITING" /\ status'[t] = "WAITING" /\ TickTaken
       THEN elapsed[t] + 1
       ELSE IF status[t] = "WAITING" /\ status'[t] = "WAITING"
       THEN elapsed[t] ELSE 0]
  /\ since' = [t \in Tasks |->
       IF started' /\ status'[t] \in Runnable /\ CURRENT_TASK' # t
       THEN since[t] \cup {u \in Tasks : SwitchTo(u)}
       ELSE {}]

HNext == Next /\ Observe
HSpec == HInit /\ [][HNext]_hvars

\* With the fairness of the kernel, which the observer does not disturb.
FairHSpec == HSpec /\ Fairness

HistoryTypeOK ==
  /\ TypeOK
  /\ asked \in [Tasks -> 0 .. MaxDelay]
  /\ elapsed \in [Tasks -> 0 .. MaxDelay]
  /\ since \in [Tasks -> SUBSET Tasks]

(***************************************************************************)
(* A delay of n ticks ends with the n-th tick after it, and a delay of 0   *)
(* with the first: a schedule() of any task in between is not counted as a *)
(* tick, no tick is dropped and none is counted twice, although the same   *)
(* handler serves both and only is_systick_trigger_by_int tells them apart.*)
(***************************************************************************)
WakesOnTimeStep ==
  \A t \in Tasks :
    WakesUp(t) =>
      /\ TickTaken
      /\ status'[t] = "RUNNING"
      /\ elapsed[t] + 1 = IF asked[t] = 0 THEN 1 ELSE asked[t]

WakesOnTime == [][WakesOnTimeStep]_hvars

(***************************************************************************)
(* Turns: while a task waits for the core no other task gets it twice. So  *)
(* a runnable task waits for at most YOS_MAX_TASK_COUNT - 1 turns of the   *)
(* others, however the calls of schedule() and the ticks fall.             *)
(***************************************************************************)
NoTaskServedTwice ==
  \A t, u \in Tasks :
    /\ started
    /\ status[t] \in Runnable
    /\ CURRENT_TASK # t
    /\ SwitchTo(u)
    => u \notin since[t]

BoundedBypass == [][NoTaskServedTwice]_hvars
-----------------------------------------------------------------------------
(***************************************************************************)
(* The inductive invariant behind both: the countdown and the ticks taken  *)
(* add up to what was asked; a pending switch goes to the first runnable   *)
(* task after the current one; and the tasks served since t lost its turn  *)
(* lie between t and the current task on the circle.                       *)
(***************************************************************************)
Timing ==
  \A t \in Tasks :
    status[t] = "WAITING" =>
      IF asked[t] = 0
      THEN block_ticks[t] = 0 /\ elapsed[t] = 0
      ELSE block_ticks[t] > 0 /\ elapsed[t] + block_ticks[t] = asked[t]

NextIsFirst ==
  pendsv =>
    \A v \in Tasks :
      status[v] \in Runnable /\ v # CURRENT_TASK =>
        Ahead(CURRENT_TASK, next_task) <= Ahead(CURRENT_TASK, v)

Turns ==
  \A t \in Tasks :
    IF started /\ status[t] \in Runnable /\ t # CURRENT_TASK
    THEN \A u \in since[t] : Ahead(t, u) <= Ahead(t, CURRENT_TASK)
    ELSE since[t] = {}

HInv == Inv /\ HistoryTypeOK /\ Timing /\ NextIsFirst /\ Turns
=============================================================================
