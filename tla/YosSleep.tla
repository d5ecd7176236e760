------------------------------ MODULE YosSleep ------------------------------
(***************************************************************************)
(* yos_task_msleep of yos.c, in time. A clock of milliseconds drives the   *)
(* tick counter of YosKernel; the steps of the tasks take no time of their *)
(* own, so a task sleeps here for no longer than on the board.             *)
(***************************************************************************)
EXTENDS YosKernel

CONSTANTS
  TASK_SWITCH_INTERVAL_MS,   \* milliseconds in a tick
  MaxSleep                   \* bound on the argument of yos_task_msleep

ASSUME IntervalAssumption == TASK_SWITCH_INTERVAL_MS \in Nat \ {0}
VARIABLES
  phase,     \* milliseconds since the tick counter wrapped
  wanted,    \* the argument of a task's last msleep
  slept      \* milliseconds since the call, while the task waits

sleepvars == <<phase, wanted, slept>>
tvars     == <<vars, sleepvars>>

TInit ==
  /\ Init
  /\ phase = 0
  /\ wanted = [t \in Tasks |-> 0]
  /\ slept = [t \in Tasks |-> 0]

Awake(t) == status[t] # "WAITING"

\* Mistake: a sleep is rounded up to whole ticks, then shortened by one.
TicksLessOne(ms) ==
  IF ms < 2 * TASK_SWITCH_INTERVAL_MS THEN 1
  ELSE ms \div TASK_SWITCH_INTERVAL_MS - 1

\* Mistake: the milliseconds are passed on as ticks.
TicksAsMs(ms) == ms

\* The argument yos_task_msleep passes to yos_task_delay.
TicksOf(ms) ==
  IF ms < TASK_SWITCH_INTERVAL_MS THEN 1 ELSE ms \div TASK_SWITCH_INTERVAL_MS

\* The bounds on sleeps and on delays fit: every sleep is a delay of YosKernel.
ASSUME SleepAssumption ==
  MaxSleep \in Nat /\ \A ms \in 0 .. MaxSleep : TicksOf(ms) \in 1 .. MaxDelay

\* yos_task_msleep(ms)
MSleep(t, ms) ==
  /\ Delay(t, TicksOf(ms))
  /\ wanted' = [wanted EXCEPT ![t] = ms]
  /\ slept' = [slept EXCEPT ![t] = 0]
  /\ UNCHANGED phase

\* A millisecond passes. The counter wraps every TASK_SWITCH_INTERVAL_MS of
\* them; the tick has been taken before it wraps again, as masked sections and
\* handlers are much shorter than a tick.
Millisecond ==
  /\ started
  /\ phase' = (phase + 1) % TASK_SWITCH_INTERVAL_MS
  /\ slept' = [t \in Tasks |-> IF Awake(t) THEN slept[t] ELSE slept[t] + 1]
  /\ IF phase' = 0 THEN RaiseTick ELSE UNCHANGED vars
  /\ UNCHANGED wanted

TimelessStep ==
  \/ CreateTask \/ Start \/ TakeSysTick \/ TakePendSV
  \/ \E t \in Tasks : \/ KernelStep(t)
                      \/ ShellEnter(t) \/ ExitTask(t) \/ Schedule(t)
                      \/ EnterCritical(t)

TNext ==
  \/ Millisecond
  \/ \E t \in Tasks, ms \in 0 .. MaxSleep : MSleep(t, ms)
  \/ TimelessStep /\ UNCHANGED sleepvars

TSpec == TInit /\ [][TNext]_tvars
-----------------------------------------------------------------------------
TTypeOK ==
  /\ TypeOK
  /\ phase \in 0 .. TASK_SWITCH_INTERVAL_MS - 1
  /\ wanted \in [Tasks -> 0 .. MaxSleep]
  /\ slept \in [Tasks -> Nat]

Wakes(t) == status[t] = "WAITING" /\ status'[t] # "WAITING"

(***************************************************************************)
(* "Sleep for at least miliseconds" (yos.h:176): when a task is made       *)
(* runnable again the milliseconds it asked for have passed.               *)
(***************************************************************************)
SleepsAtLeastStep == \A t \in Tasks : Wakes(t) => slept[t] >= wanted[t]
SleepsAtLeast     == [][SleepsAtLeastStep]_tvars

(***************************************************************************)
(* What does hold: a sleep is short by less than two ticks, one for the    *)
(* part of a tick that is cut off and one for the tick that was under way  *)
(* at the call, and long by less than one, the tick at its end being taken *)
(* before the next (a sleep shorter than a tick is one tick). No early     *)
(* tick, no schedule() of others and no tick held back while the           *)
(* interrupts are masked makes it shorter or longer than that.             *)
(***************************************************************************)
AlmostEnoughStep ==
  \A t \in Tasks :
    Wakes(t) =>
      /\ slept[t] + 2 * TASK_SWITCH_INTERVAL_MS > wanted[t]
      /\ \/ slept[t] < wanted[t] + TASK_SWITCH_INTERVAL_MS
         \/ slept[t] < 2 * TASK_SWITCH_INTERVAL_MS
AlmostEnough == [][AlmostEnoughStep]_tvars
-----------------------------------------------------------------------------
(***************************************************************************)
(* The inductive invariant behind it: the ticks counted down so far, the   *)
(* one that is pending included, and the part of a tick since the counter  *)
(* wrapped are the milliseconds since the call, but for the part of a tick *)
(* that had passed then.                                                   *)
(***************************************************************************)
TicksPassed(t) ==
  TicksOf(wanted[t]) - block_ticks[t] + (IF systick THEN 1 ELSE 0)

Slept ==
  \A t \in Tasks :
    status[t] = "WAITING" =>
      LET passed == TicksPassed(t) * TASK_SWITCH_INTERVAL_MS + phase
      IN /\ block_ticks[t] > 0
         /\ slept[t] <= passed
         /\ slept[t] + TASK_SWITCH_INTERVAL_MS > passed

TInv == Inv /\ TTypeOK /\ Slept
=============================================================================
