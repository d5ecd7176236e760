------------------------------- MODULE YTimer -------------------------------
(***************************************************************************)
(* The user timers of ytimer.c: a list of countdowns that the interrupt of *)
(* TIM4 walks through once a millisecond, and the functions with which one *)
(* task, and the callbacks themselves, create, stop and change them. The   *)
(* functions mask the interrupt of the timer and nothing else, so calls of *)
(* several tasks have to be kept apart by the tasks: there is one here.    *)
(***************************************************************************)
EXTENDS Integers, FiniteSetsExt

CONSTANTS
  USER_TIMER_MAX_COUNT,
  MaxTimeout,    \* bound on timeout_ms
  MaxCalls       \* bound on the calls of the task and of the callbacks

ASSUME CountAssumption == USER_TIMER_MAX_COUNT \in Nat \ {0}
ASSUME TimeoutAssumption == MaxTimeout \in Nat
ASSUME CallsAssumption == MaxCalls \in Nat

VARIABLES
  list,          \* _user_timer_list
  up,            \* the counter of TIM4 runs and the NVIC lets it interrupt
  irq,           \* DIER: CC1IE
  flag,          \* SR: CC1IF
  isr, i,        \* tim4_isr: where it is, and at which timer
  at, call,      \* the task: where it is in a call, and which call
  meant,         \* the timer it means by the call's id
  held,          \* the timers it has created and not heard the end of
  calls,         \* how many calls have been made
  gen,           \* history: how many timers a slot has held
  armed,         \* history: what has passed since a timer was last armed
  irqShares      \* history: a callback has created or destroyed a timer

hw      == <<up, irq, flag>>
handler == <<isr, i>>
task    == <<at, call, meant, held>>
log     == <<gen, armed, irqShares>>
tmvars  == <<list, hw, handler, task, calls, log>>

Slots    == 0 .. USER_TIMER_MAX_COUNT - 1
Timeouts == 0 .. MaxTimeout
Timer ==
  [remaining_ms : Timeouts, init_ms : Timeouts, auto_restart : BOOLEAN,
   is_paused : BOOLEAN, is_used : BOOLEAN]
Cleared ==
  [remaining_ms |-> 0, init_ms |-> 0, auto_restart |-> FALSE,
   is_paused |-> FALSE, is_used |-> FALSE]

\* A callback is at work on a timer that this walk has yet to come to.
Ahead(s) == IF isr = "callback" /\ s > i THEN 1 ELSE 0

Unarmed == [ms |-> 0, extra |-> 0, missed |-> 0, restarted |-> FALSE]

\* The looks at a slot that are still to come of events up to now.
Stale(s) == (IF flag THEN 1 ELSE 0) + Ahead(s)

(***************************************************************************)
(* Of a timer since it was armed: ms counts the compare events that found  *)
(* it running and the interrupt free to take them; extra, those of before  *)
(* that have counted for it all the same; missed, those that a pause may   *)
(* have kept from counting.                                                *)
(***************************************************************************)
JustArmed(s, again) ==
  [ms |-> 0, extra |-> Stale(s), missed |-> 0, restarted |-> again]

Calls ==
  [op : {"create"}, id : {-1}, ms : Timeouts, auto : BOOLEAN]
    \cup [op : {"pause", "restore", "destroy", "remaining"}, id : Slots \cup {-1},
          ms : {0}, auto : {FALSE}]
    \cup [op : {"reset"}, id : Slots \cup {-1}, ms : Timeouts, auto : {FALSE}]

\* The task is in none.
NoCall == [op |-> "remaining", id |-> -1, ms |-> 0, auto |-> FALSE]

Running(s) == list[s].is_used /\ ~list[s].is_paused

\* main calls user_timer_init first of all.
TimerInit ==
  /\ list = [s \in Slots |-> Cleared]
  /\ up = TRUE /\ irq = TRUE /\ flag = FALSE
  /\ isr = "idle" /\ i = 0
  /\ at = "out"
  /\ call = NoCall
  /\ meant = 0 /\ held = {}
  /\ calls = 0
  /\ gen = [s \in Slots |-> 0]
  /\ armed = [s \in Slots |-> Unarmed]
  /\ irqShares = FALSE
-----------------------------------------------------------------------------
(***************************************************************************)
(* What the functions do between masking and unmasking the interrupt.      *)
(***************************************************************************)
Free == {s \in Slots : ~list[s].is_used}

\* Mistake: is_used is not looked at.
FirstSlot == 0

\* Where user_timer_create puts a timer: -1 when the list is full.
SlotForNew == IF Free = {} THEN -1 ELSE Min(Free)

Create(c) ==
  LET s == SlotForNew IN
  IF s = -1 THEN UNCHANGED <<list, gen, armed>>
  ELSE /\ list' = [list EXCEPT ![s] =
            [remaining_ms |-> c.ms, init_ms |-> c.ms, auto_restart |-> c.auto,
             is_paused |-> FALSE, is_used |-> TRUE]]
       /\ gen' = [gen EXCEPT ![s] = @ + 1]
       /\ armed' = [armed EXCEPT ![s] = JustArmed(s, FALSE)]

PauseSet(c) ==
  /\ list' = [list EXCEPT ![c.id].is_paused = c.op = "pause"]
  /\ armed' = CASE c.op = "restore" /\ list[c.id].is_paused ->
                     [armed EXCEPT ![c.id].extra = @ + Stale(c.id)]
                [] c.op = "pause" /\ ~list[c.id].is_paused ->
                     [armed EXCEPT ![c.id].missed = @ + Stale(c.id)]
                [] OTHER -> armed
  /\ UNCHANGED gen

Reset(c) ==
  /\ list' = [list EXCEPT ![c.id].remaining_ms = c.ms, ![c.id].init_ms = c.ms]
  /\ armed' = [armed EXCEPT ![c.id] = JustArmed(c.id, FALSE)]
  /\ UNCHANGED gen

Destroy(c) ==
  /\ list' = [list EXCEPT ![c.id].is_used = FALSE]
  /\ armed' = [armed EXCEPT ![c.id] = Unarmed]
  /\ UNCHANGED gen

\* The functions other than create leave a timer that is not used alone.
Body(c) ==
  IF c.op = "create" THEN Create(c)
  ELSE IF c.op = "remaining" \/ ~list[c.id].is_used
  THEN UNCHANGED <<list, gen, armed>>
  ELSE CASE c.op \in {"pause", "restore"} -> PauseSet(c)
         [] c.op = "reset"                -> Reset(c)
         [] c.op = "destroy"              -> Destroy(c)
-----------------------------------------------------------------------------
(***************************************************************************)
(* The task. It gives an id that create has given it: of a timer that it   *)
(* believes to be there, or -1 of one for which there was no slot.         *)
(***************************************************************************)
Begin(c) ==
  /\ isr = "idle" /\ at = "out" /\ calls < MaxCalls
  /\ IF c.op = "create" THEN meant' = 0
     ELSE \E h \in held : h.id = c.id /\ meant' = h.gen
  /\ calls' = calls + 1
  /\ IF c.op # "create" /\ c.id < 0 THEN UNCHANGED <<at, call>>
     ELSE at' = "mask" /\ call' = c
  /\ UNCHANGED <<list, hw, handler, held, log>>

Mask ==
  /\ isr = "idle" /\ at = "mask"
  /\ irq' = FALSE
  /\ at' = "body"
  /\ UNCHANGED <<list, up, flag, handler, call, meant, held, calls, log>>

\* What the task keeps of a timer that create puts into slot s.
Handle(s) == [id |-> s, gen |-> IF s = -1 THEN 0 ELSE gen[s] + 1]

TaskBody ==
  /\ isr = "idle" /\ at = "body"
  /\ Body(call)
  /\ at' = "unmask"
  /\ held' = CASE call.op = "create" -> held \cup {Handle(SlotForNew)}
               [] call.op = "destroy" -> {h \in held : h.id # call.id}
               [] OTHER -> held
  /\ UNCHANGED <<hw, handler, call, meant, calls, irqShares>>

\* Mistake: a call that finds its timer gone returns at once.
UnmaskIfThere ==
  /\ isr = "idle" /\ at = "unmask"
  /\ irq' = (call.op \in {"create", "destroy"} \/ list[call.id].is_used)
  /\ at' = "out" /\ call' = NoCall /\ meant' = 0
  /\ UNCHANGED <<list, up, flag, handler, held, calls, log>>

Unmask ==
  /\ isr = "idle" /\ at = "unmask"
  /\ irq' = TRUE
  /\ at' = "out" /\ call' = NoCall /\ meant' = 0
  /\ UNCHANGED <<list, up, flag, handler, held, calls, log>>

\* user_timer_init, with all interrupts masked. The reset pulse clears CC1IF.
ReInit ==
  /\ isr = "idle" /\ at = "out" /\ calls < MaxCalls
  /\ list' = [s \in Slots |-> Cleared]
  /\ up' = TRUE /\ irq' = TRUE /\ flag' = FALSE
  /\ held' = {}
  /\ calls' = calls + 1
  /\ armed' = [s \in Slots |-> Unarmed]
  /\ UNCHANGED <<handler, at, call, meant, gen, irqShares>>

\* user_timer_deinit, with all interrupts masked.
Deinit ==
  /\ isr = "idle" /\ at = "out" /\ calls < MaxCalls
  /\ up' = FALSE /\ irq' = FALSE
  /\ calls' = calls + 1
  /\ UNCHANGED <<list, flag, handler, task, log>>
-----------------------------------------------------------------------------
\* The counter passes the compare value, once a millisecond. Events that find
\* CC1IF set are lost.
Compare ==
  /\ up
  /\ flag' = TRUE
  /\ armed' = [s \in Slots |->
       IF Running(s) /\ ~flag THEN [armed[s] EXCEPT !.ms = @ + 1] ELSE armed[s]]
  /\ UNCHANGED <<list, up, irq, handler, task, calls, gen, irqShares>>

(***************************************************************************)
(* tim4_isr, which no task and no other call of it interrupts: clear the   *)
(* flag, then look at one timer after the other.                           *)
(***************************************************************************)
Enter ==
  /\ isr = "idle" /\ up /\ irq /\ flag
  /\ flag' = FALSE
  /\ isr' = "look" /\ i' = 0
  /\ UNCHANGED <<list, up, irq, task, calls, log>>

\* Mistake: the walk goes one past the last timer.
OnPastTheEnd ==
  IF i < USER_TIMER_MAX_COUNT THEN isr' = "look" /\ i' = i + 1
  ELSE isr' = "idle" /\ i' = 0

\* i++, and the test of the loop.
On ==
  IF i + 1 < USER_TIMER_MAX_COUNT THEN isr' = "look" /\ i' = i + 1
  ELSE isr' = "idle" /\ i' = 0

Skip ==
  /\ isr = "look" /\ ~Running(i)
  /\ On
  /\ UNCHANGED <<list, hw, task, calls, log>>

CountDown ==
  /\ isr = "look" /\ Running(i) /\ list[i].remaining_ms > 0
  /\ list' = [list EXCEPT ![i].remaining_ms = @ - 1]
  /\ On
  /\ UNCHANGED <<hw, task, calls, log>>

\* Mistake: the last millisecond is taken for the end.
DueAtOne == list[i].remaining_ms <= 1

Due == list[i].remaining_ms = 0

\* on_timeout is called. The task hears of it; a timer that will not restart
\* has ended.
Fire ==
  /\ isr = "look" /\ Running(i) /\ Due
  /\ isr' = "callback"
  /\ held' = IF list[i].auto_restart THEN held
             ELSE {h \in held : h.id # i \/ h.gen # gen[i]}
  /\ UNCHANGED <<list, hw, i, at, call, meant, calls, log>>

\* The callback makes a call: on return the interrupt is unmasked.
CallBack(c) ==
  /\ isr = "callback" /\ calls < MaxCalls
  /\ c.op = "create" \/ c.id \in Slots
  /\ Body(c)
  /\ irq' = TRUE
  /\ calls' = calls + 1
  /\ irqShares' = (irqShares \/ c.op \in {"create", "destroy"})
  /\ UNCHANGED <<up, flag, handler, task>>

\* The callback has returned; the slot is looked at anew.
AfterCallback ==
  /\ isr = "callback"
  /\ IF list[i].auto_restart
     THEN /\ list' = [list EXCEPT ![i].remaining_ms = list[i].init_ms]
          /\ armed' = [armed EXCEPT ![i] = JustArmed(i, TRUE)]
     ELSE /\ list' = [list EXCEPT ![i].is_used = FALSE]
          /\ armed' = [armed EXCEPT ![i] = Unarmed]
  /\ On
  /\ UNCHANGED <<hw, task, calls, gen, irqShares>>

Isr == Enter \/ Skip \/ CountDown \/ Fire \/ AfterCallback

TimerNext ==
  \/ Compare \/ Isr
  \/ Mask \/ TaskBody \/ Unmask \/ ReInit \/ Deinit
  \/ \E c \in Calls : Begin(c) \/ CallBack(c)

TimerSpec == TimerInit /\ [][TimerNext]_tmvars

(***************************************************************************)
(* The counter counts, a pending interrupt is taken, a callback returns,   *)
(* and the kernel gives the task that is in a call its turns.              *)
(***************************************************************************)
TimerFairness ==
  /\ WF_tmvars(Compare)
  /\ WF_tmvars(Isr)
  /\ SF_tmvars(Mask \/ TaskBody \/ Unmask)

FairTimerSpec == TimerSpec /\ TimerFairness
-----------------------------------------------------------------------------
TimerTypeOK ==
  /\ list \in [Slots -> Timer]
  /\ {up, irq, flag, irqShares} \subseteq BOOLEAN
  /\ isr \in {"idle", "look", "callback"} /\ i \in Slots
  /\ at \in {"out", "mask", "body", "unmask"} /\ call \in Calls
  /\ meant \in 0 .. MaxCalls
  /\ held \subseteq [id : Slots \cup {-1}, gen : 0 .. MaxCalls]
  /\ calls \in 0 .. MaxCalls
  /\ gen \in [Slots -> 0 .. MaxCalls]
  /\ armed \in [Slots -> [ms : Nat, extra : 0 .. 2 * MaxCalls + 1,
                          missed : 0 .. 2 * MaxCalls, restarted : BOOLEAN]]

(***************************************************************************)
(* A timer calls back with the interrupt after those that count it down:   *)
(* of the events that have found it running since it was created, reset or *)
(* restarted, with the one of number timeout_ms + 1. The first of them     *)
(* comes less than a millisecond after a create or reset, so that these    *)
(* are late by up to one. It comes sooner only by an event of before that  *)
(* was still pending or, if a callback arms or restores it, whose walk has *)
(* yet to come to it; and later only by events that a pause has kept from  *)
(* counting or that were lost. So it is whatever the callbacks do.         *)
(***************************************************************************)
Calling == isr = "look" /\ isr' = "callback"

\* Events, but for one that came after the interrupt had begun.
Passed(s) == armed[s].ms - (IF flag THEN 1 ELSE 0)

FiresOnTimeStep ==
  Calling =>
    /\ Passed(i) + armed[i].extra >= list[i].init_ms + 1
    /\ Passed(i) <= list[i].init_ms + 1 + armed[i].missed

FiresOnTime == [][FiresOnTimeStep]_tmvars

(***************************************************************************)
(* A timer that restarts itself keeps time: from one of its callbacks to   *)
(* the next there are not more than timeout_ms milliseconds. yos.h:181     *)
(* tells users to take timers for an accurate timing.                      *)
(***************************************************************************)
RestartsKeepTime ==
  [][Calling /\ armed[i].restarted /\ list[i].init_ms > 0 =>
       Passed(i) <= list[i].init_ms + armed[i].missed]_tmvars

(***************************************************************************)
(* A call of the task meets the timer the task means or an unused slot,    *)
(* even if the timer has called back between the task's decision and the   *)
(* masked section -- as long as callbacks neither create nor destroy       *)
(* timers, which frees slots the task believes taken, or takes those that  *)
(* have just become free.                                                  *)
(***************************************************************************)
CallsMeetTheirTimer ==
  at = "body" /\ call.op # "create" /\ list[call.id].is_used =>
    irqShares \/ gen[call.id] = meant

(***************************************************************************)
(* A running timer calls back unless it is stopped: walks that skip, free  *)
(* or restart other timers never pass it over for good.                    *)
(***************************************************************************)
RunningTimersFire ==
  \A s \in Slots :
    up /\ Running(s) ~> (~up \/ ~Running(s) \/ (isr = "callback" /\ i = s))
=============================================================================
