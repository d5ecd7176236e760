--------------------------- MODULE YTimerProofs ----------------------------
(***************************************************************************)
(* Proofs about YTimer, for every length of the list and every bound on    *)
(* timeouts and calls: with which event a timer calls back, and that a     *)
(* call meets the timer it is meant for. Nothing is assumed of the         *)
(* callbacks but that they make calls with ids of the list.                *)
(***************************************************************************)
EXTENDS YTimer, TLAPS, NaturalsInduction, WellFoundedInduction
-----------------------------------------------------------------------------
(***************************************************************************)
(* The inductive invariant.                                                *)
(***************************************************************************)

\* The calls whose body has been executed, and those that never reach one.
Left == IF at \in {"mask", "body"} THEN calls - 1 ELSE calls

\* How often anything has happened to a slot is bounded by the calls.
Bounded ==
  /\ at \in {"mask", "body"} => calls >= 1
  /\ \A s \in Slots :
       gen[s] <= Left /\ armed[s].extra <= 2 * Left + 1 /\ armed[s].missed <= 2 * Left
  /\ at # "out" /\ call.op # "create" => call.id \in Slots

\* The times the interrupt has counted it down.
Scans(s) == list[s].init_ms - list[s].remaining_ms

\* The timer's own callback is at work: it is about to be freed or restarted.
Ending(s) == isr = "callback" /\ i = s

\* Scans to come that an event of before now has caused.
Pending(s) ==
  (IF flag THEN 1 ELSE 0) + (IF isr # "idle" /\ i <= s THEN 1 ELSE 0)

\* Every scan, those under way included, stands for an event that has found the
\* timer running, or for one that was still pending when it began to run.
NotEarly(s) ==
  Scans(s) + (IF Running(s) THEN Pending(s) ELSE 0) <= armed[s].ms + armed[s].extra

\* Every event that has found the timer running has counted it down, or is about
\* to, or was pending when the timer was paused.
NotLate(s) ==
  armed[s].ms <= Scans(s) + (IF Running(s) THEN Pending(s) ELSE 0) + armed[s].missed

InTime ==
  \A s \in Slots : list[s].is_used /\ ~Ending(s) => NotEarly(s) /\ NotLate(s)

\* What the task believes of the timers is so, and a call in progress is
\* about the timer it was decided for.
HeldIsThere ==
  \A h \in held : h.id \in Slots => list[h.id].is_used /\ gen[h.id] = h.gen

EndingIsNotHeld ==
  isr = "callback" /\ ~list[i].auto_restart => \A h \in held : h.id # i

CallIsMeant ==
  at \in {"mask", "body"} /\ call.op # "create" /\ list[call.id].is_used =>
    gen[call.id] = meant

TaskKnows ==
  ~irqShares => HeldIsThere /\ EndingIsNotHeld /\ CallIsMeant

TimerInv == TimerTypeOK /\ Bounded /\ InTime /\ TaskKnows

\* What is kept of a timer since it was armed.
Histories ==
  [ms : Nat, extra : 0 .. 2 * MaxCalls + 1, missed : 0 .. 2 * MaxCalls, restarted : BOOLEAN]

USE CountAssumption, TimeoutAssumption, CallsAssumption
-----------------------------------------------------------------------------
(***************************************************************************)
(* What a function does between masking and unmasking, slot by slot.       *)
(***************************************************************************)

\* user_timer_create takes a slot that is free, or none.
LEMMA SlotForNewIsFree ==
  ASSUME SlotForNew # -1
  PROVE  SlotForNew \in Slots /\ ~list[SlotForNew].is_used
<1>1. Free \in SUBSET Nat /\ Free # {}
  BY DEF Free, Slots, SlotForNew
<1>2. PICK x \in Free : \A y \in Free : ~(<<y, x>> \in OpToRel(<, Nat))
  BY <1>1, NatLessThanWellFounded, WFMin
<1>3. \A y \in Free : y \in Nat /\ x \in Nat
  BY <1>1
<1>4. \A y \in Free : ~(y < x)
  BY <1>2, <1>3, Zenon DEF OpToRel
<1>5. \A y \in Free : x <= y
  BY <1>3, <1>4
<1>6. Min(Free) \in Free
  BY <1>5, Zenon DEF Min
<1> QED
  BY <1>1, <1>6 DEF SlotForNew, Free

\* The ways in which a call may leave a slot.
Untouched(s) ==
  list'[s] = list[s] /\ gen'[s] = gen[s] /\ armed'[s] = armed[s]

Restored(s) == [armed[s] EXCEPT !.extra = @ + Stale(s)]
Paused(s)   == [armed[s] EXCEPT !.missed = @ + Stale(s)]

Rearmed(s) ==
  /\ list'[s].is_used /\ list'[s].remaining_ms = list'[s].init_ms
  /\ armed'[s] = JustArmed(s, FALSE)
  /\ gen'[s] = IF list[s].is_used THEN gen[s] ELSE gen[s] + 1

Toggled(s) ==
  /\ list[s].is_used /\ list'[s].is_used
  /\ list'[s].remaining_ms = list[s].remaining_ms
  /\ list'[s].init_ms = list[s].init_ms
  /\ gen'[s] = gen[s]
  /\ \/ list[s].is_paused /\ ~list'[s].is_paused /\ armed'[s] = Restored(s)
     \/ ~list[s].is_paused /\ list'[s].is_paused /\ armed'[s] = Paused(s)
     \/ list'[s].is_paused = list[s].is_paused /\ armed'[s] = armed[s]

Freed(s) ==
  list[s].is_used /\ ~list'[s].is_used /\ gen'[s] = gen[s] /\ armed'[s] = Unarmed

\* A call leaves every slot in one of these ways. Only create takes slots, and
\* only destroy frees them.
LEMMA BodyEffect ==
  ASSUME TimerTypeOK, NEW c \in Calls, c.op # "create" => c.id \in Slots, Body(c)
  PROVE  /\ list' \in [Slots -> Timer]
         /\ DOMAIN gen' = Slots /\ gen' = [s \in Slots |-> gen'[s]]
         /\ DOMAIN armed' = Slots /\ armed' = [s \in Slots |-> armed'[s]]
         /\ \A s \in Slots :
              /\ Untouched(s) \/ Rearmed(s) \/ Toggled(s) \/ Freed(s)
              /\ Freed(s) => c.op = "destroy" /\ c.id = s
              /\ list'[s].is_used /\ ~list[s].is_used =>
                   c.op = "create" /\ SlotForNew = s
              /\ c.op # "create" => list'[s].auto_restart = list[s].auto_restart
<1> DEFINE Effect(s) ==
      /\ Untouched(s) \/ Rearmed(s) \/ Toggled(s) \/ Freed(s)
      /\ Freed(s) => c.op = "destroy" /\ c.id = s
      /\ list'[s].is_used /\ ~list[s].is_used => c.op = "create" /\ SlotForNew = s
      /\ c.op # "create" => list'[s].auto_restart = list[s].auto_restart
<1> DEFINE Goal == /\ list' \in [Slots -> Timer]
                   /\ DOMAIN gen' = Slots /\ gen' = [s \in Slots |-> gen'[s]]
                   /\ DOMAIN armed' = Slots /\ armed' = [s \in Slots |-> armed'[s]]
                   /\ \A s \in Slots : Effect(s)
<1> SUFFICES Goal
  OBVIOUS
<1>0. /\ list \in [Slots -> Timer] /\ gen \in [Slots -> 0 .. MaxCalls]
      /\ armed \in [Slots -> Histories]
  BY DEF TimerTypeOK, Histories
<1>a. ASSUME NEW s \in Slots, Untouched(s)
      PROVE  Effect(s)
  BY <1>a DEF Untouched, Freed
\* Only slot s0 is changed: it remains to say how.
<1>b. ASSUME NEW s0 \in Slots, NEW t \in Timer, list' = [list EXCEPT ![s0] = t],
             \A s \in Slots \ {s0} : gen'[s] = gen[s] /\ armed'[s] = armed[s],
             list'[s0] = t => Effect(s0),
             DOMAIN gen' = Slots /\ gen' = [s \in Slots |-> gen'[s]],
             DOMAIN armed' = Slots /\ armed' = [s \in Slots |-> armed'[s]]
      PROVE  Goal
  <2> HIDE DEF Effect
  <2>1. list' \in [Slots -> Timer] /\ list'[s0] = t
    BY <1>0, <1>b
  <2>2. ASSUME NEW s \in Slots, s # s0
        PROVE  Effect(s)
    <3>1. list'[s] = list[s]
      BY <1>0, <1>b, <2>2
    <3> QED
      BY <1>a, <1>b, <2>2, <3>1 DEF Untouched
  <2> QED
    BY <1>b, <2>1, <2>2
\* Nothing is changed.
<1>c. ASSUME UNCHANGED <<list, gen, armed>>
      PROVE  Goal
  <2> HIDE DEF Effect
  <2>1. \A s \in Slots : Untouched(s)
    BY <1>c DEF Untouched
  <2> QED
    BY <1>0, <1>a, <1>c, <2>1
\* A field of a timer is read back as it was written.
<1>d. /\ \A t \in Timer, b \in BOOLEAN : [t EXCEPT !.is_paused = b] \in Timer
      /\ \A t \in Timer : [t EXCEPT !.is_used = FALSE] \in Timer
      /\ \A t \in Timer, ms \in Timeouts :
           [t EXCEPT !.remaining_ms = ms, !.init_ms = ms] \in Timer
  BY DEF Timer
<1> HIDE DEF Effect, Goal
<1>1. CASE c.op = "create" /\ SlotForNew = -1
  BY <1>1, <1>c DEF Body, Create
<1>2. CASE c.op = "create" /\ SlotForNew # -1
  <2> DEFINE s0 == SlotForNew
  <2> DEFINE t == [remaining_ms |-> c.ms, init_ms |-> c.ms, auto_restart |-> c.auto,
                   is_paused |-> FALSE, is_used |-> TRUE]
  <2>1. s0 \in Slots /\ ~list[s0].is_used
    BY <1>2, SlotForNewIsFree
  <2>2. c.ms \in Timeouts /\ c.auto \in BOOLEAN
    BY <1>2 DEF Calls
  <2>3. t \in Timer
    BY <2>2 DEF Timer
  <2>4. /\ list' = [list EXCEPT ![s0] = t]
        /\ gen' = [gen EXCEPT ![s0] = @ + 1]
        /\ armed' = [armed EXCEPT ![s0] = JustArmed(s0, FALSE)]
    BY <1>2 DEF Body, Create
  <2>5. t.is_used /\ t.remaining_ms = t.init_ms
    OBVIOUS
  <2>6. c.op = "create" /\ s0 = SlotForNew
    BY <1>2
  <2> HIDE DEF s0, t
  <2>7. gen'[s0] = gen[s0] + 1 /\ armed'[s0] = JustArmed(s0, FALSE)
    BY <1>0, <2>1, <2>4
  <2>8. list'[s0] = t => Effect(s0)
    BY <2>1, <2>5, <2>6, <2>7 DEF Effect, Rearmed, Freed
  <2>9. /\ DOMAIN gen' = Slots /\ gen' = [s \in Slots |-> gen'[s]]
        /\ DOMAIN armed' = Slots /\ armed' = [s \in Slots |-> armed'[s]]
        /\ \A s \in Slots \ {s0} : gen'[s] = gen[s] /\ armed'[s] = armed[s]
    BY <1>0, <2>4
  <2> QED
    BY <1>b, <2>1, <2>3, <2>4, <2>8, <2>9
<1>3. CASE c.op # "create" /\ (c.op = "remaining" \/ ~list[c.id].is_used)
  BY <1>3, <1>c DEF Body
<1>4. CASE c.op \in {"pause", "restore"} /\ list[c.id].is_used
  <2> DEFINE s0 == c.id
  <2> DEFINE b == c.op = "pause"
  <2> DEFINE t == [list[s0] EXCEPT !.is_paused = b]
  <2>1. PauseSet(c)
    BY <1>4 DEF Body
  <2>2. s0 \in Slots /\ list[s0].is_used /\ b \in BOOLEAN
    BY <1>4
  <2>3. list[s0] \in Timer /\ t \in Timer
    <3>1. list[s0] \in Timer
      BY <1>0, <2>2
    <3> QED
      BY <1>d, <2>2, <3>1
  <2>4. /\ list' = [list EXCEPT ![s0] = t] /\ gen' = gen
        /\ armed' = CASE c.op = "restore" /\ list[s0].is_paused ->
                           [armed EXCEPT ![s0].extra = @ + Stale(s0)]
                      [] c.op = "pause" /\ ~list[s0].is_paused ->
                           [armed EXCEPT ![s0].missed = @ + Stale(s0)]
                      [] OTHER -> armed
    BY <2>1 DEF PauseSet
  <2>5. /\ t.is_used = list[s0].is_used /\ t.is_paused = b
        /\ t.remaining_ms = list[s0].remaining_ms /\ t.init_ms = list[s0].init_ms
        /\ t.auto_restart = list[s0].auto_restart
    BY <2>3 DEF Timer
  <2>6. c.op # "create" /\ (c.op = "restore" <=> ~b) /\ (c.op = "pause" <=> b)
    BY <1>4
  <2> HIDE DEF s0, t, b
  <2>7. \/ list[s0].is_paused /\ ~b /\ armed'[s0] = Restored(s0)
        \/ ~list[s0].is_paused /\ b /\ armed'[s0] = Paused(s0)
        \/ b = list[s0].is_paused /\ armed'[s0] = armed[s0]
    <3>1. list[s0].is_paused \in BOOLEAN
      BY <2>3 DEF Timer
    <3>2. CASE list[s0].is_paused /\ ~b
      BY <1>0, <2>2, <2>4, <2>6, <3>2 DEF Restored
    <3>3. CASE ~list[s0].is_paused /\ b
      BY <1>0, <2>2, <2>4, <2>6, <3>3 DEF Paused
    <3>4. CASE b = list[s0].is_paused
      BY <2>2, <2>4, <2>6, <3>4
    <3> QED
      BY <2>2, <3>1, <3>2, <3>3, <3>4
  <2>8. list'[s0] = t => Effect(s0)
    BY <2>2, <2>4, <2>5, <2>6, <2>7 DEF Effect, Toggled, Freed
  <2>9. /\ DOMAIN gen' = Slots /\ gen' = [s \in Slots |-> gen'[s]]
        /\ DOMAIN armed' = Slots /\ armed' = [s \in Slots |-> armed'[s]]
        /\ \A s \in Slots \ {s0} : gen'[s] = gen[s] /\ armed'[s] = armed[s]
    BY <1>0, <2>4
  <2> QED
    BY <1>b, <2>2, <2>3, <2>4, <2>8, <2>9
<1>5. CASE c.op = "reset" /\ list[c.id].is_used
  <2> DEFINE s0 == c.id
  <2> DEFINE t == [list[s0] EXCEPT !.remaining_ms = c.ms, !.init_ms = c.ms]
  <2>1. Reset(c) /\ c.ms \in Timeouts
    BY <1>5 DEF Body, Calls
  <2>2. s0 \in Slots /\ list[s0].is_used /\ c.op # "create"
    BY <1>5
  <2>3. list[s0] \in Timer /\ t \in Timer
    BY <1>0, <1>d, <2>1, <2>2
  <2>4. /\ list' = [list EXCEPT ![s0].remaining_ms = c.ms, ![s0].init_ms = c.ms]
        /\ gen' = gen /\ armed' = [armed EXCEPT ![s0] = JustArmed(s0, FALSE)]
    BY <2>1 DEF Reset
  <2>5. /\ t.is_used = list[s0].is_used /\ t.remaining_ms = t.init_ms
        /\ t.auto_restart = list[s0].auto_restart
    BY <2>3 DEF Timer
  <2>6. list' = [list EXCEPT ![s0] = t]
    BY <1>0, <2>2, <2>4
  <2> HIDE DEF s0, t
  <2>7. gen'[s0] = gen[s0] /\ armed'[s0] = JustArmed(s0, FALSE)
    BY <1>0, <2>2, <2>4
  <2>8. list'[s0] = t => Effect(s0)
    BY <2>2, <2>5, <2>7 DEF Effect, Rearmed, Freed
  <2>9. /\ DOMAIN gen' = Slots /\ gen' = [s \in Slots |-> gen'[s]]
        /\ DOMAIN armed' = Slots /\ armed' = [s \in Slots |-> armed'[s]]
        /\ \A s \in Slots \ {s0} : gen'[s] = gen[s] /\ armed'[s] = armed[s]
    BY <1>0, <2>4
  <2> QED
    BY <1>b, <2>2, <2>3, <2>6, <2>8, <2>9
<1>6. CASE c.op = "destroy" /\ list[c.id].is_used
  <2> DEFINE s0 == c.id
  <2> DEFINE t == [list[s0] EXCEPT !.is_used = FALSE]
  <2>1. Destroy(c)
    BY <1>6 DEF Body
  <2>2. s0 \in Slots /\ list[s0].is_used /\ c.op = "destroy" /\ c.id = s0
    BY <1>6
  <2>3. list[s0] \in Timer /\ t \in Timer
    <3>1. list[s0] \in Timer
      BY <1>0, <2>2
    <3> QED
      BY <1>d, <2>2, <3>1
  <2>4. /\ list' = [list EXCEPT ![s0] = t] /\ gen' = gen
        /\ armed' = [armed EXCEPT ![s0] = Unarmed]
    BY <2>1 DEF Destroy
  <2>5. ~t.is_used /\ t.auto_restart = list[s0].auto_restart
    BY <2>3 DEF Timer
  <2> HIDE DEF s0, t
  <2>6. list'[s0] = t => Effect(s0)
    BY <1>0, <2>2, <2>4, <2>5 DEF Effect, Freed
  <2>7. /\ DOMAIN gen' = Slots /\ gen' = [s \in Slots |-> gen'[s]]
        /\ DOMAIN armed' = Slots /\ armed' = [s \in Slots |-> armed'[s]]
        /\ \A s \in Slots \ {s0} : gen'[s] = gen[s] /\ armed'[s] = armed[s]
    BY <1>0, <2>4
  <2> QED
    BY <1>b, <2>2, <2>3, <2>4, <2>6, <2>7
<1> QED
  BY <1>1, <1>2, <1>3, <1>4, <1>5, <1>6 DEF Calls
-----------------------------------------------------------------------------
(***************************************************************************)
(* Types, and the bounds of the history variables.                         *)
(***************************************************************************)
LEMMA InitTypes == TimerInit => TimerTypeOK /\ Bounded
<1> SUFFICES ASSUME TimerInit PROVE TimerTypeOK /\ Bounded
  OBVIOUS
<1>1. list \in [Slots -> Timer]
  BY DEF TimerInit, Timer, Cleared, Timeouts
<1>2. NoCall \in Calls
  BY DEF NoCall, Calls
<1>3. 0 \in Slots
  BY DEF Slots
<1>4. armed \in [Slots -> Histories] /\ \A s \in Slots : armed[s] = Unarmed
  BY DEF TimerInit, Histories, Unarmed
<1>5. gen \in [Slots -> 0 .. MaxCalls]
  BY DEF TimerInit
<1>6. TimerTypeOK
  BY <1>1, <1>2, <1>3, <1>4, <1>5 DEF TimerInit, TimerTypeOK, Histories
<1>7. Bounded
  BY <1>4 DEF TimerInit, Bounded, Left, Unarmed
<1> QED
  BY <1>6, <1>7

\* The walk of the interrupt stays in the list.
LEMMA OnStays ==
  ASSUME i \in Slots, On
  PROVE  /\ i' \in Slots /\ isr' \in {"idle", "look"}
         /\ isr' = "look" => i' = i + 1
BY DEF On, Slots

\* A call grows the histories of a slot by little.
LEMMA BodyBounded ==
  ASSUME TimerTypeOK, NEW c \in Calls, c.op # "create" => c.id \in Slots, Body(c),
         NEW n \in 0 .. MaxCalls - 1,
         \A s \in Slots :
           gen[s] <= n /\ armed[s].extra <= 2 * n + 1 /\ armed[s].missed <= 2 * n
  PROVE  /\ gen' \in [Slots -> 0 .. MaxCalls]
         /\ armed' \in [Slots -> Histories]
         /\ \A s \in Slots :
              /\ gen'[s] <= n + 1
              /\ armed'[s].extra <= 2 * (n + 1) + 1 /\ armed'[s].missed <= 2 * (n + 1)
<1> DEFINE Small(e) ==
      e \in Histories /\ e.extra <= 2 * (n + 1) + 1 /\ e.missed <= 2 * (n + 1)
<1>1. ASSUME NEW s \in Slots
      PROVE  gen'[s] \in 0 .. MaxCalls /\ gen'[s] <= n + 1 /\ Small(armed'[s])
  <2>1. gen[s] \in 0 .. MaxCalls /\ armed[s] \in Histories /\ gen[s] <= n
    BY DEF TimerTypeOK, Histories
  <2>2. Stale(s) \in 0 .. 2
    BY DEF Stale, Ahead
  <2>3. Small(JustArmed(s, FALSE)) /\ Small(Unarmed)
    BY <2>2 DEF JustArmed, Unarmed, Histories
  <2>4. Small(Restored(s)) /\ Small(Paused(s)) /\ Small(armed[s])
    BY <2>1, <2>2 DEF Restored, Paused, Histories
  <2>5. Untouched(s) \/ Rearmed(s) \/ Toggled(s) \/ Freed(s)
    BY BodyEffect
  <2> HIDE DEF Small
  <2>6. Small(armed'[s])
    BY <2>3, <2>4, <2>5 DEF Untouched, Rearmed, Toggled, Freed
  <2>7. gen'[s] \in {gen[s], gen[s] + 1}
    BY <2>5 DEF Untouched, Rearmed, Toggled, Freed
  <2>8. gen'[s] \in 0 .. MaxCalls /\ gen'[s] <= n + 1
    BY <2>1, <2>7
  <2> QED
    BY <2>6, <2>8
<1> QED
  BY <1>1, BodyEffect

LEMMA NextTypes ==
  ASSUME TimerTypeOK, Bounded, [TimerNext]_tmvars
  PROVE  TimerTypeOK' /\ Bounded'
<1> USE DEF hw, handler, task, log
<1>0. Left \in Nat /\ Left <= MaxCalls
  BY DEF TimerTypeOK, Bounded, Left
<1>1. CASE UNCHANGED tmvars
  BY <1>1 DEF tmvars, TimerTypeOK, Bounded, Left
<1>2. CASE Compare
  <2>1. /\ armed' \in [Slots -> Histories]
        /\ \A s \in Slots :
             armed'[s].extra = armed[s].extra /\ armed'[s].missed = armed[s].missed
    BY <1>2 DEF Compare, TimerTypeOK, Histories
  <2> QED
    BY <1>2, <2>1 DEF Compare, TimerTypeOK, Bounded, Left, Histories
<1>3. CASE Enter
  <2>1. 0 \in Slots
    BY DEF Slots
  <2> QED
    BY <1>3, <2>1 DEF Enter, TimerTypeOK, Bounded, Left
<1>4. CASE Skip
  BY <1>4, OnStays DEF Skip, TimerTypeOK, Bounded, Left
<1>5. CASE CountDown
  <2>1. list[i].remaining_ms - 1 \in Timeouts
    BY <1>5 DEF CountDown, TimerTypeOK, Timer, Timeouts
  <2>2. list' \in [Slots -> Timer]
    BY <1>5, <2>1 DEF CountDown, TimerTypeOK, Timer
  <2> QED
    BY <1>5, <2>2, OnStays DEF CountDown, TimerTypeOK, Bounded, Left
<1>6. CASE Fire
  BY <1>6 DEF Fire, TimerTypeOK, Bounded, Left
<1>7. CASE AfterCallback
  <2>1. list' \in [Slots -> Timer]
    <3>1. list[i] \in Timer
      BY DEF TimerTypeOK
    <3>2. /\ [list[i] EXCEPT !.remaining_ms = list[i].init_ms] \in Timer
          /\ [list[i] EXCEPT !.is_used = FALSE] \in Timer
      BY <3>1 DEF Timer
    <3> QED
      BY <1>7, <3>2 DEF AfterCallback, TimerTypeOK
  <2>2. PICK e \in Histories :
          armed' = [armed EXCEPT ![i] = e] /\ e.extra <= 1 /\ e.missed = 0
    <3>1. Stale(i) \in 0 .. 1
      BY DEF Stale, Ahead, TimerTypeOK, Slots
    <3>2. JustArmed(i, TRUE) \in Histories
      BY <3>1 DEF JustArmed, Histories
    <3>3. JustArmed(i, TRUE).extra <= 1 /\ JustArmed(i, TRUE).missed = 0
      BY <3>1 DEF JustArmed
    <3>4. Unarmed \in Histories /\ Unarmed.extra = 0 /\ Unarmed.missed = 0
      BY DEF Histories, Unarmed
    <3>5. \/ armed' = [armed EXCEPT ![i] = JustArmed(i, TRUE)]
          \/ armed' = [armed EXCEPT ![i] = Unarmed]
      BY <1>7 DEF AfterCallback
    <3>6. Unarmed.extra <= 1
      BY <3>4
    <3> QED
      BY <3>2, <3>3, <3>4, <3>5, <3>6, Zenon
  <2>3. armed \in [Slots -> Histories] /\ i \in Slots
    BY DEF TimerTypeOK, Histories
  <2>4. \A s \in Slots :
          gen[s] <= Left /\ armed[s].extra <= 2 * Left + 1 /\ armed[s].missed <= 2 * Left
    BY DEF Bounded
  <2>5. armed' \in [Slots -> Histories]
    BY <2>2, <2>3
  <2>6. \A s \in Slots : armed'[s].extra <= 2 * Left + 1 /\ armed'[s].missed <= 2 * Left
    <3> TAKE s \in Slots
    <3>1. armed'[s] = IF s = i THEN e ELSE armed[s]
      BY <2>2, <2>3
    <3>2. e.extra \in Nat
      BY DEF Histories
    <3> QED
      BY <1>0, <2>2, <2>4, <3>1, <3>2
  <2>7. /\ UNCHANGED <<up, irq, flag, at, call, meant, held, calls, gen, irqShares>>
        /\ i' \in Slots /\ isr' \in {"idle", "look"}
    BY <1>7, <2>3, OnStays DEF AfterCallback
  <2>8. TimerTypeOK'
    BY <2>1, <2>5, <2>7 DEF TimerTypeOK, Histories
  <2> QED
    BY <2>4, <2>6, <2>7, <2>8 DEF Bounded, Left
<1>8. CASE Mask
  BY <1>8 DEF Mask, TimerTypeOK, Bounded, Left
<1>9. CASE TaskBody
  <2>1. /\ Left = calls - 1 /\ Left' = calls /\ Left \in 0 .. MaxCalls - 1
        /\ call \in Calls /\ (call.op # "create" => call.id \in Slots)
    BY <1>0, <1>9 DEF TaskBody, Left, Bounded, TimerTypeOK
  <2>2. Body(call)
    BY <1>9 DEF TaskBody
  <2>3. /\ gen' \in [Slots -> 0 .. MaxCalls] /\ armed' \in [Slots -> Histories]
        /\ \A s \in Slots :
             /\ gen'[s] <= Left + 1
             /\ armed'[s].extra <= 2 * (Left + 1) + 1 /\ armed'[s].missed <= 2 * (Left + 1)
    BY <2>1, <2>2, BodyBounded DEF Bounded
  <2>4. list' \in [Slots -> Timer]
    BY <2>1, <2>2, BodyEffect
  <2>5. held' \subseteq [id : Slots \cup {-1}, gen : 0 .. MaxCalls]
    <3>1. Handle(SlotForNew) \in [id : Slots \cup {-1}, gen : 0 .. MaxCalls]
      <4>1. CASE SlotForNew = -1
        BY <4>1 DEF Handle
      <4>2. CASE SlotForNew # -1
        BY <4>2, <2>1, SlotForNewIsFree DEF Handle, Bounded, TimerTypeOK
      <4> QED
        BY <4>1, <4>2
    <3> QED
      BY <1>9, <3>1 DEF TaskBody, TimerTypeOK
  <2> QED
    BY <1>9, <2>1, <2>3, <2>4, <2>5 DEF TaskBody, TimerTypeOK, Bounded, Left, Histories
<1>10. CASE Unmask
  BY <1>10 DEF Unmask, TimerTypeOK, Bounded, Left, NoCall, Calls
<1>11. CASE ReInit
  <2>1. list' \in [Slots -> Timer] /\ calls' \in 0 .. MaxCalls
    BY <1>11 DEF ReInit, TimerTypeOK, Cleared, Timer, Timeouts
  <2>2. Left' = Left + 1
    BY <1>11 DEF ReInit, Left
  <2>3. armed' \in [Slots -> Histories] /\ \A s \in Slots : armed'[s] = Unarmed
    BY <1>11 DEF ReInit, Histories, Unarmed
  <2>4. TimerTypeOK'
    BY <1>11, <2>1, <2>3 DEF ReInit, TimerTypeOK, Histories
  <2> QED
    BY <1>0, <1>11, <2>2, <2>3, <2>4 DEF ReInit, TimerTypeOK, Bounded, Unarmed
<1>12. CASE Deinit
  <2>1. calls' \in 0 .. MaxCalls /\ Left' = Left + 1
    BY <1>12 DEF Deinit, TimerTypeOK, Left
  <2>2. TimerTypeOK'
    BY <1>12, <2>1 DEF Deinit, TimerTypeOK
  <2> QED
    BY <1>0, <1>12, <2>1, <2>2 DEF Deinit, TimerTypeOK, Bounded
<1>13. ASSUME NEW c \in Calls, Begin(c) PROVE TimerTypeOK' /\ Bounded'
  <2>1. meant' \in 0 .. MaxCalls
    BY <1>13 DEF Begin, TimerTypeOK
  <2>2. c.op # "create" /\ ~(c.id < 0) => c.id \in Slots
    <3>1. c.id \in Slots \cup {-1} \/ c.op = "create"
      BY DEF Calls
    <3> QED
      BY <3>1
  <2>3. Left' \in {Left, Left + 1} /\ calls' \in 0 .. MaxCalls
    BY <1>13 DEF Begin, Left, TimerTypeOK
  <2> QED
    BY <1>0, <1>13, <2>1, <2>2, <2>3 DEF Begin, TimerTypeOK, Bounded
<1>14. ASSUME NEW c \in Calls, CallBack(c) PROVE TimerTypeOK' /\ Bounded'
  <2>1. /\ Left' = Left + 1 /\ Left \in 0 .. MaxCalls - 1
        /\ (c.op # "create" => c.id \in Slots) /\ Body(c)
    BY <1>0, <1>14 DEF CallBack, Left, TimerTypeOK, Bounded
  <2>2. /\ gen' \in [Slots -> 0 .. MaxCalls] /\ armed' \in [Slots -> Histories]
        /\ \A s \in Slots :
             /\ gen'[s] <= Left + 1
             /\ armed'[s].extra <= 2 * (Left + 1) + 1 /\ armed'[s].missed <= 2 * (Left + 1)
    BY <2>1, BodyBounded DEF Bounded
  <2>3. list' \in [Slots -> Timer]
    BY <2>1, BodyEffect
  <2> QED
    BY <1>14, <2>1, <2>2, <2>3 DEF CallBack, TimerTypeOK, Bounded, Histories
<1> QED
  BY <1>1, <1>2, <1>3, <1>4, <1>5, <1>6, <1>7, <1>8, <1>9, <1>10, <1>11, <1>12,
     <1>13, <1>14 DEF TimerNext, Isr
-----------------------------------------------------------------------------
(***************************************************************************)
(* With which event a timer calls back.                                    *)
(***************************************************************************)

\* What the calls of a step can be: one at most, with an id of the list.
LEMMA CallInStep ==
  ASSUME TimerTypeOK, Bounded, TaskBody \/ \E c \in Calls : CallBack(c)
  PROVE  /\ \A s \in Slots :
              /\ Untouched(s) \/ Rearmed(s) \/ Toggled(s) \/ Freed(s)
              /\ list'[s].is_used /\ ~list[s].is_used => Rearmed(s)
         /\ UNCHANGED <<isr, i, flag>>
<1>1. PICK c \in Calls : /\ Body(c) /\ (c.op # "create" => c.id \in Slots)
                         /\ UNCHANGED <<isr, i, flag>>
  <2>1. CASE TaskBody
    BY <2>1 DEF TaskBody, Bounded, TimerTypeOK, hw, handler
  <2>2. ASSUME NEW c \in Calls, CallBack(c)
        PROVE  /\ Body(c) /\ (c.op # "create" => c.id \in Slots)
               /\ UNCHANGED <<isr, i, flag>>
    BY <2>2 DEF CallBack, handler
  <2> QED
    BY <2>1, <2>2
<1>2. ASSUME NEW s \in Slots PROVE Untouched(s) \/ Rearmed(s) \/ Toggled(s) \/ Freed(s)
  BY <1>1, BodyEffect
<1> QED
  BY <1>1, <1>2 DEF Untouched, Toggled, Freed

\* The walk of the interrupt comes to every slot once.
LEMMA WalkOn ==
  ASSUME NEW s \in Slots, i \in Slots, isr # "idle", On, UNCHANGED flag
  PROVE  Pending(s)' = IF s = i THEN Pending(s) - 1 ELSE Pending(s)
BY DEF Pending, On, Slots

LEMMA NextInTime ==
  ASSUME TimerTypeOK, Bounded, InTime, [TimerNext]_tmvars
  PROVE  InTime'
<1> USE DEF hw, handler, task, log
<1> SUFFICES ASSUME NEW s \in Slots, list'[s].is_used, ~Ending(s)'
             PROVE  NotEarly(s)' /\ NotLate(s)'
  BY DEF InTime
<1>1. /\ list[s].init_ms \in Int /\ list[s].remaining_ms \in Int
      /\ armed[s].ms \in Int /\ armed[s].extra \in Int /\ armed[s].missed \in Int
      /\ Pending(s) \in Nat /\ s \in Int /\ i \in Int /\ i \in Slots
  <2>1. list[s] \in Timer /\ armed[s] \in Histories /\ i \in Slots
    BY DEF TimerTypeOK, Histories
  <2> QED
    BY <2>1 DEF Timer, Timeouts, Histories, Pending, Slots
<1>2. list[s].is_used /\ ~Ending(s) => NotEarly(s) /\ NotLate(s)
  BY DEF InTime
\* A step that leaves the slot alone, and takes no look at it.
<1>3. ASSUME list'[s] = list[s], armed'[s] = armed[s], ~Ending(s),
             Running(s) => Pending(s)' = Pending(s)
      PROVE  NotEarly(s)' /\ NotLate(s)'
  BY <1>2, <1>3 DEF NotEarly, NotLate, Running, Scans
<1>4. CASE TaskBody \/ \E c \in Calls : CallBack(c)
  <2>1. /\ UNCHANGED <<isr, i, flag>> /\ (~list[s].is_used => Rearmed(s))
        /\ Untouched(s) \/ Rearmed(s) \/ Toggled(s)
    BY <1>4, CallInStep DEF Freed
  <2>2. Pending(s)' = Pending(s) /\ ~Ending(s)
    BY <2>1 DEF Pending, Ending
  <2>3. isr \in {"idle", "callback"}
    BY <1>4 DEF TaskBody, CallBack
  <2>4. Stale(s) = Pending(s)
    BY <1>1, <2>2, <2>3 DEF Pending, Stale, Ahead, Ending
  <2>5. CASE Rearmed(s)
    <3>1. armed'[s].ms = 0 /\ armed'[s].extra = Pending(s) /\ armed'[s].missed = 0
      BY <2>4, <2>5 DEF Rearmed, JustArmed, Unarmed
    <3>2. list'[s] \in Timer
      BY NextTypes DEF TimerTypeOK
    <3>3. Scans(s)' = 0
      BY <2>5, <3>2 DEF Scans, Rearmed, Timer, Timeouts
    <3> QED
      BY <1>1, <2>2, <3>1, <3>3 DEF NotEarly, NotLate
  <2>6. CASE list[s].is_used /\ Untouched(s)
    BY <1>3, <2>2, <2>6 DEF Untouched
  <2>7. CASE list[s].is_used /\ Toggled(s)
    <3>1. Scans(s)' = Scans(s) /\ Scans(s) \in Int
      BY <1>1, <2>7 DEF Toggled, Scans
    <3>2. /\ Running(s) <=> ~list[s].is_paused
          /\ Running(s)' <=> ~list'[s].is_paused
      BY <2>7 DEF Running
    <3>3. NotEarly(s) /\ NotLate(s)
      BY <1>2, <2>2, <2>7
    <3>4. CASE list[s].is_paused /\ ~list'[s].is_paused /\ armed'[s] = Restored(s)
      <4>1. /\ armed'[s].ms = armed[s].ms /\ armed'[s].missed = armed[s].missed
            /\ armed'[s].extra = armed[s].extra + Pending(s)
        BY <2>4, <3>4 DEF Restored, TimerTypeOK
      <4> QED
        BY <1>1, <2>2, <3>1, <3>2, <3>3, <3>4, <4>1 DEF NotEarly, NotLate
    <3>5. CASE ~list[s].is_paused /\ list'[s].is_paused /\ armed'[s] = Paused(s)
      <4>1. /\ armed'[s].ms = armed[s].ms /\ armed'[s].extra = armed[s].extra
            /\ armed'[s].missed = armed[s].missed + Pending(s)
        BY <2>4, <3>5 DEF Paused, TimerTypeOK
      <4> QED
        BY <1>1, <2>2, <3>1, <3>2, <3>3, <3>5, <4>1 DEF NotEarly, NotLate
    <3>6. CASE list'[s].is_paused = list[s].is_paused /\ armed'[s] = armed[s]
      BY <2>2, <3>1, <3>2, <3>3, <3>6 DEF NotEarly, NotLate
    <3> QED
      BY <2>7, <3>4, <3>5, <3>6 DEF Toggled
  <2> QED
    BY <2>1, <2>5, <2>6, <2>7
<1>5. CASE UNCHANGED <<list, armed, isr, i, flag>>
  BY <1>3, <1>5 DEF Ending, Pending
<1>6. CASE Compare
  <2>1. /\ UNCHANGED <<list, isr, i>> /\ flag'
        /\ armed'[s] = IF Running(s) /\ ~flag
                       THEN [armed[s] EXCEPT !.ms = @ + 1] ELSE armed[s]
    BY <1>6 DEF Compare
  <2>2. /\ Pending(s)' = IF flag THEN Pending(s) ELSE Pending(s) + 1
        /\ Running(s)' = Running(s) /\ Scans(s)' = Scans(s) /\ ~Ending(s)
    BY <2>1 DEF Pending, Running, Scans, Ending
  <2>3. /\ armed'[s].extra = armed[s].extra /\ armed'[s].missed = armed[s].missed
        /\ armed'[s].ms = IF Running(s) /\ ~flag THEN armed[s].ms + 1 ELSE armed[s].ms
    BY <2>1 DEF TimerTypeOK
  <2>4. NotEarly(s) /\ NotLate(s) /\ Scans(s) \in Int
    BY <1>1, <1>2, <2>1, <2>2 DEF Scans
  <2> QED
    BY <1>1, <2>2, <2>3, <2>4 DEF NotEarly, NotLate
<1>7. CASE Enter
  <2>1. /\ UNCHANGED <<list, armed>> /\ isr = "idle" /\ isr' = "look"
        /\ flag /\ ~flag' /\ i' = 0 /\ 0 <= s
    BY <1>7 DEF Enter, Slots
  <2>2. Pending(s)' = Pending(s) /\ ~Ending(s)
    BY <2>1 DEF Pending, Ending
  <2> QED
    BY <1>3, <2>1, <2>2
<1>8. CASE Skip
  <2>1. UNCHANGED <<list, armed, flag>> /\ isr = "look" /\ On /\ ~Running(i)
    BY <1>8 DEF Skip
  <2> QED
    BY <1>1, <1>3, <2>1, WalkOn DEF Ending
<1>9. CASE CountDown
  <2>1. UNCHANGED <<armed, flag>> /\ isr = "look" /\ On /\ Running(i)
    BY <1>9 DEF CountDown
  <2>2. Pending(s)' = (IF s = i THEN Pending(s) - 1 ELSE Pending(s)) /\ ~Ending(s)
    BY <1>1, <2>1, WalkOn DEF Ending
  <2>3. CASE s # i
    <3>1. list'[s] = list[s]
      BY <1>9, <2>3 DEF CountDown, TimerTypeOK
    <3> QED
      BY <1>3, <2>1, <2>2, <2>3, <3>1
  <2>4. CASE s = i
    <3>1. list'[s] = [list[s] EXCEPT !.remaining_ms = @ - 1] /\ list[s] \in Timer
      BY <1>9, <2>4 DEF CountDown, TimerTypeOK
    <3>2. Scans(s)' = Scans(s) + 1 /\ Scans(s) \in Int /\ Running(s)' = Running(s)
      BY <1>1, <3>1 DEF Scans, Running, Timer
    <3>3. NotEarly(s) /\ NotLate(s) /\ Running(s)
      BY <1>2, <2>1, <2>2, <2>4 DEF Running
    <3> QED
      BY <1>1, <2>1, <2>2, <2>4, <3>2, <3>3 DEF NotEarly, NotLate
  <2> QED
    BY <2>3, <2>4
<1>10. CASE Fire
  <2>1. UNCHANGED <<list, armed, flag, i>> /\ isr = "look" /\ isr' = "callback"
    BY <1>10 DEF Fire
  <2> QED
    BY <1>3, <2>1 DEF Pending, Ending
<1>11. CASE AfterCallback
  <2>1. UNCHANGED flag /\ isr = "callback" /\ On
    BY <1>11 DEF AfterCallback
  <2>2. Pending(s)' = IF s = i THEN Pending(s) - 1 ELSE Pending(s)
    BY <1>1, <2>1, WalkOn
  <2>3. CASE s = i
    <3>1. /\ list'[s] = [list[s] EXCEPT !.remaining_ms = list[s].init_ms]
          /\ armed'[s] = JustArmed(s, TRUE)
      <4>1. list[i].auto_restart
        BY <1>11, <2>3 DEF AfterCallback, TimerTypeOK, Timer
      <4>2. /\ list' = [list EXCEPT ![i].remaining_ms = list[i].init_ms]
            /\ armed' = [armed EXCEPT ![i] = JustArmed(i, TRUE)]
        BY <1>11, <4>1 DEF AfterCallback
      <4> QED
        BY <2>3, <4>2 DEF TimerTypeOK
    <3>2. armed'[s].ms = 0 /\ armed'[s].extra = Stale(s) /\ armed'[s].missed = 0
      BY <3>1 DEF JustArmed, Unarmed
    <3>3. list[s] \in Timer
      BY DEF TimerTypeOK
    <3>4. Scans(s)' = 0
      BY <1>1, <3>1, <3>3 DEF Scans, Timer
    <3>5. Pending(s)' = Stale(s) /\ Stale(s) \in Nat
      BY <1>1, <2>1, <2>2, <2>3 DEF Pending, Stale, Ahead
    <3> QED
      BY <3>2, <3>4, <3>5 DEF NotEarly, NotLate
  <2>4. CASE s # i
    <3>1. armed'[s] = armed[s] /\ list'[s] = list[s] /\ ~Ending(s)
      BY <1>11, <2>4 DEF AfterCallback, TimerTypeOK, Ending
    <3> QED
      BY <1>3, <2>2, <2>4, <3>1
  <2> QED
    BY <2>3, <2>4
<1>12. CASE ReInit
  BY <1>12 DEF ReInit, Cleared
<1> QED
  BY <1>4, <1>5, <1>6, <1>7, <1>8, <1>9, <1>10, <1>11, <1>12
  DEF TimerNext, Isr, Mask, Unmask, Deinit, Begin, tmvars
-----------------------------------------------------------------------------
(***************************************************************************)
(* A call meets the timer it is meant for.                                 *)
(***************************************************************************)
LEMMA NextTaskKnows ==
  ASSUME TimerTypeOK, Bounded, TaskKnows, [TimerNext]_tmvars
  PROVE  TaskKnows'
<1> USE DEF hw, handler, task, log
<1> SUFFICES ASSUME ~irqShares' PROVE HeldIsThere' /\ EndingIsNotHeld' /\ CallIsMeant'
  BY DEF TaskKnows
<1>0. HeldIsThere /\ EndingIsNotHeld /\ CallIsMeant
  BY DEF TaskKnows, TimerNext, Isr, Compare, Enter, Skip, CountDown, Fire, AfterCallback,
    Mask, TaskBody, Unmask, ReInit, Deinit, Begin, CallBack, tmvars
<1>1. CASE UNCHANGED <<list, gen, held>> /\ isr' # "callback"
           /\ (UNCHANGED <<at, call, meant>> \/ Mask \/ Unmask)
  BY <1>0, <1>1 DEF HeldIsThere, EndingIsNotHeld, CallIsMeant, Mask, Unmask
<1>2. CASE Compare
  BY <1>0, <1>2 DEF Compare, HeldIsThere, EndingIsNotHeld, CallIsMeant
<1>3. CASE CountDown
  <2>1. \A s \in Slots : list'[s].is_used = list[s].is_used
    BY <1>3 DEF CountDown, TimerTypeOK, Timer
  <2>2. isr' # "callback" /\ UNCHANGED <<gen, held, at, call, meant>>
    BY <1>3, OnStays DEF CountDown, TimerTypeOK
  <2> QED
    BY <1>0, <2>1, <2>2 DEF HeldIsThere, EndingIsNotHeld, CallIsMeant, Bounded
<1>4. CASE Fire
  <2>1. /\ held' \subseteq held
        /\ ~list[i].auto_restart => \A h \in held' : h.id # i \/ h.gen # gen[i]
    BY <1>4 DEF Fire
  <2>2. i \in Slots
    BY DEF TimerTypeOK
  <2>3. UNCHANGED <<list, i, gen, at, call, meant>> /\ isr' = "callback"
    BY <1>4 DEF Fire
  <2>4. HeldIsThere'
    BY <1>0, <2>1, <2>3 DEF HeldIsThere
  <2>5. EndingIsNotHeld'
    <3> SUFFICES ASSUME ~list[i].auto_restart, NEW h \in held', h.id = i
                 PROVE  FALSE
      BY <2>3 DEF EndingIsNotHeld
    <3>1. gen[i] = h.gen
      BY <1>0, <2>1, <2>2 DEF HeldIsThere
    <3> QED
      BY <2>1, <3>1
  <2>6. CallIsMeant'
    BY <1>0, <2>3 DEF CallIsMeant
  <2> QED
    BY <2>4, <2>5, <2>6
<1>5. CASE AfterCallback
  <2>1. \A s \in Slots : list'[s].is_used =
          (list[s].is_used /\ (s = i => list[i].auto_restart))
    <3>1. list \in [Slots -> Timer] /\ i \in Slots
      BY DEF TimerTypeOK
    <3>2. list[i] \in Timer
      BY <3>1
    <3>3. list'[i] = IF list[i].auto_restart
                     THEN [list[i] EXCEPT !.remaining_ms = list[i].init_ms]
                     ELSE [list[i] EXCEPT !.is_used = FALSE]
      BY <1>5, <3>1 DEF AfterCallback
    <3>4. list'[i].is_used = (list[i].is_used /\ list[i].auto_restart)
      BY <3>2, <3>3 DEF Timer
    <3>5. \A s \in Slots \ {i} : list'[s] = list[s]
      BY <1>5, <3>1 DEF AfterCallback
    <3> QED
      BY <3>1, <3>2, <3>4, <3>5 DEF Timer
  <2>2. isr' # "callback" /\ UNCHANGED <<gen, held, at, call, meant>> /\ isr = "callback"
    BY <1>5, OnStays DEF AfterCallback, TimerTypeOK
  <2>3. HeldIsThere'
    <3> SUFFICES ASSUME NEW h \in held, h.id \in Slots
                 PROVE  list'[h.id].is_used /\ gen'[h.id] = h.gen
      BY <2>2 DEF HeldIsThere
    <3>1. list[h.id].is_used /\ gen[h.id] = h.gen
      BY <1>0 DEF HeldIsThere
    <3>2. h.id = i => list[i].auto_restart
      BY <1>0, <2>2 DEF EndingIsNotHeld
    <3> QED
      BY <2>1, <2>2, <3>1, <3>2
  <2>4. EndingIsNotHeld'
    BY <2>2 DEF EndingIsNotHeld
  <2>5. CallIsMeant'
    BY <1>0, <2>1, <2>2 DEF CallIsMeant, Bounded
  <2> QED
    BY <2>3, <2>4, <2>5
<1>6. CASE TaskBody
  <2>1. /\ call \in Calls /\ (call.op # "create" => call.id \in Slots) /\ Body(call)
        /\ isr' = "idle" /\ at' = "unmask"
    BY <1>6 DEF TaskBody, TimerTypeOK, Bounded
  <2>2. \A s \in Slots :
          /\ Untouched(s) \/ Rearmed(s) \/ Toggled(s) \/ Freed(s)
          /\ Freed(s) => call.op = "destroy" /\ call.id = s
          /\ list'[s].is_used /\ ~list[s].is_used => call.op = "create" /\ SlotForNew = s
    BY <2>1, BodyEffect
  <2> SUFFICES ASSUME NEW h \in held', h.id \in Slots
               PROVE  list'[h.id].is_used /\ gen'[h.id] = h.gen
    BY <2>1 DEF HeldIsThere, EndingIsNotHeld, CallIsMeant
  <2>3. CASE h \in held
    <3>1. list[h.id].is_used /\ gen[h.id] = h.gen
      BY <1>0, <2>3 DEF HeldIsThere
    <3>2. ~Freed(h.id)
      BY <1>6, <2>2 DEF TaskBody
    <3> QED
      BY <2>2, <3>1, <3>2 DEF Untouched, Rearmed, Toggled
  <2>4. CASE h \notin held
    <3>1. call.op = "create" /\ h = Handle(SlotForNew)
      BY <1>6, <2>4 DEF TaskBody
    <3>2. h.id = SlotForNew /\ SlotForNew # -1 /\ h.gen = gen[h.id] + 1
      BY <3>1 DEF Handle, Slots
    <3>3. ~list[h.id].is_used
      BY <3>2, SlotForNewIsFree
    <3>4. Create(call)
      BY <2>1, <3>1 DEF Body
    <3> QED
      BY <3>2, <3>3, <3>4 DEF Create, TimerTypeOK
  <2> QED
    BY <2>3, <2>4
<1>7. ASSUME NEW c \in Calls, CallBack(c)
      PROVE  HeldIsThere' /\ EndingIsNotHeld' /\ CallIsMeant'
  <2>1. /\ c.op \notin {"create", "destroy"} /\ c.id \in Slots /\ Body(c)
        /\ UNCHANGED <<held, at, call, meant, isr, i>>
    BY <1>7 DEF CallBack
  <2>2. \A s \in Slots :
          /\ Untouched(s) \/ Rearmed(s) \/ Toggled(s) \/ Freed(s)
          /\ ~Freed(s) /\ ~(list'[s].is_used /\ ~list[s].is_used)
          /\ list'[s].auto_restart = list[s].auto_restart
    BY <2>1, BodyEffect
  <2>3. \A s \in Slots : (list'[s].is_used <=> list[s].is_used) /\ gen'[s] = gen[s]
    BY <2>2 DEF Untouched, Rearmed, Toggled
  <2> QED
    BY <1>0, <2>1, <2>2, <2>3
    DEF HeldIsThere, EndingIsNotHeld, CallIsMeant, Bounded, TimerTypeOK
<1>8. CASE ReInit
  BY <1>0, <1>8 DEF ReInit, HeldIsThere, EndingIsNotHeld, CallIsMeant
<1>9. ASSUME NEW c \in Calls, Begin(c)
      PROVE  HeldIsThere' /\ EndingIsNotHeld' /\ CallIsMeant'
  <2>1. HeldIsThere' /\ EndingIsNotHeld'
    BY <1>0, <1>9 DEF Begin, HeldIsThere, EndingIsNotHeld
  <2>2. ASSUME at' \in {"mask", "body"}, call'.op # "create" PROVE gen'[call'.id] = meant'
    <3>1. call' = c /\ c.op # "create" /\ ~(c.id < 0) /\ UNCHANGED gen
      BY <1>9, <2>2 DEF Begin
    <3>2. PICK h \in held : h.id = c.id /\ meant' = h.gen
      BY <1>9, <3>1 DEF Begin
    <3>3. c.id \in Slots \cup {-1}
      BY <3>1 DEF Calls
    <3>4. c.id \in Slots
      BY <3>1, <3>3
    <3> QED
      BY <1>0, <3>1, <3>2, <3>4 DEF HeldIsThere
  <2> QED
    BY <2>1, <2>2 DEF CallIsMeant
<1>10. CASE UNCHANGED tmvars
  BY <1>0, <1>10 DEF tmvars, HeldIsThere, EndingIsNotHeld, CallIsMeant
<1>11. CASE Enter \/ Skip \/ Mask \/ Unmask \/ Deinit
  <2>1. isr' # "callback" /\ UNCHANGED <<list, gen, held>>
    BY <1>11, OnStays DEF Enter, Skip, Mask, Unmask, Deinit, TimerTypeOK
  <2> QED
    BY <1>1, <1>11, <2>1 DEF Enter, Skip, Deinit
<1> QED
  BY <1>2, <1>3, <1>4, <1>5, <1>6, <1>7, <1>8, <1>9, <1>10, <1>11
  DEF TimerNext, Isr
-----------------------------------------------------------------------------
(***************************************************************************)
(* The theorems.                                                           *)
(***************************************************************************)
LEMMA InitInv == TimerInit => TimerInv
BY InitTypes DEF TimerInit, TimerInv, InTime, Cleared,
  TaskKnows, HeldIsThere, EndingIsNotHeld, CallIsMeant

LEMMA NextInv == TimerInv /\ [TimerNext]_tmvars => TimerInv'
BY NextTypes, NextInTime, NextTaskKnows DEF TimerInv

LEMMA TimerInvariant == TimerSpec => []TimerInv
BY InitInv, NextInv, PTL DEF TimerSpec

\* Every variable stays within its type. That the histories do rests on how
\* much a call and a walk can add to them.
THEOREM TypesHold == TimerSpec => []TimerTypeOK
<1>1. TimerInv => TimerTypeOK
  BY DEF TimerInv
<1> QED
  BY <1>1, TimerInvariant, PTL

\* A call of the task meets the timer it is meant for or an unused slot, as
\* long as no callback creates or destroys timers.
THEOREM CallsMeet == TimerSpec => []CallsMeetTheirTimer
<1>1. TimerInv => CallsMeetTheirTimer
  BY DEF TimerInv, TaskKnows, CallIsMeant, CallsMeetTheirTimer
<1> QED
  BY <1>1, TimerInvariant, PTL

\* A timer calls back with the event of number timeout_ms + 1, sooner only by
\* events that were pending when it was armed or restored, and later only by
\* those that were pending when it was paused.
THEOREM OnTime == TimerSpec => FiresOnTime
<1>1. ASSUME TimerInv, [TimerNext]_tmvars, isr = "look", isr' = "callback"
      PROVE  /\ Passed(i) + armed[i].extra >= list[i].init_ms + 1
             /\ Passed(i) <= list[i].init_ms + 1 + armed[i].missed
  <2>1. TimerTypeOK /\ InTime
    BY <1>1 DEF TimerInv
  <2>2. Running(i) /\ list[i].remaining_ms = 0
    <3>1. Skip \/ CountDown \/ AfterCallback => isr' # "callback"
      BY <2>1, OnStays DEF Skip, CountDown, AfterCallback, TimerTypeOK
    <3>2. Fire
      BY <1>1, <3>1 DEF TimerNext, Isr, Compare, Enter, Mask, TaskBody, Unmask, ReInit,
        Deinit, Begin, CallBack, tmvars, hw, handler, task, log
    <3> QED
      BY <3>2 DEF Fire, Due
  <2>3. i \in Slots /\ list[i] \in Timer /\ armed[i] \in Histories
    BY <2>1 DEF TimerTypeOK, Histories
  <2>4. NotEarly(i) /\ NotLate(i)
    BY <1>1, <2>1, <2>2, <2>3 DEF InTime, Running, Ending
  <2>5. /\ list[i].init_ms \in Int /\ armed[i].ms \in Int /\ armed[i].extra \in Int
        /\ armed[i].missed \in Int /\ i \in Int
    BY <2>3 DEF Timer, Timeouts, Histories, Slots
  <2>6. Scans(i) = list[i].init_ms
    BY <2>2, <2>5 DEF Scans
  <2>7. Pending(i) = (IF flag THEN 1 ELSE 0) + 1
    BY <1>1, <2>5 DEF Pending
  <2> QED
    BY <2>2, <2>4, <2>5, <2>6, <2>7 DEF NotEarly, NotLate, Passed
<1>2. TimerInv /\ [TimerNext]_tmvars => [FiresOnTimeStep]_tmvars
  BY <1>1 DEF FiresOnTimeStep, Calling
<1> QED
  BY <1>2, TimerInvariant, PTL DEF TimerSpec, FiresOnTime
=============================================================================
