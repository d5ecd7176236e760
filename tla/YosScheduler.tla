---------------------------- MODULE YosScheduler ----------------------------
(***************************************************************************)
(* What the kernel promises its tasks, with no exceptions, masks, pending  *)
(* bits or contexts: one task has the core; a task that sleeps counts down *)
(* with the ticks, all of them and nothing else; whenever the core passes  *)
(* on, by a tick or because the task gives it up, it goes to the next      *)
(* ready task in the circle of identifiers.                                *)
(***************************************************************************)
EXTENDS YosTasks

CONSTANT MaxDelay

VARIABLES
  state,     \* of each task
  left,      \* ticks until a sleeping task is ready
  running    \* the task that has the core, NoTask before the start

svars == <<state, left, running>>

SInit ==
  /\ state = [t \in Tasks |-> IF t = Idle THEN "ready" ELSE "absent"]
  /\ left = [t \in Tasks |-> 0]
  /\ running = NoTask

\* The core passes from task `from` to the next ready task in the circle.
PassOn(from, s) ==
  /\ running' \in Tasks
  /\ running' = from \/ s[running'] = "ready"
  /\ \A u \in Tasks :
       s[u] = "ready" => Ahead(from, u) >= Ahead(from, running')

SCreate(t) ==
  /\ running = NoTask
  /\ state[t] = "absent"
  /\ state' = [state EXCEPT ![t] = "ready"]
  /\ UNCHANGED <<left, running>>

SStart ==
  /\ running = NoTask
  /\ PassOn(Idle, state)
  /\ UNCHANGED <<state, left>>

\* A delay of no ticks is one of one tick.
SSleep(t) ==
  /\ running = t
  /\ state[t] = "ready"
  /\ state' = [state EXCEPT ![t] = "sleeping"]
  /\ \E n \in 1 .. MaxDelay + 1 : left' = [left EXCEPT ![t] = n]
  /\ UNCHANGED running

SExit(t) ==
  /\ running = t
  /\ state[t] = "ready"
  /\ state' = [state EXCEPT ![t] = "absent"]
  /\ UNCHANGED <<left, running>>

SYield ==
  /\ running # NoTask
  /\ PassOn(running, state)
  /\ UNCHANGED <<state, left>>

\* No tick comes between a task's decision to sleep and its giving the core up.
STick ==
  /\ running # NoTask
  /\ state[running] # "sleeping"
  /\ left' = [t \in Tasks |-> IF state[t] = "sleeping" THEN left[t] - 1 ELSE 0]
  /\ state' = [t \in Tasks |-> IF state[t] = "sleeping" /\ left[t] = 1
                               THEN "ready" ELSE state[t]]
  /\ PassOn(running, state')

SNext ==
  \/ \E t \in Tasks : SCreate(t) \/ SSleep(t) \/ SExit(t)
  \/ SStart
  \/ SYield
  \/ STick

SSpec == SInit /\ [][SNext]_svars
=============================================================================
