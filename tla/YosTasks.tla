------------------------------ MODULE YosTasks ------------------------------
(***************************************************************************)
(* The task table of yos.c: the states a task can be in and the three      *)
(* loops over _all_tasks that the tick handler is made of, each as one     *)
(* operator on the whole table.                                            *)
(*                                                                         *)
(* The table is a function of task identifiers 0 .. YOS_MAX_TASK_COUNT-1.  *)
(* Task 0 is the idle task: yos_init creates it first.                     *)
(***************************************************************************)
EXTENDS Integers

CONSTANT YOS_MAX_TASK_COUNT

ASSUME TaskCountAssumption == YOS_MAX_TASK_COUNT \in Nat \ {0}

Tasks  == 0 .. YOS_MAX_TASK_COUNT - 1
Idle   == 0
NoTask == -1                            \* the NULL task pointer

Status   == {"INVALID", "CREATED", "RUNNING", "WAITING", "EXITED"}
Runnable == {"CREATED", "RUNNING"}

(***************************************************************************)
(* How far ahead of task t the cyclic scan (t + 1) % N, (t + 2) % N, ...   *)
(* meets task u. The scan ends at t itself, N steps ahead.                 *)
(***************************************************************************)
Ahead(t, u) == IF u > t THEN u - t ELSE u - t + YOS_MAX_TASK_COUNT

\* Mistake: a sleeping task is taken for a runnable one.
CandidatesAsleep(cur, st) ==
  {u \in Tasks : u = cur \/ st[u] \in Runnable \cup {"WAITING"}}

\* The tasks the scan may stop at: the runnable ones and, last, its start.
Candidates(cur, st) == {u \in Tasks : u = cur \/ st[u] \in Runnable}

\* Mistake: the scan starts at task 0 and not after the current one.
FindNextLowest(cur, st) ==
  LET others == Candidates(cur, st) \ {cur} IN
  IF others = {} THEN cur
  ELSE CHOOSE u \in others : \A v \in others : u <= v

\* _find_next_task_to_run: the first candidate of the scan.
FindNext(cur, st) ==
  CHOOSE u \in Candidates(cur, st) :
    \A v \in Candidates(cur, st) : Ahead(cur, u) <= Ahead(cur, v)

\* Mistake: whatever is not runnable is taken for EXITED.
ReapAll(cur, next, st) ==
  [u \in Tasks |->
     IF /\ st[u] \notin Runnable
        /\ u # cur
        /\ Ahead(cur, u) <= Ahead(cur, next)
     THEN "INVALID" ELSE st[u]]

(***************************************************************************)
(* Its side effect: the EXITED tasks the scan passes become INVALID. (The  *)
(* handler does the same to the task found, were it EXITED.)               *)
(***************************************************************************)
Reap(cur, next, st) ==
  [u \in Tasks |->
     IF /\ st[u] = "EXITED"
        /\ u # cur
        /\ Ahead(cur, u) <= Ahead(cur, next)
     THEN "INVALID" ELSE st[u]]

\* Mistake: a countdown of 0 is decremented too.
CountDownBelow(st, bt) ==
  [t \in Tasks |-> IF st[t] = "WAITING" THEN bt[t] - 1 ELSE bt[t]]

\* _update_task_block_ticks_irq: one tick less for every waiting task ...
CountDown(st, bt) ==
  [t \in Tasks |-> IF st[t] = "WAITING" /\ bt[t] > 0 THEN bt[t] - 1 ELSE bt[t]]

\* ... and those that have none left are runnable again.
Wake(st, bt) ==
  [t \in Tasks |->
     IF st[t] = "WAITING" /\ CountDown(st, bt)[t] = 0 THEN "RUNNING" ELSE st[t]]
=============================================================================
