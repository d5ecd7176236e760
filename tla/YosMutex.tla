------------------------------ MODULE YosMutex ------------------------------
(***************************************************************************)
(* ymutex.h and the ymutex functions of yos.c: one mutex, used by the      *)
(* tasks of YosKernel. Every function is its masked section, read and      *)
(* write apart, with the kernel's own steps around and between; a task     *)
(* that has to wait calls schedule() and tries again.                      *)
(***************************************************************************)
EXTENDS YosKernel

VARIABLES
  owner,     \* mutex->owner
  call,      \* the function a task is in, or was in last
  at,        \* where the task is in it
  saw        \* what its masked section read: the condition of the if

mvars   == <<owner, call, at, saw>>
allvars == <<vars, mvars>>

YMUTEX_OWNER_NONE == -1

Calls == {"lock", "try", "deinit", "unlock"}

(***************************************************************************)
(*   out, in   in no ymutex function, without or with the mutex            *)
(*   test      masked, about to read owner                                 *)
(*   set       masked, about to write it                                   *)
(*   leave     masked, about to unmask                                     *)
(*   retry     ymutex_lock, about to call schedule()                       *)
(*   again     ymutex_lock, back from schedule()                           *)
(*   clear     ymutex_deinit, has the mutex, about to set it to NONE       *)
(***************************************************************************)
Stages == {"out", "in", "test", "set", "leave", "retry", "again", "clear"}

\* ymutex_init
MutexInit ==
  /\ Init
  /\ owner = YMUTEX_OWNER_NONE
  /\ call = [t \in Tasks |-> "try"]
  /\ at = [t \in Tasks |-> "out"]
  /\ saw = [t \in Tasks |-> FALSE]

\* What a task may call: it does not lock a mutex it has, which would make it
\* wait for itself, but it may try to unlock one it does not have.
Callable(t) ==
  {c \in Calls : \/ at[t] = "out"
                 \/ at[t] = "in" /\ c = "unlock"
                 \/ at[t] = "again" /\ c = call[t]}

\* cm_disable_interrupts of ymutex_try_lock and ymutex_unlock.
EnterMutex(t) ==
  /\ EnterCritical(t)
  /\ \E c \in Callable(t) : call' = [call EXCEPT ![t] = c]
  /\ at' = [at EXCEPT ![t] = "test"]
  /\ UNCHANGED <<owner, saw>>

\* Mistake: a free mutex is taken to be one whose owner is 0.
OwnerTestZero(c) == IF c = "unlock" THEN owner = CURRENT_TASK_ID ELSE owner = 0

\* Mistake: unlock does not ask whose mutex it is.
OwnerTestAny(c) == IF c = "unlock" THEN TRUE ELSE owner < 0

\* if (mutex->owner < 0), if (mutex->owner == _CURRENT_TASK_ID)
OwnerTest(c) == IF c = "unlock" THEN owner = CURRENT_TASK_ID ELSE owner < 0

InSection(t) == OnCpu(t) /\ pc[t] = "crit" /\ UNCHANGED vars

TestOwner(t) ==
  /\ InSection(t)
  /\ at[t] = "test"
  /\ saw' = [saw EXCEPT ![t] = OwnerTest(call[t])]
  /\ at' = [at EXCEPT ![t] = "set"]
  /\ UNCHANGED <<owner, call>>

SetOwner(t) ==
  /\ InSection(t)
  /\ at[t] = "set"
  /\ owner' = IF ~saw[t] THEN owner
              ELSE IF call[t] = "unlock" THEN YMUTEX_OWNER_NONE
              ELSE CURRENT_TASK_ID
  /\ at' = [at EXCEPT ![t] = "leave"]
  /\ UNCHANGED <<call, saw>>

\* Where the function goes after its masked section.
AfterSection(c, got) ==
  IF c = "unlock" \/ (c = "try" /\ ~got) THEN "out"
  ELSE IF ~got THEN "retry"
  ELSE IF c = "deinit" THEN "clear" ELSE "in"

\* cm_enable_interrupts
LeaveMutex(t) ==
  /\ LeaveCritical(t)
  /\ at[t] = "leave"
  /\ at' = [at EXCEPT ![t] = AfterSection(call[t], saw[t])]
  /\ UNCHANGED <<owner, call, saw>>

\* The schedule() of ymutex_lock's loop.
RetryLock(t) ==
  /\ Schedule(t)
  /\ at[t] = "retry"
  /\ at' = [at EXCEPT ![t] = "again"]
  /\ UNCHANGED <<owner, call, saw>>

\* The last assignment of ymutex_deinit, made with the interrupts on.
DeinitOwner(t) ==
  /\ OnCpu(t)
  /\ pc[t] = "user"
  /\ at[t] = "clear"
  /\ owner' = YMUTEX_OWNER_NONE
  /\ at' = [at EXCEPT ![t] = "out"]
  /\ UNCHANGED <<vars, call, saw>>

MutexStep(t) ==
  \/ EnterMutex(t)
  \/ TestOwner(t)
  \/ SetOwner(t)
  \/ LeaveMutex(t)
  \/ RetryLock(t)
  \/ DeinitOwner(t)

\* What a task does outside the ymutex functions: anything, also sleep or
\* exit with the mutex.
OtherStep(t) ==
  /\ at[t] \in {"out", "in"}
  /\ \/ ShellEnter(t)
     \/ ExitTask(t)
     \/ Schedule(t)
     \/ \E ticks \in 0 .. MaxDelay : Delay(t, ticks)
  /\ UNCHANGED mvars

RescheduleStep(t) ==
  /\ CallHandler(t) \/ EnableInterrupts(t)
  /\ UNCHANGED mvars

SystemStep ==
  /\ CreateTask \/ Start \/ Exceptions
  /\ UNCHANGED mvars

MutexNext ==
  \/ SystemStep
  \/ \E t \in Tasks : MutexStep(t) \/ RescheduleStep(t) \/ OtherStep(t)

MSpec == MutexInit /\ [][MutexNext]_allvars

(***************************************************************************)
(* The kernel's fairness, and what the length of a tick gives: 10 ms are   *)
(* longer than the handlers and a switch take, so a task that gets the     *)
(* core again and again comes to execute (TimeSlice), and thousands of     *)
(* instructions long, so that it gets past any one instruction of a ymutex *)
(* function, ymutex_lock's loop included.                                  *)
(***************************************************************************)
InFunction(t) == at[t] \notin {"out", "in"}

TimeSlice ==
  \A t \in Tasks : []<>(started /\ CURRENT_TASK = t) => []<>OnCpu(t)

MutexFairness ==
  /\ WF_allvars(RaiseTick /\ UNCHANGED mvars)
  /\ WF_allvars(TakeSysTick /\ UNCHANGED mvars)
  /\ WF_allvars(TakePendSV /\ UNCHANGED mvars)
  /\ \A t \in Tasks : /\ WF_allvars(RescheduleStep(t))
                      /\ SF_allvars(InFunction(t) /\ MutexStep(t))
  /\ TimeSlice

FairMSpec == MSpec /\ MutexFairness
-----------------------------------------------------------------------------
MutexTypeOK ==
  /\ TypeOK
  /\ owner \in Tasks \cup {YMUTEX_OWNER_NONE}
  /\ call \in [Tasks -> Calls]
  /\ at \in [Tasks -> Stages]
  /\ saw \in [Tasks -> BOOLEAN]

\* The tasks that a lock or a deinit has let in.
Inside == {t \in Tasks : at[t] \in {"in", "clear"}}

(***************************************************************************)
(* owner tells the truth: a task that was let in is the owner until it     *)
(* gives the mutex up itself, whoever else calls lock, unlock, try or      *)
(* deinit meanwhile, and when nobody is inside and no masked section is    *)
(* under way the mutex is free. In particular a lock is never lost (free   *)
(* for good, or owned by a task that does not know it).                    *)
(***************************************************************************)
OwnerIsInside ==
  /\ \A t \in Inside : owner = t
  /\ ~primask /\ Inside = {} => owner = YMUTEX_OWNER_NONE

(***************************************************************************)
(* Mutual exclusion, as the implementation of an abstract mutex: a task is *)
(* let in only when nobody is inside.                                      *)
(***************************************************************************)
AbstractMutex == INSTANCE Mutex WITH inside <- Inside
ImplementsMutex == AbstractMutex!MutexSpec

(***************************************************************************)
(* Lock progress: if the mutex is free and a task waits for it, somebody   *)
(* gets it. It is not promised that the task that waits does: the others   *)
(* may take the mutex every time before it is scheduled.                   *)
(***************************************************************************)
Waiting(t) == call[t] \in {"lock", "deinit"} /\ at[t] \in {"retry", "again"}

FreeMutexIsTaken ==
  (owner = YMUTEX_OWNER_NONE /\ \E t \in Tasks : Waiting(t))
    ~> (owner # YMUTEX_OWNER_NONE)
-----------------------------------------------------------------------------
(***************************************************************************)
(* The inductive invariant: the masked part of a ymutex function and the   *)
(* kernel's masked sections are the same thing, and what the section has   *)
(* read still holds when it writes.                                        *)
(***************************************************************************)
SectionMatches(t) ==
  /\ pc[t] = "crit" <=> at[t] \in {"test", "set", "leave"}
  /\ InFunction(t) =>
       /\ pc[t] \in {"user", "crit", "handler", "enable"}
       /\ pc[t] \in {"handler", "enable"} => ret[t] = "user"

SectionsMatch == \A t \in Tasks : SectionMatches(t)

OwnerKnown ==
  \A t \in Tasks :
    owner = t <=>
      \/ at[t] \in {"in", "clear"}
      \/ at[t] = "test" /\ call[t] = "unlock" /\ owner = t
      \/ at[t] = "set" /\ call[t] = "unlock" /\ saw[t]
      \/ at[t] = "leave" /\ call[t] # "unlock" /\ saw[t]

FreeWhenSeen ==
  \A t \in Tasks :
    at[t] = "set" /\ call[t] # "unlock" /\ saw[t] => owner = YMUTEX_OWNER_NONE

MInv == Inv /\ MutexTypeOK /\ SectionsMatch /\ OwnerKnown /\ FreeWhenSeen
=============================================================================
