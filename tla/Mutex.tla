------------------------------- MODULE Mutex --------------------------------
(* What a mutex promises: at most one task at a time is inside.            *)
EXTENDS Integers

CONSTANT Tasks

VARIABLE inside      \* the tasks between a successful lock and its unlock

MInit == inside = {}

Acquire(t) == inside = {} /\ inside' = {t}
Release(t) == inside = {t} /\ inside' = {}

MutexSpec == MInit /\ [][\E t \in Tasks : Acquire(t) \/ Release(t)]_inside
=============================================================================
