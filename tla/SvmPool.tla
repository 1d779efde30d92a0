------------------------------- MODULE SvmPool -------------------------------
(***************************************************************************)
(* What the SVM plugin promises a client: tasks are assembled part by      *)
(* part, queue in the order they were first mentioned, and are started one *)
(* after the other, complete, each once and never more than MaxWorkers at  *)
(* a time.  Nothing is said of threads, locks, counters or polling;        *)
(* SvmScheduler implements this specification.                             *)
(***************************************************************************)
EXTENDS Naturals, Sequences, FiniteSets

CONSTANTS
    Parts,       \* what a task is assembled from
    MaxWorkers,  \* how many tasks may run together
    MaxTasks     \* bound on the tasks ever submitted

Objs == 1..MaxTasks

VARIABLES
    queue,   \* tasks not started yet, in order of submission
    got,     \* the parts each task has received
    active,  \* tasks that are running
    ended    \* tasks that have run

poolVars == <<queue, got, active, ended>>

PoolInit ==
    /\ queue = <<>>
    /\ got = [o \in Objs |-> {}]
    /\ active = {}
    /\ ended = {}

Queued == {queue[k] : k \in 1..Len(queue)}

Submit(o) ==
    /\ o \notin Queued \cup active \cup ended
    /\ queue' = Append(queue, o)
    /\ UNCHANGED <<got, active, ended>>

\* A part may come for a task that runs already: the pool accepts it.
Receive(o, p) ==
    /\ got' = [got EXCEPT ![o] = @ \cup {p}]
    /\ UNCHANGED <<queue, active, ended>>

Start ==
    /\ queue # <<>>
    /\ got[Head(queue)] = Parts
    /\ Cardinality(active) < MaxWorkers
    /\ queue' = Tail(queue)
    /\ active' = active \cup {Head(queue)}
    /\ UNCHANGED <<got, ended>>

End(o) ==
    /\ o \in active
    /\ active' = active \ {o}
    /\ ended' = ended \cup {o}
    /\ UNCHANGED <<queue, got>>

PoolNext ==
    \/ \E o \in Objs : Submit(o) \/ End(o)
    \/ \E o \in Objs, p \in Parts : Receive(o, p)
    \/ Start

PoolSpec == PoolInit /\ [][PoolNext]_poolVars
=============================================================================
