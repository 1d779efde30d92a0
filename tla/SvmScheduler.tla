---------------------------- MODULE SvmScheduler ----------------------------
(***************************************************************************)
(* The SVM plugin as the threads that share one SVM_handler:               *)
(*                                                                         *)
(*   - the Qt thread, which runs handle_incoming_svm_task for one HTTP     *)
(*     request after the other (src/svm_plugin/svm_plugin.cpp);            *)
(*   - the management thread, which polls task_list and starts workers     *)
(*     (management_task, src/svm_plugin/tasks.h);                          *)
(*   - one detached worker thread per started task (worker_task).          *)
(*                                                                         *)
(* A step is what happens under one acquisition of a mutex, or one access  *)
(* to shared data made without a mutex.  Two accesses are unprotected in   *)
(* the code and are given steps of their own: get_task_list_length reads   *)
(* the deque while a push_back may be in progress, and SVM_Task::full is   *)
(* written by the Qt thread while the management thread reads it.          *)
(***************************************************************************)
EXTENDS Integers, Sequences, FiniteSets

CONSTANTS
    TaskIds,     \* the task_id values that clients send
    Parts,       \* the parts a task is assembled from, one *_set flag each
    Parms,       \* the part that creates the working context ("parms")
    Settings,    \* the parts stored without a context: alg_parms, environment
    MaxWorkers,  \* worker_num of the constructor; svm_plugin() passes 1
    MaxRounds,   \* bound on global_rounds
    MaxTasks     \* bound on the SVM_Task objects ever constructed

ASSUME PartsAssumption == Parms \in Parts /\ Settings \subseteq Parts \ {Parms}
ASSUME IdsAssumption == TaskIds # {}
ASSUME BoundsAssumption ==
    MaxWorkers \in Nat \ {0} /\ MaxRounds \in Nat /\ MaxTasks \in Nat

VARIABLES
    created,        \* how many SVM_Task objects exist; object o is the o-th one
    id,             \* SVM_Task::id
    got,            \* the *_set flags of the object that are true
    full,           \* SVM_Task::full
    task_list,      \* SVM_handler::task_list
    qtPc, qtId, qtPart, qtObj,       \* the request the Qt thread is serving
    mgmtPc, new_task,                \* the management thread
    running_worker_thread_amount,
    worker,         \* control state of the worker thread of each object
    rounds,         \* global rounds the worker still has to do
    recrypt_tasks,  \* keys of SVM_handler::recrypt_tasks
    put,            \* the recrypt request of each worker, as it travels
    crash           \* "no", or the access with undefined behaviour

taskVars   == <<created, id, got, full>>
qtVars     == <<qtPc, qtId, qtPart, qtObj>>
mgmtVars   == <<mgmtPc, new_task>>
workerVars == <<worker, rounds, recrypt_tasks, put>>
vars == <<taskVars, task_list, qtVars, mgmtVars,
          running_worker_thread_amount, workerVars, crash>>

Objs == 1..MaxTasks

\* The objects that are in the deque.
Listed == {task_list[k] : k \in 1..Len(task_list)}

\* Threads that entered worker_task and have not decremented the counter yet.
LiveWorkers == {o \in Objs : worker[o] \in {"running", "waiting", "finishing"}}

\* task_list_lock is held across more than one step only by add_task.
ListLockFree == qtPc # "adding"

Init ==
    /\ created = 0
    /\ id = [o \in Objs |-> CHOOSE i \in TaskIds : TRUE]  \* until o is created
    /\ got = [o \in Objs |-> {}]
    /\ full = [o \in Objs |-> FALSE]
    /\ task_list = <<>>
    /\ qtPc = "idle" /\ qtId = CHOOSE i \in TaskIds : TRUE
    /\ qtPart = Parms /\ qtObj = 0
    /\ mgmtPc = "length" /\ new_task = 0
    /\ running_worker_thread_amount = 0
    /\ worker = [o \in Objs |-> "none"]
    /\ rounds = [o \in Objs |-> 0]
    /\ recrypt_tasks = {}
    /\ put = [o \in Objs |-> "none"]
    /\ crash = "no"

-----------------------------------------------------------------------------
(* The Qt thread *)

\* Mutant: the search stops after the first task.
task_known_FrontOnly(i) == task_list # <<>> /\ id[task_list[1]] = i

\* task_known: some listed task has this id.
task_known(i) == \E o \in Listed : id[o] = i

\* A request POST /svm/svm_task for part p of task i arrives; the lookup
\* task_known takes and releases task_list_lock.
ReceiveRequest(i, p) ==
    /\ qtPc = "idle"
    /\ task_known(i) \/ created < MaxTasks
    /\ qtPc' = IF task_known(i) THEN "lookup" ELSE "add"
    /\ qtId' = i
    /\ qtPart' = p
    /\ UNCHANGED <<qtObj, taskVars, task_list, mgmtVars,
                   running_worker_thread_amount, workerVars, crash>>

\* Mutant: the search is forgotten.
get_svm_task_Front(i) == task_list[1]

\* The first listed task with the id, and otherwise the front one.
get_svm_task(i) ==
    LET hits == {k \in 1..Len(task_list) : id[task_list[k]] = i}
    IN  IF hits = {} THEN task_list[1]
        ELSE task_list[CHOOSE k \in hits : \A m \in hits : k <= m]

\* get_svm_task under a second acquisition of the lock.  On an empty deque
\* task_list[0] is undefined behaviour.
LookUp ==
    /\ qtPc = "lookup"
    /\ IF task_list = <<>>
         THEN /\ crash' = "lookup"
              /\ UNCHANGED <<qtPc, qtObj>>
         ELSE /\ qtObj' = get_svm_task(qtId)
              /\ qtPc' = "apply"
              /\ UNCHANGED crash
    /\ UNCHANGED <<qtId, qtPart, taskVars, task_list, mgmtVars,
                   running_worker_thread_amount, workerVars>>

\* Mutant: the pointer is used without constructing the object.
BeginAddTask_NotConstructed ==
    /\ qtPc = "add"
    /\ qtObj' = created + 1
    /\ qtPc' = "adding"
    /\ UNCHANGED <<taskVars, qtId, qtPart, task_list, mgmtVars,
                   running_worker_thread_amount, workerVars, crash>>

\* The constructor of SVM_Task, then add_task takes the lock and begins to push.
BeginAddTask ==
    /\ qtPc = "add"
    /\ created' = created + 1
    /\ id' = [id EXCEPT ![created + 1] = qtId]
    /\ qtObj' = created + 1
    /\ qtPc' = "adding"
    /\ UNCHANGED <<got, full, qtId, qtPart, task_list, mgmtVars,
                   running_worker_thread_amount, workerVars, crash>>

\* Mutant: push_front.
EndAddTask_Front ==
    /\ qtPc = "adding"
    /\ task_list' = <<qtObj>> \o task_list
    /\ qtPc' = "apply"
    /\ UNCHANGED <<qtId, qtPart, qtObj, taskVars, mgmtVars,
                   running_worker_thread_amount, workerVars, crash>>

\* push_back is complete and the lock is released.
EndAddTask ==
    /\ qtPc = "adding"
    /\ task_list' = Append(task_list, qtObj)
    /\ qtPc' = "apply"
    /\ UNCHANGED <<qtId, qtPart, qtObj, taskVars, mgmtVars,
                   running_worker_thread_amount, workerVars, crash>>

\* handle_sub_key and the first half of the set_ function it calls: the part is
\* loaded and its flag set.  A part that needs the context is dropped while
\* there is none, and any part that is parsed is dropped if parsing throws.
StorePart ==
    /\ qtPc = "apply"
    /\ \/ /\ qtPart \in Settings \cup {Parms} \/ Parms \in got[qtObj]
          /\ got' = [got EXCEPT ![qtObj] = @ \cup {qtPart}]
          /\ qtPc' = "full_check"
       \/ /\ qtPart \notin Settings
          /\ qtPc' = "idle"
          /\ UNCHANGED got
    /\ UNCHANGED <<created, id, full, qtId, qtPart, qtObj, task_list, mgmtVars,
                   running_worker_thread_amount, workerVars, crash>>

\* Mutant: alg_parms_set and environment_set are left out of the conjunction.
FullCheck_NoSettings ==
    /\ qtPc = "full_check"
    /\ full' = [full EXCEPT ![qtObj] = (got[qtObj] \cup Settings = Parts)]
    /\ qtPc' = "idle"
    /\ UNCHANGED <<created, id, got, qtId, qtPart, qtObj, task_list, mgmtVars,
                   running_worker_thread_amount, workerVars, crash>>

\* The second half: full = full_check(), without a lock.
FullCheck ==
    /\ qtPc = "full_check"
    /\ full' = [full EXCEPT ![qtObj] = (got[qtObj] = Parts)]
    /\ qtPc' = "idle"
    /\ UNCHANGED <<created, id, got, qtId, qtPart, qtObj, task_list, mgmtVars,
                   running_worker_thread_amount, workerVars, crash>>

-----------------------------------------------------------------------------
(* The management thread *)

\* get_task_list_length takes no lock: while a push is in progress the size it
\* computes from the deque's two iterators may be anything.
ReadLength ==
    /\ mgmtPc = "length"
    /\ \/ (task_list # <<>> \/ ~ListLockFree) /\ mgmtPc' = "counter"
       \/ (task_list = <<>> \/ ~ListLockFree) /\ mgmtPc' = "length"
    /\ UNCHANGED <<new_task, taskVars, task_list, qtVars,
                   running_worker_thread_amount, workerVars, crash>>

\* Mutant: <= for <.
ReadCounter_OffByOne ==
    /\ mgmtPc = "counter"
    /\ mgmtPc' = IF running_worker_thread_amount <= MaxWorkers
                   THEN "front" ELSE "length"
    /\ UNCHANGED <<new_task, taskVars, task_list, qtVars,
                   running_worker_thread_amount, workerVars, crash>>

ReadCounter ==
    /\ mgmtPc = "counter"
    /\ mgmtPc' = IF running_worker_thread_amount < MaxWorkers
                   THEN "front" ELSE "length"
    /\ UNCHANGED <<new_task, taskVars, task_list, qtVars,
                   running_worker_thread_amount, workerVars, crash>>

\* Mutant: frontaltaskcomplete without its lock_guard.
FrontalTaskComplete_Unlocked ==
    /\ mgmtPc = "front"
    /\ IF task_list = <<>>
         THEN crash' = "front" /\ UNCHANGED mgmtPc
         ELSE /\ mgmtPc' = IF full[Head(task_list)] THEN "remove" ELSE "length"
              /\ UNCHANGED crash
    /\ UNCHANGED <<new_task, taskVars, task_list, qtVars,
                   running_worker_thread_amount, workerVars>>

\* Mutant: any complete task in the list will do.
FrontalTaskComplete_Any ==
    /\ mgmtPc = "front"
    /\ ListLockFree
    /\ mgmtPc' = IF \E o \in Listed : full[o] THEN "remove" ELSE "length"
    /\ UNCHANGED <<new_task, taskVars, task_list, qtVars, crash,
                   running_worker_thread_amount, workerVars>>

\* frontaltaskcomplete reads task_list[0]->full under the lock.
FrontalTaskComplete ==
    /\ mgmtPc = "front"
    /\ ListLockFree
    /\ IF task_list = <<>>
         THEN crash' = "front" /\ UNCHANGED mgmtPc
         ELSE /\ mgmtPc' = IF full[Head(task_list)] THEN "remove" ELSE "length"
              /\ UNCHANGED crash
    /\ UNCHANGED <<new_task, taskVars, task_list, qtVars,
                   running_worker_thread_amount, workerVars>>

\* Mutant: front() without pop_front().
RemoveTask_NoPop ==
    /\ mgmtPc = "remove"
    /\ ListLockFree
    /\ new_task' = Head(task_list)
    /\ mgmtPc' = "spawn"
    /\ UNCHANGED <<task_list, taskVars, qtVars, running_worker_thread_amount,
                   workerVars, crash>>

\* remove_task: a second acquisition of the lock.
RemoveTask ==
    /\ mgmtPc = "remove"
    /\ ListLockFree
    /\ IF task_list = <<>>
         THEN crash' = "remove" /\ UNCHANGED <<mgmtPc, new_task, task_list>>
         ELSE /\ new_task' = Head(task_list)
              /\ task_list' = Tail(task_list)
              /\ mgmtPc' = "spawn"
              /\ UNCHANGED crash
    /\ UNCHANGED <<taskVars, qtVars, running_worker_thread_amount, workerVars>>

\* The detached worker runs from here on; the counter does not know it yet.
\* The global_rounds it will read is whatever the alg_parms part carried.
SpawnWorker ==
    /\ mgmtPc = "spawn"
    /\ worker' = [worker EXCEPT ![new_task] = "running"]
    /\ \E n \in 0..MaxRounds : rounds' = [rounds EXCEPT ![new_task] = n]
    /\ mgmtPc' = "increment"
    /\ UNCHANGED <<new_task, taskVars, task_list, qtVars, put, recrypt_tasks,
                   running_worker_thread_amount, crash>>

IncrementThreadCounter ==
    /\ mgmtPc = "increment"
    /\ running_worker_thread_amount' = running_worker_thread_amount + 1
    /\ mgmtPc' = "length"
    /\ UNCHANGED <<new_task, taskVars, task_list, qtVars, workerVars, crash>>

-----------------------------------------------------------------------------
(* A worker thread *)

\* One global round: gradientdecent_v4, then recrypt emits do_put_blocking,
\* which the Qt thread receives through its event queue.
AskRecrypt(o) ==
    /\ worker[o] = "running"
    /\ rounds[o] > 0
    /\ worker' = [worker EXCEPT ![o] = "waiting"]
    /\ put' = [put EXCEPT ![o] = "queued"]
    /\ UNCHANGED <<rounds, recrypt_tasks, taskVars, task_list, qtVars, mgmtVars,
                   running_worker_thread_amount, crash>>

\* One turn of the waiting loop: recrypt_task_done looks the worker up in the
\* map; when it is there get_task takes the entry out and the round ends.
PollRecrypt(o) ==
    /\ worker[o] = "waiting"
    /\ IF o \in recrypt_tasks
         THEN /\ recrypt_tasks' = recrypt_tasks \ {o}
              /\ worker' = [worker EXCEPT ![o] = "running"]
              /\ rounds' = [rounds EXCEPT ![o] = @ - 1]
              /\ put' = [put EXCEPT ![o] = "none"]
         ELSE UNCHANGED workerVars
    /\ UNCHANGED <<taskVars, task_list, qtVars, mgmtVars,
                   running_worker_thread_amount, crash>>

\* All rounds are done, or something in the round threw and was caught.
LeaveLoop(o) ==
    /\ worker[o] = "running"
    /\ worker' = [worker EXCEPT ![o] = "finishing"]
    /\ UNCHANGED <<rounds, recrypt_tasks, put, taskVars, task_list, qtVars,
                   mgmtVars, running_worker_thread_amount, crash>>

\* Mutant: the counter is kept from becoming negative.
DecrementThreadCounter_Floor(o) ==
    /\ worker[o] = "finishing"
    /\ worker' = [worker EXCEPT ![o] = "done"]
    /\ running_worker_thread_amount' =
           IF running_worker_thread_amount > 0
             THEN running_worker_thread_amount - 1 ELSE 0
    /\ UNCHANGED <<rounds, recrypt_tasks, put, taskVars, task_list, qtVars,
                   mgmtVars, crash>>

\* Mutant: a worker that threw returns without decrementing.
DecrementThreadCounter_Lost(o) ==
    /\ worker[o] = "finishing"
    /\ worker' = [worker EXCEPT ![o] = "done"]
    /\ running_worker_thread_amount' =
           running_worker_thread_amount - (IF rounds[o] = 0 THEN 1 ELSE 0)
    /\ UNCHANGED <<rounds, recrypt_tasks, put, taskVars, task_list, qtVars,
                   mgmtVars, crash>>

DecrementThreadCounter(o) ==
    /\ worker[o] = "finishing"
    /\ worker' = [worker EXCEPT ![o] = "done"]
    /\ running_worker_thread_amount' = running_worker_thread_amount - 1
    /\ UNCHANGED <<rounds, recrypt_tasks, put, taskVars, task_list, qtVars,
                   mgmtVars, crash>>

-----------------------------------------------------------------------------
(* The recrypt exchange with the client *)

\* put_blocking in the Qt thread; its result is not looked at, so a client that
\* cannot be reached goes unnoticed.
DeliverPut(o) ==
    /\ qtPc = "idle"
    /\ put[o] = "queued"
    /\ \E outcome \in {"sent", "lost"} : put' = [put EXCEPT ![o] = outcome]
    /\ UNCHANGED <<worker, rounds, recrypt_tasks, taskVars, task_list, qtVars,
                   mgmtVars, running_worker_thread_amount, crash>>

\* The client answers with POST /svm/recrypt_task; handle_incoming_recrypt_task
\* logs the body and stores nothing.
handle_incoming_recrypt_task(o) ==
    /\ qtPc = "idle"
    /\ put[o] = "sent"
    /\ put' = [put EXCEPT ![o] = "answered"]
    /\ UNCHANGED <<worker, rounds, recrypt_tasks, taskVars, task_list, qtVars,
                   mgmtVars, running_worker_thread_amount, crash>>

-----------------------------------------------------------------------------
QtStep == LookUp \/ BeginAddTask \/ EndAddTask \/ StorePart \/ FullCheck

MgmtStep == \/ ReadLength \/ ReadCounter \/ FrontalTaskComplete
            \/ RemoveTask \/ SpawnWorker \/ IncrementThreadCounter

WorkerStep(o) == \/ AskRecrypt(o) \/ PollRecrypt(o)
                 \/ LeaveLoop(o) \/ DecrementThreadCounter(o)

ClientStep(o) == DeliverPut(o) \/ handle_incoming_recrypt_task(o)

Running ==
    /\ crash = "no"
    /\ \/ \E i \in TaskIds, p \in Parts : ReceiveRequest(i, p)
       \/ QtStep
       \/ MgmtStep
       \/ \E o \in Objs : WorkerStep(o) \/ ClientStep(o)

\* After undefined behaviour nothing more is said of the process.
Crashed == crash # "no" /\ UNCHANGED vars

Next == Running \/ Crashed

Spec == Init /\ [][Next]_vars

\* Every thread is scheduled by the operating system, and the Qt thread serves
\* the events queued for it in order, whatever requests come in between (hence
\* strong fairness); clients need not send anything.
Fairness ==
    /\ WF_vars(crash = "no" /\ QtStep)
    /\ WF_vars(crash = "no" /\ MgmtStep)
    /\ \A o \in Objs : WF_vars(crash = "no" /\ WorkerStep(o))
    /\ \A o \in Objs : SF_vars(crash = "no" /\ DeliverPut(o))

FairSpec == Spec /\ Fairness

\* In addition every client that was asked answers.
AnsweringSpec ==
    FairSpec /\ \A o \in Objs :
                   SF_vars(crash = "no" /\ handle_incoming_recrypt_task(o))

-----------------------------------------------------------------------------
(* Properties *)

TypeOK ==
    /\ created \in 0..MaxTasks
    /\ id \in [Objs -> TaskIds]
    /\ got \in [Objs -> SUBSET Parts]
    /\ full \in [Objs -> BOOLEAN]
    /\ task_list \in Seq(1..created)
    /\ qtPc \in {"idle", "lookup", "add", "adding", "apply", "full_check"}
    /\ qtId \in TaskIds /\ qtPart \in Parts /\ qtObj \in 0..created
    /\ mgmtPc \in {"length", "counter", "front", "remove", "spawn", "increment"}
    /\ new_task \in 0..created
    /\ running_worker_thread_amount \in Int
    /\ worker \in [Objs -> {"none", "running", "waiting", "finishing", "done"}]
    /\ rounds \in [Objs -> 0..MaxRounds]
    /\ recrypt_tasks \subseteq Objs
    /\ put \in [Objs -> {"none", "queued", "sent", "lost", "answered"}]
    /\ crash \in {"no", "lookup", "front", "remove"}

\* The counter is the number of live workers, short of the one that the
\* management thread has started and not counted yet; so it can be -1 when that
\* worker ends first, and it never drifts.
CounterAccounts ==
    running_worker_thread_amount
        = Cardinality(LiveWorkers) - (IF mgmtPc = "increment" THEN 1 ELSE 0)

\* Never more workers than the constructor allows, although the limit is
\* tested in one critical section and the counter raised in another.
WorkersBounded == Cardinality(LiveWorkers) <= MaxWorkers

\* A worker only ever runs on a task that has every part, although `full` is
\* read without synchronisation with the thread that assembles the task.
StartedComplete == \A o \in Objs : worker[o] # "none" => got[o] = Parts

\* The management thread never touches the front of an empty deque, although
\* it decides on a length that it read without the lock.
FrontSafe == crash \notin {"front", "remove"}

\* Two listed tasks never have the same id: looking a task up and adding it are
\* two critical sections, and yet no duplicate is created.
UniqueIds ==
    \A j, k \in 1..Len(task_list) :
        id[task_list[j]] = id[task_list[k]] => j = k

\* Tasks are started in the order they were created, each at most once.
StartedInOrder ==
    \A o \in Listed : \A p \in Objs :
        worker[p] # "none" => p < o

\* A part is stored in the task of another id only if a task with the right id
\* was complete and has been taken off the list: only a part that is sent again
\* can go astray.
StrayPartsAreResent ==
    qtPc \in {"apply", "full_check"} /\ id[qtObj] # qtId =>
        \E o \in 1..created \ Listed : id[o] = qtId /\ got[o] = Parts

\* A task leaves the list from the front, complete, and into the hands of the
\* management thread: no task is dropped.
NoTaskDropped ==
    [][\A o \in Listed : o \notin Listed' =>
            /\ o = Head(task_list) /\ full[o]
            /\ new_task' = o /\ mgmtPc' = "spawn"]_vars

\* A complete task at the front is started when a slot is free.
FreeSlotIsUsed ==
    \A o \in Objs :
        (/\ task_list # <<>> /\ Head(task_list) = o /\ full[o]
         /\ mgmtPc = "length" /\ Cardinality(LiveWorkers) < MaxWorkers)
        ~> (worker[o] # "none" \/ crash # "no")

\* SvmPool seen through this state: a task the management thread has taken off
\* the list but not handed to a worker yet still counts as queued.
PoolQueue == (IF mgmtPc = "spawn" THEN <<new_task>> ELSE <<>>) \o task_list
EndedWorkers == {o \in Objs : worker[o] = "done"}

Pool == INSTANCE SvmPool WITH
    queue <- PoolQueue, active <- LiveWorkers, ended <- EndedWorkers

\* The threads of the plugin implement the task pool.
ImplementsPool == Pool!PoolSpec

Flags(o) == INSTANCE SvmTaskFlags WITH
    got <- got[o], full <- full[o], started <- worker[o] # "none"

\* Every task in the hands of the threads, listed or not, keeps to what a task
\* promises: its flags only grow and it is started once, when it is full.
TasksKeepContract ==
    /\ \A o \in Objs : Flags(o)!FlagsInit
    /\ [][\A o \in Objs : [Flags(o)!FlagsNext]_<<got[o], full[o], worker[o] # "none">>]_vars

\* The comment at svm_plugin.cpp:12 and the message "task already known": the
\* part goes into the task the request names.
RoutedToOwnTask == qtPc \in {"apply", "full_check"} => id[qtObj] = qtId

\* The comments at tasks.h:73 and tasks.h:82: a worker waits until its recrypt
\* task is finished, and the answer is then in the handler's map.
RecryptWaitEnds ==
    \A o \in Objs : (worker[o] = "waiting" /\ put[o] = "answered")
                        ~> (worker[o] # "waiting" \/ crash # "no")
=============================================================================
