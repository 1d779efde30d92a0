------------------------- MODULE SvmSchedulerProofs -------------------------
(***************************************************************************)
(* The safety of SvmScheduler for every number of tasks, ids, parts and    *)
(* worker slots.                                                           *)
(*                                                                         *)
(* The properties are not inductive by themselves: that a worker gets a    *)
(* complete task depends on what the management thread learnt in earlier   *)
(* critical sections still being true in the later ones.  IInv says what   *)
(* each program counter may rely on.                                       *)
(***************************************************************************)
EXTENDS SvmScheduler, FiniteSetTheorems, TLAPS

\* What the management thread learnt stays true until it acts on it: the list
\* does not become empty, and its front stays the complete task it was.
MgmtInv ==
    /\ mgmtPc \in {"counter", "front", "remove"} =>
           task_list # <<>> \/ qtPc = "adding"
    /\ mgmtPc = "remove" => task_list # <<>> /\ full[task_list[1]]
    /\ mgmtPc \in {"front", "remove", "spawn"} =>
           running_worker_thread_amount < MaxWorkers
    /\ mgmtPc = "spawn" =>
           /\ new_task \in Objs
           /\ got[new_task] = Parts /\ full[new_task]
           /\ worker[new_task] = "none"
           /\ new_task \notin Listed
    /\ crash \notin {"front", "remove"}

\* What the Qt thread holds in its local variables.
QtInv ==
    /\ qtPc \in {"adding", "apply", "full_check"} => qtObj # 0
    /\ qtPc = "adding" => /\ qtObj = created
                          /\ worker[qtObj] = "none"
                          /\ qtObj \notin Listed
                          /\ mgmtPc = "spawn" => new_task # qtObj
                          /\ id[qtObj] = qtId
    /\ qtPc \in {"add", "adding"} => \A o \in Listed : id[o] # qtId
    /\ qtPc = "add" => created < MaxTasks

\* The list is in order of creation, and what was started is older.
OrderInv ==
    /\ \A j, k \in 1..Len(task_list) : j < k => task_list[j] < task_list[k]
    /\ StartedInOrder
    /\ mgmtPc = "spawn" => /\ \A o \in Listed : new_task < o
                           /\ \A o \in Objs : worker[o] # "none" => o < new_task
    /\ \A o \in Objs : worker[o] # "none" => o <= created
    /\ qtPc = "adding" => \A o \in Objs : worker[o] # "none" => o < qtObj

\* full_check was true of what the object still has.
CompleteInv ==
    /\ \A o \in Objs : full[o] => got[o] = Parts
    /\ StartedComplete

\* A waiting worker has a round to finish.
RoundsInv == \A o \in Objs : worker[o] = "waiting" => rounds[o] > 0

CounterInv == CounterAccounts /\ WorkersBounded

\* A lookup that fails does so because the task was complete and taken off.
StrayInv ==
    /\ qtPc = "lookup" /\ (\A o \in Listed : id[o] # qtId) =>
           \E o \in 1..created \ Listed : id[o] = qtId /\ got[o] = Parts
    /\ StrayPartsAreResent

IInv == /\ TypeOK /\ MgmtInv /\ QtInv /\ OrderInv /\ CompleteInv
        /\ CounterInv /\ RoundsInv /\ UniqueIds /\ StrayInv

USE PartsAssumption, IdsAssumption, BoundsAssumption

\* A sequence over a set is a sequence over any larger set (add_task makes a
\* larger set of objects).
LEMMA SeqMonotone ==
    ASSUME NEW S, NEW T, S \subseteq T, NEW s \in Seq(S)
    PROVE  s \in Seq(T)
OBVIOUS

\* What the deque holds after push_back and after pop_front.
LEMMA AppendElements ==
    ASSUME NEW S, NEW s \in Seq(S), NEW e \in S
    PROVE  {Append(s, e)[k] : k \in 1..Len(Append(s, e))}
               = {s[k] : k \in 1..Len(s)} \cup {e}
<1> DEFINE t == Append(s, e)
<1>1. /\ Len(t) = Len(s) + 1 /\ Len(s) \in Nat
      /\ t[Len(s) + 1] = e
      /\ \A k \in 1..Len(s) : t[k] = s[k]
  OBVIOUS
<1> HIDE DEF t
<1>2. {t[k] : k \in 1..Len(t)} = {s[k] : k \in 1..Len(s)} \cup {e}
  BY <1>1
<1> QED BY <1>2 DEF t

\* The elements of a sequence are its head and those of its tail.
LEMMA TailElements ==
    ASSUME NEW S, NEW s \in Seq(S), s # <<>>
    PROVE  {s[k] : k \in 1..Len(s)}
               = {Head(s)} \cup {Tail(s)[k] : k \in 1..Len(Tail(s))}
<1> DEFINE t == Tail(s)
<1>1. /\ Len(t) = Len(s) - 1 /\ Len(s) \in Nat \ {0}
      /\ s[1] = Head(s)
      /\ \A k \in 1..Len(t) : t[k] = s[k + 1]
  OBVIOUS
<1> HIDE DEF t
<1>2. ASSUME NEW k \in 1..Len(s)
      PROVE  s[k] \in {Head(s)} \cup {t[j] : j \in 1..Len(t)}
  <2>1. CASE k = 1
    BY <1>1, <2>1
  <2>2. CASE k > 1
    <3>1. k - 1 \in 1..Len(t) /\ t[k - 1] = s[k]
      BY <1>1, <2>2
    <3> QED BY <3>1
  <2> QED BY <1>1, <2>1, <2>2
<1>3. ASSUME NEW j \in 1..Len(t)
      PROVE  t[j] \in {s[k] : k \in 1..Len(s)}
  BY <1>1
<1>4. Head(s) \in {s[k] : k \in 1..Len(s)}
  BY <1>1
<1>5. {s[k] : k \in 1..Len(s)} = {Head(s)} \cup {t[k] : k \in 1..Len(t)}
  BY <1>2, <1>3, <1>4
<1> QED BY <1>5 DEF t

\* The initial state satisfies the inductive invariant.
LEMMA InitIInv == ASSUME Init PROVE IInv
<1>1. TypeOK
  BY DEF Init, TypeOK, Objs
<1>2. Listed = {} /\ LiveWorkers = {}
  BY DEF Init, Listed, LiveWorkers, Objs
<1>3. CounterInv
  BY <1>2, FS_EmptySet DEF Init, CounterInv, CounterAccounts, WorkersBounded
<1>4. MgmtInv /\ QtInv
  BY <1>2 DEF Init, MgmtInv, QtInv, Objs
<1>5. OrderInv /\ CompleteInv /\ RoundsInv /\ UniqueIds /\ StrayInv
  BY <1>2 DEF Init, OrderInv, CompleteInv, RoundsInv, UniqueIds, StrayInv, StartedInOrder,
              StartedComplete, StrayPartsAreResent, Objs
<1> QED  BY <1>1, <1>3, <1>4, <1>5 DEF IInv

\* get_svm_task returns a listed task; the right one if there is one.
LEMMA GetSvmTask ==
    ASSUME TypeOK, UniqueIds, task_list # <<>>, NEW i \in TaskIds
    PROVE  /\ get_svm_task(i) \in Listed
           /\ task_known(i) => id[get_svm_task(i)] = i
           /\ get_svm_task(i) \in 1..created
<1>0. Listed \subseteq 1..created
  BY DEF Listed, TypeOK
<1>1. 1 \in 1..Len(task_list) /\ Len(task_list) \in Nat
  BY DEF TypeOK
<1> DEFINE hits == {k \in 1..Len(task_list) : id[task_list[k]] = i}
<1>2. CASE hits = {}
  BY <1>0, <1>1, <1>2 DEF get_svm_task, Listed, task_known
<1>3. CASE hits # {}
  <2>1. PICK h \in hits : TRUE
    BY <1>3
  <2>2. \A m \in hits : h <= m
    BY <1>1, <2>1 DEF UniqueIds
  <2>3. get_svm_task(i) = task_list[CHOOSE k \in hits : \A m \in hits : k <= m]
    BY <1>3 DEF get_svm_task
  <2>4. (CHOOSE k \in hits : \A m \in hits : k <= m) \in hits
    BY <2>1, <2>2
  <2> QED BY <1>0, <2>3, <2>4 DEF Listed
<1> QED BY <1>2, <1>3

\* Every step keeps every variable in its range.
LEMMA TypeStep == 
    ASSUME TypeOK, MgmtInv, QtInv, RoundsInv, UniqueIds, [Next]_vars PROVE TypeOK'
<1> USE DEF TypeOK, Objs
<1>1. ASSUME NEW i \in TaskIds, NEW p \in Parts, ReceiveRequest(i, p) PROVE TypeOK'
  BY <1>1 DEF ReceiveRequest, taskVars, mgmtVars, workerVars
<1>2. ASSUME LookUp PROVE TypeOK'
  <2>1. CASE task_list = <<>>
    BY <1>2, <2>1 DEF LookUp, taskVars, mgmtVars, workerVars
  <2>2. CASE task_list # <<>>
    <3>1. get_svm_task(qtId) \in 1..created
      BY <2>2, GetSvmTask
    <3> QED BY <1>2, <2>2, <3>1 DEF LookUp, taskVars, mgmtVars, workerVars
  <2> QED BY <2>1, <2>2
<1>3. ASSUME BeginAddTask PROVE TypeOK'
  <2>1. created' = created + 1 /\ created' \in 0..MaxTasks
    BY <1>3 DEF BeginAddTask, QtInv
  <2>2. task_list' \in Seq(1..created')
    BY <1>3, <2>1, SeqMonotone DEF BeginAddTask
  <2> QED BY <1>3, <2>1, <2>2 DEF BeginAddTask, mgmtVars, workerVars
<1>4. ASSUME EndAddTask PROVE TypeOK'
  <2>1. Append(task_list, qtObj) \in Seq(1..created)
    BY <1>4 DEF EndAddTask, QtInv
  <2> QED BY <1>4, <2>1 DEF EndAddTask, taskVars, mgmtVars, workerVars
<1>5. ASSUME StorePart \/ FullCheck PROVE TypeOK'
  <2>1. got \in [Objs -> SUBSET Parts] /\ qtPart \in Parts
    OBVIOUS
  <2>2. got' = got \/ got' = [got EXCEPT ![qtObj] = @ \cup {qtPart}]
    BY <1>5 DEF StorePart, FullCheck
  <2>3. full' = full \/ full' = [full EXCEPT ![qtObj] = (got[qtObj] = Parts)]
    BY <1>5 DEF StorePart, FullCheck
  <2>4. qtPc' \in {"idle", "full_check"}
    BY <1>5 DEF StorePart, FullCheck
  <2>5. UNCHANGED <<created, id, qtId, qtPart, qtObj, task_list, mgmtVars,
                    running_worker_thread_amount, workerVars, crash>>
    BY <1>5 DEF StorePart, FullCheck
  <2>6. full \in [Objs -> BOOLEAN] /\ (got[qtObj] = Parts) \in BOOLEAN
    OBVIOUS
  <2> HIDE DEF TypeOK
  <2>7. got' \in [Objs -> SUBSET Parts]
    BY <2>1, <2>2
  <2>8. full' \in [Objs -> BOOLEAN]
    BY <2>3, <2>6
  <2> QED BY <2>4, <2>5, <2>7, <2>8 DEF TypeOK, mgmtVars, workerVars
<1>6. ASSUME ReadLength \/ ReadCounter \/ FrontalTaskComplete PROVE TypeOK'
  BY <1>6 DEF ReadLength, ReadCounter, FrontalTaskComplete, taskVars, qtVars, workerVars
<1>7. ASSUME RemoveTask PROVE TypeOK'
  <2>1. CASE task_list = <<>>
    BY <1>7, <2>1 DEF RemoveTask, taskVars, qtVars, workerVars
  <2>2. CASE task_list # <<>>
    <3>1. /\ Head(task_list) \in 0..created
          /\ Tail(task_list) \in Seq(1..created)
      BY <2>2
    <3> QED BY <1>7, <2>2, <3>1 DEF RemoveTask, taskVars, qtVars, workerVars
  <2> QED BY <2>1, <2>2
<1>8. ASSUME SpawnWorker \/ IncrementThreadCounter PROVE TypeOK'
  <2>1. CASE SpawnWorker
    <3>1. PICK n \in 0..MaxRounds : rounds' = [rounds EXCEPT ![new_task] = n]
      BY <2>1 DEF SpawnWorker
    <3>2. /\ rounds' \in [Objs -> 0..MaxRounds]
          /\ worker' \in [Objs -> {"none", "running", "waiting", "finishing", "done"}]
      BY <2>1, <3>1 DEF SpawnWorker
    <3> QED BY <2>1, <3>2 DEF SpawnWorker, taskVars, qtVars
  <2>2. CASE IncrementThreadCounter
    BY <2>2 DEF IncrementThreadCounter, taskVars, qtVars, workerVars
  <2> QED BY <1>8, <2>1, <2>2
<1>9. ASSUME NEW o \in Objs, WorkerStep(o) \/ ClientStep(o) PROVE TypeOK'
  <2>1. UNCHANGED <<taskVars, task_list, qtVars, mgmtVars>>
    BY <1>9 DEF WorkerStep, ClientStep, AskRecrypt, PollRecrypt, LeaveLoop,
                DecrementThreadCounter, DeliverPut, handle_incoming_recrypt_task
  <2>2. /\ worker' \in [Objs -> {"none", "running", "waiting", "finishing", "done"}]
        /\ recrypt_tasks' \subseteq Objs
        /\ put' \in [Objs -> {"none", "queued", "sent", "lost", "answered"}]
    BY <1>9 DEF WorkerStep, ClientStep, AskRecrypt, PollRecrypt, LeaveLoop,
                DecrementThreadCounter, DeliverPut, handle_incoming_recrypt_task,
                workerVars
  <2>3. rounds' \in [Objs -> 0..MaxRounds]
    <3>1. CASE PollRecrypt(o)
      <4>1. rounds \in [Objs -> 0..MaxRounds] /\ MaxRounds \in Nat
        BY BoundsAssumption
      <4>2. worker[o] = "waiting" => rounds[o] > 0
        BY DEF RoundsInv
      <4>3. /\ worker[o] = "waiting"
            /\ rounds' = rounds \/ rounds' = [rounds EXCEPT ![o] = @ - 1]
        BY <3>1 DEF PollRecrypt, workerVars
      <4> HIDE DEF TypeOK
      <4>4. rounds[o] - 1 \in 0..MaxRounds
        BY <4>1, <4>2, <4>3
      <4> QED BY <4>1, <4>3, <4>4
    <3>2. CASE ~PollRecrypt(o)
      BY <1>9, <3>2 DEF WorkerStep, ClientStep, AskRecrypt, LeaveLoop,
                        DecrementThreadCounter, DeliverPut,
                        handle_incoming_recrypt_task
    <3> QED BY <3>1, <3>2
  <2>4. running_worker_thread_amount' \in Int /\ UNCHANGED crash
    BY <1>9 DEF WorkerStep, ClientStep, AskRecrypt, PollRecrypt, LeaveLoop,
                DecrementThreadCounter, DeliverPut, handle_incoming_recrypt_task
  <2> QED BY <2>1, <2>2, <2>3, <2>4 DEF taskVars, qtVars, mgmtVars
<1>10. ASSUME UNCHANGED vars PROVE TypeOK'
  BY <1>10 DEF vars, taskVars, qtVars, mgmtVars, workerVars
<1> QED
  BY <1>1, <1>2, <1>3, <1>4, <1>5, <1>6, <1>7, <1>8, <1>9, <1>10
     DEF Next, Running, Crashed, QtStep, MgmtStep

\* add_task adds the new object to the deque's members.
LEMMA ListedEndAdd ==
    ASSUME TypeOK, QtInv, EndAddTask
    PROVE  Listed' = Listed \cup {qtObj}
<1>1. qtObj \in 1..created
  BY DEF TypeOK, QtInv, EndAddTask
<1>2. task_list' = Append(task_list, qtObj) /\ task_list \in Seq(1..created)
  BY DEF EndAddTask, TypeOK
<1> QED BY <1>1, <1>2, AppendElements DEF Listed

\* remove_task takes the front object, and only that one, off the deque.
LEMMA ListedRemove ==
    ASSUME TypeOK, MgmtInv, OrderInv, RemoveTask
    PROVE  /\ task_list # <<>>
           /\ new_task' = Head(task_list) /\ Head(task_list) = task_list[1]
           /\ task_list' = Tail(task_list)
           /\ Listed = Listed' \cup {new_task'}
           /\ new_task' \notin Listed'
           /\ \A o \in Listed' : new_task' < o
<1>1. /\ task_list # <<>> /\ task_list \in Seq(1..created)
      /\ new_task' = Head(task_list) /\ Head(task_list) = task_list[1]
      /\ task_list' = Tail(task_list)
  BY DEF TypeOK, MgmtInv, RemoveTask
<1>2. Listed = Listed' \cup {new_task'}
  BY <1>1, TailElements DEF Listed
<1>3. ASSUME NEW o \in Listed' PROVE new_task' < o
  <2>1. PICK k \in 1..Len(task_list') : o = task_list'[k]
    BY <1>3 DEF Listed
  <2>2. k + 1 \in 1..Len(task_list) /\ o = task_list[k + 1]
    BY <1>1, <2>1
  <2>3. 1 \in 1..Len(task_list) /\ 1 < k + 1
    BY <1>1, <2>2
  <2> QED BY <1>1, <2>2, <2>3 DEF OrderInv
<1>4. new_task' \in Nat
  <2>1. Len(task_list) \in Nat \ {0} /\ created \in Nat
    BY <1>1 DEF TypeOK
  <2>2. task_list[1] \in 1..created
    BY <1>1, <2>1
  <2> QED BY <1>1, <2>1, <2>2
<1> QED BY <1>1, <1>2, <1>3, <1>4

-----------------------------------------------------------------------------
\* A step of a worker or of a client leaves the list and both threads alone,
\* and can neither start a worker nor revive one.
LEMMA WorkerFrame ==
    ASSUME TypeOK, NEW o \in Objs, WorkerStep(o) \/ ClientStep(o)
    PROVE  /\ UNCHANGED <<taskVars, task_list, qtVars, mgmtVars, crash>>
           /\ \A p \in Objs : (worker'[p] = "none") <=> (worker[p] = "none")
           /\ running_worker_thread_amount' <= running_worker_thread_amount
BY DEF WorkerStep, ClientStep, AskRecrypt, PollRecrypt, LeaveLoop, TypeOK,
       DecrementThreadCounter, DeliverPut, handle_incoming_recrypt_task, workerVars

\* What the management thread relies on is not disturbed by the other threads.
LEMMA MgmtStepInv == ASSUME IInv, [Next]_vars PROVE MgmtInv'
<1> USE DEF IInv, Objs
<1>1. ASSUME NEW i \in TaskIds, NEW p \in Parts, ReceiveRequest(i, p) PROVE MgmtInv'
  BY <1>1 DEF ReceiveRequest, MgmtInv, Listed, taskVars, mgmtVars, workerVars
<1>2. ASSUME LookUp PROVE MgmtInv'
  BY <1>2 DEF LookUp, MgmtInv, Listed, taskVars, mgmtVars, workerVars
<1>3. ASSUME BeginAddTask PROVE MgmtInv'
  BY <1>3 DEF BeginAddTask, MgmtInv, Listed, mgmtVars, workerVars
<1>4. ASSUME EndAddTask PROVE MgmtInv'
  <2>1. Listed' = Listed \cup {qtObj}
    BY <1>4, ListedEndAdd
  <2>2. mgmtPc = "spawn" => new_task # qtObj
    BY <1>4 DEF EndAddTask, QtInv
  <2>3. /\ task_list' # <<>>
        /\ task_list # <<>> => task_list'[1] = task_list[1]
    BY <1>4 DEF EndAddTask, TypeOK
  <2> QED BY <1>4, <2>1, <2>2, <2>3 DEF EndAddTask, MgmtInv, taskVars, mgmtVars, workerVars
<1>5. ASSUME StorePart \/ FullCheck PROVE MgmtInv'
  <2>1. UNCHANGED <<task_list, mgmtPc, new_task, running_worker_thread_amount,
                    worker, crash>>
    BY <1>5 DEF StorePart, FullCheck, mgmtVars, workerVars
  <2>2. ASSUME NEW o \in Objs, got[o] = Parts PROVE got'[o] = Parts
    <3>1. got \in [Objs -> SUBSET Parts] /\ qtPart \in Parts
      BY DEF TypeOK
    <3>2. got' = got \/ got' = [got EXCEPT ![qtObj] = @ \cup {qtPart}]
      BY <1>5 DEF StorePart, FullCheck
    <3> HIDE DEF IInv
    <3> QED BY <2>2, <3>1, <3>2
  <2>3. ASSUME NEW o \in Objs, full[o] PROVE full'[o]
    BY <1>5, <2>3 DEF StorePart, FullCheck, TypeOK, CompleteInv
  <2>4. qtPc # "adding"
    BY <1>5 DEF StorePart, FullCheck
  <2>5. task_list # <<>> => task_list[1] \in Objs
    BY DEF TypeOK
  <2> QED BY <2>1, <2>2, <2>3, <2>4, <2>5 DEF MgmtInv, Listed
<1>6. ASSUME ReadLength \/ ReadCounter PROVE MgmtInv'
  BY <1>6 DEF ReadLength, ReadCounter, ListLockFree, MgmtInv, Listed, taskVars,
              qtVars, workerVars
<1>7. ASSUME FrontalTaskComplete PROVE MgmtInv'
  <2>1. task_list # <<>> => Head(task_list) = task_list[1]
    BY DEF TypeOK
  <2> QED BY <1>7, <2>1 DEF FrontalTaskComplete, ListLockFree, MgmtInv, Listed,
                            taskVars, qtVars, workerVars
<1>8. ASSUME RemoveTask PROVE MgmtInv'
  <2>1. /\ task_list # <<>> /\ new_task' = task_list[1]
        /\ new_task' \notin Listed' /\ new_task' \in Listed
    BY <1>8, ListedRemove
  <2>2. new_task' \in Objs
    BY <2>1 DEF TypeOK
  <2>3. worker[new_task'] = "none"
    BY <2>1, <2>2 DEF OrderInv, StartedInOrder
  <2>4. got[new_task'] = Parts
    BY <1>8, <2>1, <2>2 DEF RemoveTask, MgmtInv, CompleteInv
  <2>5. mgmtPc' = "spawn" /\ UNCHANGED crash
    BY <1>8, <2>1 DEF RemoveTask
  <2> QED BY <1>8, <2>1, <2>2, <2>3, <2>4, <2>5
          DEF RemoveTask, MgmtInv, taskVars, qtVars, workerVars
<1>9. ASSUME SpawnWorker \/ IncrementThreadCounter PROVE MgmtInv'
  BY <1>9 DEF SpawnWorker, IncrementThreadCounter, MgmtInv, taskVars, qtVars
<1>10. ASSUME NEW o \in Objs, WorkerStep(o) \/ ClientStep(o) PROVE MgmtInv'
  <2>1. /\ UNCHANGED <<taskVars, task_list, qtVars, mgmtVars, crash>>
        /\ \A p \in Objs : (worker'[p] = "none") <=> (worker[p] = "none")
        /\ running_worker_thread_amount' <= running_worker_thread_amount
    BY <1>10, WorkerFrame
  <2>2. running_worker_thread_amount' \in Int /\ running_worker_thread_amount \in Int
    BY TypeStep DEF TypeOK
  <2>3. mgmtPc \in {"front", "remove", "spawn"} =>
            running_worker_thread_amount' < MaxWorkers
    BY <2>1, <2>2, BoundsAssumption DEF MgmtInv
  <2> QED BY <2>1, <2>3 DEF MgmtInv, Listed, taskVars, qtVars, mgmtVars
<1>11. ASSUME UNCHANGED vars PROVE MgmtInv'
  BY <1>11 DEF vars, MgmtInv, Listed, taskVars, qtVars, mgmtVars, workerVars
<1> QED
  BY <1>1, <1>2, <1>3, <1>4, <1>5, <1>6, <1>7, <1>8, <1>9, <1>10, <1>11
     DEF Next, Running, Crashed, QtStep, MgmtStep

\* What the Qt thread relies on is not disturbed by the other threads.
LEMMA QtStepInv == ASSUME IInv, [Next]_vars PROVE QtInv'
<1> USE DEF IInv, Objs
<1>1. ASSUME NEW i \in TaskIds, NEW p \in Parts, ReceiveRequest(i, p) PROVE QtInv'
  BY <1>1 DEF ReceiveRequest, QtInv, task_known, Listed, taskVars, mgmtVars, workerVars
<1>2. ASSUME LookUp PROVE QtInv'
  <2>1. ASSUME task_list # <<>> PROVE get_svm_task(qtId) \in 1..created
    <3>1. qtId \in TaskIds
      BY DEF TypeOK
    <3> QED BY <2>1, <3>1, GetSvmTask
  <2> QED BY <1>2, <2>1 DEF LookUp, QtInv, taskVars, mgmtVars, workerVars
<1>3. ASSUME BeginAddTask PROVE QtInv'
  <2>1. created + 1 \in Objs /\ created \in Nat
    BY <1>3 DEF BeginAddTask, QtInv, TypeOK
  <2>2. \A o \in Listed : o <= created /\ id'[o] = id[o]
    BY <1>3, <2>1 DEF BeginAddTask, Listed, TypeOK
  <2>3. worker[created + 1] = "none"
    BY <2>1 DEF OrderInv, TypeOK
  <2>4. id'[created + 1] = qtId
    BY <1>3, <2>1 DEF BeginAddTask, TypeOK
  <2>5. new_task <= created
    BY <2>1 DEF TypeOK
  <2>6. \A o \in Listed : id[o] # qtId
    BY <1>3 DEF BeginAddTask, QtInv
  <2>7. Listed' = Listed
    BY <1>3 DEF BeginAddTask, Listed
  <2> QED BY <1>3, <2>1, <2>2, <2>3, <2>4, <2>5, <2>6, <2>7
          DEF BeginAddTask, QtInv, mgmtVars, workerVars
<1>4. ASSUME EndAddTask PROVE QtInv'
  BY <1>4 DEF EndAddTask, QtInv, taskVars, mgmtVars, workerVars
<1>5. ASSUME StorePart \/ FullCheck PROVE QtInv'
  BY <1>5 DEF StorePart, FullCheck, QtInv, Listed, mgmtVars, workerVars
<1>6. ASSUME ReadLength \/ ReadCounter \/ FrontalTaskComplete PROVE QtInv'
  BY <1>6 DEF ReadLength, ReadCounter, FrontalTaskComplete, QtInv, Listed,
              taskVars, qtVars, workerVars
<1>7. ASSUME RemoveTask PROVE QtInv'
  <2>1. Listed' \subseteq Listed /\ qtPc # "adding"
    BY <1>7, ListedRemove DEF RemoveTask, ListLockFree
  <2> QED BY <1>7, <2>1 DEF RemoveTask, QtInv, taskVars, qtVars, workerVars
<1>8. ASSUME SpawnWorker \/ IncrementThreadCounter PROVE QtInv'
  <2>1. UNCHANGED <<taskVars, task_list, qtVars>> /\ mgmtPc' # "spawn"
    BY <1>8 DEF SpawnWorker, IncrementThreadCounter
  <2>2. qtPc = "adding" => worker'[qtObj] = worker[qtObj]
    BY <1>8 DEF SpawnWorker, IncrementThreadCounter, QtInv, workerVars, TypeOK
  <2> QED BY <2>1, <2>2 DEF QtInv, Listed, taskVars, qtVars
<1>9. ASSUME NEW o \in Objs, WorkerStep(o) \/ ClientStep(o) PROVE QtInv'
  <2>1. qtPc = "adding" => qtObj \in Objs
    BY DEF TypeOK, QtInv
  <2> QED BY <1>9, <2>1, WorkerFrame DEF QtInv, Listed, taskVars, qtVars, mgmtVars
<1>10. ASSUME UNCHANGED vars PROVE QtInv'
  BY <1>10 DEF vars, QtInv, Listed, taskVars, qtVars, mgmtVars, workerVars
<1> QED
  BY <1>1, <1>2, <1>3, <1>4, <1>5, <1>6, <1>7, <1>8, <1>9, <1>10
     DEF Next, Running, Crashed, QtStep, MgmtStep

\* A part stored in a task is never lost again, and a complete task stays so.
LEMMA CompleteStays ==
    ASSUME TypeOK, CompleteInv, [Next]_vars, NEW o \in Objs
    PROVE  /\ got[o] = Parts => got'[o] = Parts
           /\ full'[o] => got'[o] = Parts
<1>1. /\ got \in [Objs -> SUBSET Parts] /\ full \in [Objs -> BOOLEAN]
      /\ qtPart \in Parts
      /\ full[o] => got[o] = Parts
  BY DEF TypeOK, CompleteInv
<1>2. CASE StorePart
  BY <1>1, <1>2 DEF StorePart
<1>3. CASE FullCheck
  BY <1>1, <1>3 DEF FullCheck
<1>4. CASE ~StorePart /\ ~FullCheck
  <2>1. UNCHANGED <<got, full>>
    BY <1>4, WorkerFrame
       DEF Next, Running, Crashed, QtStep, MgmtStep, ReceiveRequest, LookUp,
           BeginAddTask, EndAddTask, ReadLength, ReadCounter,
           FrontalTaskComplete, RemoveTask, SpawnWorker,
           IncrementThreadCounter, vars, taskVars
  <2> QED BY <1>1, <2>1
<1> QED BY <1>2, <1>3, <1>4

\* Which workers exist changes only when the management thread starts one.
LEMMA StartFrame ==
    ASSUME TypeOK, [Next]_vars
    PROVE  \/ SpawnWorker
           \/ \A p \in Objs : (worker'[p] = "none") <=> (worker[p] = "none")
<1>1. CASE \E o \in Objs : WorkerStep(o) \/ ClientStep(o)
  BY <1>1, WorkerFrame
<1>2. CASE ~\E o \in Objs : WorkerStep(o) \/ ClientStep(o)
  BY <1>2 DEF Next, Running, Crashed, QtStep, MgmtStep, ReceiveRequest, LookUp,
           BeginAddTask, EndAddTask, StorePart, FullCheck, ReadLength, ReadCounter,
           FrontalTaskComplete, RemoveTask, IncrementThreadCounter, vars, workerVars
<1> QED BY <1>1, <1>2

\* A worker is only started on a complete task, and completeness is not lost.
LEMMA CompleteStepInv == ASSUME IInv, [Next]_vars PROVE CompleteInv'
<1>1. ASSUME NEW o \in Objs, worker'[o] # "none" PROVE got'[o] = Parts
  <2>1. CASE worker[o] # "none"
    BY <2>1, CompleteStays DEF IInv, CompleteInv, StartedComplete
  <2>2. CASE worker[o] = "none"
    <3>1. SpawnWorker
      BY <1>1, <2>2, StartFrame DEF IInv
    <3>2. o = new_task /\ got[o] = Parts
      BY <1>1, <2>2, <3>1 DEF SpawnWorker, IInv, MgmtInv, TypeOK
    <3> QED BY <3>2, CompleteStays DEF IInv
  <2> QED BY <2>1, <2>2
<1> QED BY <1>1, CompleteStays DEF IInv, CompleteInv, StartedComplete, Objs

\* A step that is not EndAddTask or RemoveTask leaves the deque alone, and one
\* that is not BeginAddTask the objects and their ids.
LEMMA ListFrame ==
    ASSUME TypeOK, [Next]_vars
    PROVE  /\ EndAddTask \/ RemoveTask \/ UNCHANGED task_list
           /\ BeginAddTask \/ UNCHANGED <<created, id>>
<1>1. CASE \E o \in Objs : WorkerStep(o) \/ ClientStep(o)
  BY <1>1, WorkerFrame DEF taskVars
<1>2. CASE ~\E o \in Objs : WorkerStep(o) \/ ClientStep(o)
  BY <1>2 DEF Next, Running, Crashed, QtStep, MgmtStep, ReceiveRequest, LookUp,
           BeginAddTask, EndAddTask, StorePart, FullCheck, ReadLength, ReadCounter,
           FrontalTaskComplete, RemoveTask, SpawnWorker, IncrementThreadCounter,
           vars, taskVars
<1> QED BY <1>1, <1>2

\* Only RemoveTask hands the management thread a task, only BeginAddTask takes
\* the lock for a push, only a request or a lookup changes what is looked up.
LEMMA ThreadFrame ==
    ASSUME TypeOK, [Next]_vars
    PROVE  /\ RemoveTask \/ (mgmtPc' = "spawn" =>
                                mgmtPc = "spawn" /\ new_task' = new_task)
           /\ BeginAddTask \/ (qtPc' = "adding" =>
                                qtPc = "adding" /\ qtObj' = qtObj)
           /\ \/ \E i \in TaskIds, p \in Parts : ReceiveRequest(i, p)
              \/ qtPc' = "lookup" => qtPc = "lookup" /\ qtId' = qtId
           /\ \/ LookUp \/ EndAddTask
              \/ qtPc' \in {"apply", "full_check"} =>
                    qtPc \in {"apply", "full_check"} /\ qtObj' = qtObj /\ qtId' = qtId
<1>1. CASE \E o \in Objs : WorkerStep(o) \/ ClientStep(o)
  BY <1>1, WorkerFrame DEF qtVars, mgmtVars
<1>2. CASE ~\E o \in Objs : WorkerStep(o) \/ ClientStep(o)
  BY <1>2 DEF Next, Running, Crashed, QtStep, MgmtStep, ReceiveRequest, LookUp,
           BeginAddTask, EndAddTask, StorePart, FullCheck, ReadLength, ReadCounter,
           FrontalTaskComplete, RemoveTask, SpawnWorker, IncrementThreadCounter,
           vars, qtVars, mgmtVars
<1> QED BY <1>1, <1>2

\* Ids in the list stay unique.
LEMMA UniqueStepInv == ASSUME IInv, [Next]_vars PROVE UniqueIds'
<1> USE DEF IInv
<1>0. /\ task_list \in Seq(1..created) /\ created \in Nat /\ created <= MaxTasks
      /\ id \in [Objs -> TaskIds]
  BY DEF TypeOK
<1>1. CASE EndAddTask
  <2>1. /\ task_list' = Append(task_list, qtObj) /\ id' = id
        /\ id[qtObj] = qtId /\ \A o \in Listed : id[o] # qtId
        /\ qtObj \in 1..created
    BY <1>1 DEF EndAddTask, QtInv, taskVars, TypeOK
  <2>2. /\ Len(task_list') = Len(task_list) + 1 /\ Len(task_list) \in Nat
        /\ task_list'[Len(task_list) + 1] = qtObj
        /\ \A k \in 1..Len(task_list) : task_list'[k] = task_list[k]
    BY <1>0, <2>1
  <2>3. \A k \in 1..Len(task_list) : id[task_list[k]] # qtId
    BY <2>1 DEF Listed
  <2> QED BY <2>1, <2>2, <2>3 DEF UniqueIds
<1>2. CASE RemoveTask
  <2>1. /\ task_list # <<>> /\ task_list' = Tail(task_list) /\ id' = id
    BY <1>2, ListedRemove DEF RemoveTask, taskVars
  <2>2. /\ Len(task_list') = Len(task_list) - 1 /\ Len(task_list) \in Nat
        /\ \A k \in 1..Len(task_list') : task_list'[k] = task_list[k + 1]
    BY <1>0, <2>1
  <2> QED BY <2>1, <2>2 DEF UniqueIds
<1>3. CASE BeginAddTask
  <2>1. task_list' = task_list /\ \A o \in 1..created : id'[o] = id[o]
    BY <1>0, <1>3 DEF BeginAddTask, Objs
  <2>2. \A k \in 1..Len(task_list) : id'[task_list'[k]] = id[task_list[k]]
    BY <1>0, <2>1
  <2> QED BY <2>1, <2>2 DEF UniqueIds
<1>4. CASE UNCHANGED <<task_list, id>>
  BY <1>4 DEF UniqueIds
<1> QED BY <1>1, <1>2, <1>3, <1>4, ListFrame

\* The list stays in order of creation, behind everything that was started.
LEMMA OrderStepInv == ASSUME IInv, [Next]_vars PROVE OrderInv'
<1> USE DEF IInv
<1>0. /\ task_list \in Seq(1..created) /\ created \in Nat /\ created <= MaxTasks
      /\ Listed \subseteq 1..created
      /\ Objs \subseteq Nat /\ 1..created \subseteq Objs
  BY DEF TypeOK, Listed, Objs
<1>1. CASE EndAddTask
  <2>1. /\ task_list' = Append(task_list, qtObj)
        /\ qtObj = created /\ qtObj \in 1..created /\ qtObj \notin Listed
        /\ mgmtPc = "spawn" => new_task # qtObj
        /\ UNCHANGED <<mgmtPc, new_task, worker, created>> /\ qtPc' # "adding"
        /\ \A o \in Objs : worker[o] # "none" => o < qtObj
    BY <1>1 DEF EndAddTask, QtInv, OrderInv, taskVars, mgmtVars, workerVars, TypeOK
  <2>2. /\ Len(task_list') = Len(task_list) + 1 /\ Len(task_list) \in Nat
        /\ task_list'[Len(task_list) + 1] = qtObj
        /\ \A k \in 1..Len(task_list) : /\ task_list'[k] = task_list[k]
                                       /\ task_list[k] < qtObj
    BY <1>0, <2>1 DEF Listed
  <2>3. Listed' = Listed \cup {qtObj}
    BY <1>1, ListedEndAdd
  <2>4. mgmtPc = "spawn" => new_task < qtObj
    BY <1>0, <2>1 DEF TypeOK
  <2>5. \A j, k \in 1..Len(task_list') : j < k => task_list'[j] < task_list'[k]
    BY <2>2 DEF OrderInv
  <2>6. StartedInOrder'
    BY <2>1, <2>3 DEF OrderInv, StartedInOrder
  <2> QED BY <2>1, <2>3, <2>4, <2>5, <2>6 DEF OrderInv
<1>2. CASE RemoveTask
  <2>1. /\ task_list # <<>> /\ task_list' = Tail(task_list)
        /\ Listed = Listed' \cup {new_task'}
        /\ \A o \in Listed' : new_task' < o
    BY <1>2, ListedRemove
  <2>2. /\ Len(task_list') = Len(task_list) - 1 /\ Len(task_list) \in Nat
        /\ \A k \in 1..Len(task_list') : task_list'[k] = task_list[k + 1]
    BY <1>0, <2>1
  <2>3. \A j, k \in 1..Len(task_list') : j < k => task_list'[j] < task_list'[k]
    BY <2>2 DEF OrderInv
  <2>4. UNCHANGED <<worker, created, qtPc, qtObj>>
    BY <1>2 DEF RemoveTask, taskVars, qtVars, workerVars
  <2> QED BY <2>1, <2>3, <2>4 DEF OrderInv, StartedInOrder
<1>3. CASE BeginAddTask
  <2>1. /\ UNCHANGED <<task_list, mgmtPc, new_task, worker>>
        /\ created' = created + 1 /\ qtObj' = created + 1
    BY <1>3 DEF BeginAddTask, mgmtVars, workerVars
  <2> QED BY <1>0, <2>1 DEF OrderInv, StartedInOrder, Listed
<1>4. CASE SpawnWorker
  <2>1. /\ UNCHANGED <<task_list, created, qtPc, qtObj>> /\ mgmtPc' # "spawn"
        /\ mgmtPc = "spawn" /\ new_task \in 1..created
        /\ qtPc = "adding" => new_task < qtObj
        /\ \A o \in Objs : o # new_task => worker'[o] = worker[o]
    BY <1>4 DEF SpawnWorker, taskVars, qtVars, TypeOK, MgmtInv, QtInv, Objs
  <2>2. Listed' = Listed
    BY <2>1 DEF Listed
  <2>3. \A o \in Objs : worker'[o] # "none" => worker[o] # "none" \/ o = new_task
    BY <2>1
  <2>4. \A o \in Listed : new_task < o
    BY <2>1 DEF OrderInv
  <2>5. StartedInOrder'
    BY <2>2, <2>3, <2>4 DEF OrderInv, StartedInOrder
  <2>6. \A o \in Objs : worker'[o] # "none" => o <= created
    BY <1>0, <2>1, <2>3 DEF OrderInv
  <2>7. qtPc = "adding" => \A o \in Objs : worker'[o] # "none" => o < qtObj
    BY <2>1, <2>3 DEF OrderInv
  <2> QED BY <2>1, <2>5, <2>6, <2>7 DEF OrderInv
<1>5. CASE ~EndAddTask /\ ~RemoveTask /\ ~BeginAddTask /\ ~SpawnWorker
  <2>1. /\ UNCHANGED <<task_list, created>>
        /\ \A p \in Objs : (worker'[p] = "none") <=> (worker[p] = "none")
    BY <1>5, ListFrame, StartFrame
  <2>2. mgmtPc' = "spawn" => mgmtPc = "spawn" /\ new_task' = new_task
    BY <1>5, ThreadFrame
  <2>3. qtPc' = "adding" => qtPc = "adding" /\ qtObj' = qtObj
    BY <1>5, ThreadFrame
  <2>4. Listed' = Listed
    BY <2>1 DEF Listed
  <2> QED BY <2>1, <2>2, <2>3, <2>4 DEF OrderInv, StartedInOrder
<1> QED BY <1>1, <1>2, <1>3, <1>4, <1>5

\* A waiting worker has not used up its rounds.
LEMMA RoundsStepInv == ASSUME IInv, [Next]_vars PROVE RoundsInv'
<1>1. ASSUME NEW o \in Objs, WorkerStep(o) \/ ClientStep(o) PROVE RoundsInv'
  BY <1>1 DEF WorkerStep, ClientStep, AskRecrypt, PollRecrypt, LeaveLoop,
              DecrementThreadCounter, DeliverPut, handle_incoming_recrypt_task,
              workerVars, RoundsInv, IInv, TypeOK
<1>2. CASE SpawnWorker
  <2>1. \A o \in Objs : o # new_task => /\ worker'[o] = worker[o]
                                        /\ rounds'[o] = rounds[o]
    BY <1>2 DEF SpawnWorker, IInv, TypeOK
  <2>2. new_task \in Objs => worker'[new_task] = "running"
    BY <1>2 DEF SpawnWorker, IInv, TypeOK
  <2> QED BY <2>1, <2>2 DEF RoundsInv, IInv
<1>3. CASE UNCHANGED <<worker, rounds>>
  BY <1>3 DEF RoundsInv, IInv
<1> QED
  BY <1>1, <1>2, <1>3 
     DEF Next, Running, Crashed, QtStep, MgmtStep, ReceiveRequest, LookUp,
         BeginAddTask, EndAddTask, StorePart, FullCheck, ReadLength, ReadCounter,
         FrontalTaskComplete, RemoveTask, IncrementThreadCounter, vars, workerVars

\* Live workers can be counted.
LEMMA LiveFinite == IsFiniteSet(LiveWorkers) /\ Cardinality(LiveWorkers) \in Nat
<1>1. IsFiniteSet(Objs)
  BY FS_Interval, BoundsAssumption DEF Objs
<1> QED BY <1>1, FS_Subset, FS_CardinalityType DEF LiveWorkers

\* The counter follows the workers, one step behind each start.
LEMMA CounterStepInv == ASSUME IInv, [Next]_vars PROVE CounterInv'
<1> USE DEF IInv
<1>0. IsFiniteSet(LiveWorkers) /\ Cardinality(LiveWorkers) \in Nat
  BY LiveFinite
<1>1. CASE SpawnWorker
  <2>1. /\ LiveWorkers' = LiveWorkers \cup {new_task} /\ new_task \notin LiveWorkers
    BY <1>1 DEF SpawnWorker, LiveWorkers, MgmtInv, TypeOK
  <2>2. Cardinality(LiveWorkers') = Cardinality(LiveWorkers) + 1
    BY <1>0, <2>1, FS_AddElement
  <2>3. /\ mgmtPc = "spawn" /\ mgmtPc' = "increment"
        /\ UNCHANGED running_worker_thread_amount
        /\ running_worker_thread_amount < MaxWorkers
    BY <1>1 DEF SpawnWorker, MgmtInv
  <2> QED BY <1>0, <2>2, <2>3, BoundsAssumption
          DEF CounterInv, CounterAccounts, WorkersBounded
<1>2. CASE IncrementThreadCounter
  <2>1. LiveWorkers' = LiveWorkers
    BY <1>2 DEF IncrementThreadCounter, LiveWorkers, workerVars
  <2> QED BY <1>0, <1>2, <2>1
          DEF IncrementThreadCounter, CounterInv, CounterAccounts, WorkersBounded
<1>3. ASSUME NEW o \in Objs, DecrementThreadCounter(o) PROVE CounterInv'
  <2>1. LiveWorkers' = LiveWorkers \ {o} /\ o \in LiveWorkers
    BY <1>3 DEF DecrementThreadCounter, LiveWorkers, TypeOK
  <2>2. Cardinality(LiveWorkers') = Cardinality(LiveWorkers) - 1
    BY <1>0, <2>1, FS_RemoveElement
  <2>3. /\ UNCHANGED mgmtPc
        /\ running_worker_thread_amount' = running_worker_thread_amount - 1
    BY <1>3 DEF DecrementThreadCounter, mgmtVars
  <2> QED BY <1>0, <2>2, <2>3, BoundsAssumption
          DEF CounterInv, CounterAccounts, WorkersBounded
<1>4. CASE /\ ~SpawnWorker /\ ~IncrementThreadCounter
           /\ ~\E o \in Objs : DecrementThreadCounter(o)
  <2>1. /\ LiveWorkers' = LiveWorkers
        /\ UNCHANGED running_worker_thread_amount
        /\ (mgmtPc' = "increment") <=> (mgmtPc = "increment")
    <3>1. ASSUME NEW o \in Objs, WorkerStep(o) \/ ClientStep(o) PROVE <2>1!:
      BY <1>4, <3>1 DEF WorkerStep, ClientStep, AskRecrypt, PollRecrypt, LeaveLoop,
              DeliverPut, handle_incoming_recrypt_task, workerVars, mgmtVars,
              LiveWorkers, TypeOK
    <3>2. CASE UNCHANGED worker
      <4>1. LiveWorkers' = LiveWorkers
        BY <3>2 DEF LiveWorkers
      <4>2. CASE ~\E o \in Objs : WorkerStep(o) \/ ClientStep(o)
        BY <1>4, <4>1, <4>2
           DEF Next, Running, Crashed, QtStep, MgmtStep, ReceiveRequest, LookUp,
               BeginAddTask, EndAddTask, StorePart, FullCheck, ReadLength,
               ReadCounter, FrontalTaskComplete, RemoveTask, vars, mgmtVars
      <4> QED BY <3>1, <4>2
    <3> QED
      BY <1>4, <3>1, <3>2
         DEF Next, Running, Crashed, QtStep, MgmtStep, ReceiveRequest, LookUp,
             BeginAddTask, EndAddTask, StorePart, FullCheck, ReadLength,
             ReadCounter, FrontalTaskComplete, RemoveTask, vars, workerVars
  <2> QED BY <2>1 DEF CounterInv, CounterAccounts, WorkersBounded
<1> QED BY <1>1, <1>2, <1>3, <1>4

\* A part goes astray only after the task it was meant for is off the list.
LEMMA StrayStepInv == ASSUME IInv, [Next]_vars PROVE StrayInv'
<1> USE DEF IInv
<1> DEFINE Gone(i) == \E o \in 1..created \ Listed : id[o] = i /\ got[o] = Parts
           GoneAfter(i) ==
               \E o \in 1..created' \ Listed' : id'[o] = i /\ got'[o] = Parts
<1>0. /\ 1..created \subseteq Objs /\ Listed \subseteq 1..created /\ qtId \in TaskIds
  BY DEF TypeOK, Listed, Objs
<1>1. ASSUME ~EndAddTask, ~BeginAddTask, NEW i, Gone(i) PROVE GoneAfter(i)
  <2>1. Listed' \subseteq Listed
    BY <1>1, ListFrame, ListedRemove DEF Listed
  <2>2. UNCHANGED <<created, id>>
    BY <1>1, ListFrame
  <2> QED BY <1>0, <1>1, <2>1, <2>2, CompleteStays
<1>2. CASE EndAddTask
  BY <1>2 DEF EndAddTask, StrayInv, StrayPartsAreResent, QtInv, taskVars
<1>3. CASE BeginAddTask
  BY <1>3 DEF BeginAddTask, StrayInv, StrayPartsAreResent
<1>4. CASE ~EndAddTask /\ ~BeginAddTask
  <2>1. ASSUME qtPc' = "lookup", \A o \in Listed' : id'[o] # qtId' PROVE GoneAfter(qtId')
    <3>1. CASE \E i \in TaskIds, p \in Parts : ReceiveRequest(i, p)
      BY <2>1, <3>1 DEF ReceiveRequest, task_known, taskVars, Listed
    <3>2. CASE qtPc = "lookup" /\ qtId' = qtId
      <4>1. CASE \A o \in Listed : id[o] # qtId
        BY <1>1, <1>4, <3>2, <4>1 DEF StrayInv
      <4>2. CASE \E o \in Listed : id[o] = qtId
        <5>1. UNCHANGED <<created, id>>
          BY <1>4, ListFrame
        <5>2. RemoveTask
          BY <1>4, <2>1, <3>2, <4>2, <5>1, ListFrame DEF Listed
        <5>3. /\ Listed = Listed' \cup {new_task'} /\ new_task' \notin Listed'
              /\ task_list # <<>> /\ new_task' = task_list[1]
          BY <5>2, ListedRemove
        <5>4. id[new_task'] = qtId
          BY <2>1, <3>2, <4>2, <5>1, <5>3
        <5>5. got[new_task'] = Parts
          BY <1>0, <5>2, <5>3 DEF RemoveTask, MgmtInv, CompleteInv
        <5> QED BY <1>0, <3>2, <5>1, <5>3, <5>4, <5>5, CompleteStays
      <4> QED BY <4>1, <4>2
    <3> QED BY <2>1, <3>1, <3>2, ThreadFrame
  <2>2. ASSUME qtPc' \in {"apply", "full_check"}, id'[qtObj'] # qtId'
        PROVE  GoneAfter(qtId')
    <3>1. CASE LookUp
      <4>1. /\ task_list # <<>> /\ qtObj' = get_svm_task(qtId) /\ qtPc = "lookup"
            /\ qtId' = qtId /\ id' = id
        BY <2>2, <3>1 DEF LookUp, taskVars
      <4>2. ~task_known(qtId)
        BY <1>0, <2>2, <4>1, GetSvmTask
      <4>3. Gone(qtId)
        BY <4>1, <4>2 DEF task_known, StrayInv
      <4> QED BY <1>1, <1>4, <4>1, <4>3
    <3>2. CASE qtPc \in {"apply", "full_check"} /\ qtObj' = qtObj /\ qtId' = qtId
      <4>1. id' = id
        BY <1>4, ListFrame
      <4>2. Gone(qtId)
        BY <2>2, <3>2, <4>1 DEF StrayInv, StrayPartsAreResent
      <4> QED BY <1>1, <1>4, <3>2, <4>2
    <3> QED BY <1>4, <2>2, <3>1, <3>2, ThreadFrame
  <2> QED BY <2>1, <2>2 DEF StrayInv, StrayPartsAreResent
<1> QED BY <1>2, <1>3, <1>4

-----------------------------------------------------------------------------
\* The inductive invariant holds in every reachable state.
THEOREM Invariance == Spec => []IInv
<1>1. Init => IInv
  BY InitIInv
<1>2. IInv /\ [Next]_vars => IInv'
  BY TypeStep, MgmtStepInv, QtStepInv, OrderStepInv, CompleteStepInv,
     CounterStepInv, RoundsStepInv, UniqueStepInv, StrayStepInv DEF IInv
<1> QED BY <1>1, <1>2, PTL DEF Spec

\* Every variable stays in its range (the constructor and the setters of
\* SVM_handler and SVM_Task, the control points of the three kinds of thread).
THEOREM TypeCorrect == Spec => []TypeOK
<1>1. IInv => TypeOK
  BY DEF IInv
<1> QED BY <1>1, Invariance, PTL

\* running_worker_thread_amount never drifts from the number of live workers:
\* each is counted once and discounted once, in whatever order.
THEOREM CounterExact == Spec => []CounterAccounts
<1>1. IInv => CounterAccounts
  BY DEF IInv, CounterInv
<1> QED BY <1>1, Invariance, PTL

\* Never more than max_worker_thread_amount workers run, although
\* management_task tests the limit before it starts the worker and raises the
\* counter after.
THEOREM WorkerLimit == Spec => []WorkersBounded
<1>1. IInv => WorkersBounded
  BY DEF IInv, CounterInv
<1> QED BY <1>1, Invariance, PTL

\* worker_task only ever receives a task that has all its parts.
THEOREM CompleteWhenStarted == Spec => []StartedComplete
<1>1. IInv => StartedComplete
  BY DEF IInv, CompleteInv
<1> QED BY <1>1, Invariance, PTL

\* frontaltaskcomplete and remove_task never see an empty deque.
THEOREM FrontAccess == Spec => []FrontSafe
<1>1. IInv => FrontSafe
  BY DEF IInv, MgmtInv, FrontSafe
<1> QED BY <1>1, Invariance, PTL

\* task_list never holds two tasks of one id.
THEOREM IdsUnique == Spec => []UniqueIds
<1>1. IInv => UniqueIds
  BY DEF IInv
<1> QED BY <1>1, Invariance, PTL

\* Tasks are started once each, in the order handle_incoming_svm_task created
\* them.
THEOREM ListDiscipline == Spec => []StartedInOrder
<1>1. IInv => StartedInOrder
  BY DEF IInv, OrderInv
<1> QED BY <1>1, Invariance, PTL

\* get_svm_task picks the task of another id only for a task that was complete
\* when it was taken off the list.
THEOREM OnlyResentPartsStray == Spec => []StrayPartsAreResent
<1>1. IInv => StrayPartsAreResent
  BY DEF IInv, StrayInv
<1> QED BY <1>1, Invariance, PTL

\* No step takes a task off the list except remove_task, which takes the
\* complete task at the front and keeps it for the worker.
THEOREM NothingDropped == Spec => NoTaskDropped
<1>1. IInv /\ [Next]_vars =>
        [\A o \in Listed : o \notin Listed' =>
            /\ o = Head(task_list) /\ full[o]
            /\ new_task' = o /\ mgmtPc' = "spawn"]_vars
  <2> SUFFICES ASSUME IInv, [Next]_vars, NEW o \in Listed, o \notin Listed'
               PROVE  /\ o = Head(task_list) /\ full[o]
                      /\ new_task' = o /\ mgmtPc' = "spawn"
    OBVIOUS
  <2>1. CASE RemoveTask
    BY <2>1, ListedRemove DEF RemoveTask, IInv, MgmtInv
  <2>2. CASE EndAddTask
    BY <2>2, ListedEndAdd DEF IInv
  <2>3. CASE UNCHANGED task_list
    BY <2>3 DEF Listed
  <2> QED BY <2>1, <2>2, <2>3, ListFrame DEF IInv
<1> QED BY <1>1, Invariance, PTL DEF Spec, NoTaskDropped

-----------------------------------------------------------------------------
(* The refinement of SvmPool *)

\* Putting one element before a sequence and appending one behind it.
LEMMA ConsAppend ==
    ASSUME NEW S, NEW s \in Seq(S), NEW h \in S, NEW e \in S
    PROVE  /\ <<h>> \o Append(s, e) = Append(<<h>> \o s, e)
           /\ <<>> \o s = s
           /\ <<h>> \o s # <<>> /\ Head(<<h>> \o s) = h /\ Tail(<<h>> \o s) = s
OBVIOUS

\* A sequence is its head followed by its tail.
LEMMA ConsTail ==
    ASSUME NEW S, NEW s \in Seq(S), s # <<>>
    PROVE  <<Head(s)>> \o Tail(s) = s
OBVIOUS

\* What the pool sees of the management thread's part of the queue.
LEMMA PoolQueueShape ==
    ASSUME TypeOK, MgmtInv
    PROVE  /\ mgmtPc # "spawn" => PoolQueue = task_list
           /\ mgmtPc = "spawn" => /\ PoolQueue = <<new_task>> \o task_list
                                 /\ PoolQueue # <<>>
                                 /\ Head(PoolQueue) = new_task
                                 /\ Tail(PoolQueue) = task_list
           /\ PoolQueue \in Seq(Objs)
<1>1. task_list \in Seq(1..created) /\ 1..created \subseteq Objs
  BY DEF TypeOK, Objs
<1>2. task_list \in Seq(Objs)
  BY <1>1, SeqMonotone
<1>3. mgmtPc = "spawn" => new_task \in Objs
  BY DEF MgmtInv
<1>4. CASE mgmtPc = "spawn"
  BY <1>2, <1>3, <1>4, ConsAppend DEF PoolQueue
<1>5. CASE mgmtPc # "spawn"
  BY <1>2, <1>5, ConsAppend DEF PoolQueue
<1> QED BY <1>4, <1>5

\* Nothing the pool sees changes in a step that is none of these.
LEMMA PoolFrame ==
    ASSUME TypeOK, [Next]_vars, ~EndAddTask, ~StorePart, ~RemoveTask, ~SpawnWorker,
           ~\E o \in Objs : DecrementThreadCounter(o)
    PROVE  UNCHANGED <<PoolQueue, got, LiveWorkers, EndedWorkers>>
<1> DEFINE Other == ~\E o \in Objs : WorkerStep(o) \/ ClientStep(o)
<1>1. /\ UNCHANGED <<task_list, got>>
      /\ (mgmtPc' = "spawn") <=> (mgmtPc = "spawn")
      /\ mgmtPc = "spawn" => new_task' = new_task
  <2>1. CASE ~Other
    BY <2>1, WorkerFrame DEF taskVars, mgmtVars
  <2>2. CASE Other
    BY <2>2 DEF Next, Running, Crashed, QtStep, MgmtStep, ReceiveRequest, LookUp,
        BeginAddTask, FullCheck, ReadLength, ReadCounter, FrontalTaskComplete,
        IncrementThreadCounter, vars, taskVars, mgmtVars
  <2> QED BY <2>1, <2>2
<1>2. \A p \in Objs : /\ (p \in LiveWorkers') <=> (p \in LiveWorkers)
                      /\ (worker'[p] = "done") <=> (worker[p] = "done")
  <2>1. ASSUME NEW o \in Objs, WorkerStep(o) \/ ClientStep(o)
        PROVE  \A p \in Objs : /\ (p \in LiveWorkers') <=> (p \in LiveWorkers)
                               /\ (worker'[p] = "done") <=> (worker[p] = "done")
    BY <2>1 DEF WorkerStep, ClientStep, AskRecrypt, PollRecrypt, LeaveLoop,
        DeliverPut, handle_incoming_recrypt_task, workerVars, LiveWorkers, TypeOK
  <2>2. CASE Other
    <3>1. UNCHANGED worker
      BY <2>2 DEF Next, Running, Crashed, QtStep, MgmtStep, ReceiveRequest, LookUp,
        BeginAddTask, FullCheck, ReadLength, ReadCounter, FrontalTaskComplete,
        IncrementThreadCounter, vars, workerVars
    <3> QED BY <3>1 DEF LiveWorkers
  <2> QED BY <2>1, <2>2
<1>3. LiveWorkers \subseteq Objs /\ LiveWorkers' \subseteq Objs
  BY DEF LiveWorkers
<1>4. LiveWorkers' = LiveWorkers
  <2>1. \A p \in Objs : p \in LiveWorkers' <=> p \in LiveWorkers
    BY <1>2
  <2> QED BY <1>3, <2>1
<1>5. EndedWorkers' = EndedWorkers
  <2>1. \A p \in Objs : (worker'[p] = "done") <=> (worker[p] = "done")
    BY <1>2
  <2> QED BY <2>1 DEF EndedWorkers
<1>6. PoolQueue' = PoolQueue
  <2>1. CASE mgmtPc = "spawn"
    BY <1>1, <2>1 DEF PoolQueue
  <2>2. CASE mgmtPc # "spawn"
    BY <1>1, <2>2 DEF PoolQueue
  <2> QED BY <2>1, <2>2
<1> QED BY <1>1, <1>4, <1>5, <1>6

\* Every step of the threads is a step of the task pool or invisible to it.
LEMMA PoolStep ==
    ASSUME IInv, IInv', [Next]_vars
    PROVE  [Pool!PoolNext]_(Pool!poolVars)
<1> USE DEF IInv
<1>0. /\ mgmtPc # "spawn" => PoolQueue = task_list
      /\ task_list \in Seq(Objs) /\ PoolQueue \in Seq(Objs)
      /\ created \in Nat /\ created <= MaxTasks /\ Objs \subseteq Nat
  <2>1. task_list \in Seq(1..created) /\ 1..created \subseteq Objs
    BY DEF TypeOK, Objs
  <2>2. task_list \in Seq(Objs)
    BY <2>1, SeqMonotone
  <2>3. created \in Nat /\ created <= MaxTasks /\ Objs \subseteq Nat
    BY DEF TypeOK, Objs
  <2> QED BY <2>2, <2>3, PoolQueueShape
<1>1. CASE EndAddTask
  <2>1. /\ task_list' = Append(task_list, qtObj) /\ qtObj \in Objs
        /\ qtObj \notin Listed /\ worker[qtObj] = "none"
        /\ mgmtPc = "spawn" => new_task # qtObj /\ new_task \in Objs
        /\ UNCHANGED <<got, mgmtPc, new_task, worker>>
    BY <1>1 DEF EndAddTask, QtInv, MgmtInv, taskVars, mgmtVars, workerVars, TypeOK, Objs
  <2>2. PoolQueue' = Append(PoolQueue, qtObj)
    BY <1>0, <2>1, ConsAppend DEF PoolQueue
  <2>3. qtObj \notin {PoolQueue[k] : k \in 1..Len(PoolQueue)}
    <3>1. CASE mgmtPc = "spawn"
      <4>1. /\ PoolQueue # <<>> /\ Head(PoolQueue) = new_task
            /\ Tail(PoolQueue) = task_list
        BY <3>1, PoolQueueShape
      <4>2. {PoolQueue[k] : k \in 1..Len(PoolQueue)} = {new_task} \cup Listed
        <5>1. {PoolQueue[k] : k \in 1..Len(PoolQueue)}
                  = {Head(PoolQueue)} \cup
                    {Tail(PoolQueue)[k] : k \in 1..Len(Tail(PoolQueue))}
          BY <1>0, <4>1, TailElements
        <5> QED BY <4>1, <5>1 DEF Listed
      <4> QED BY <2>1, <3>1, <4>2
    <3>2. CASE mgmtPc # "spawn"
      BY <1>0, <2>1, <3>2 DEF Listed
    <3> QED BY <3>1, <3>2
  <2>4. qtObj \notin LiveWorkers \cup EndedWorkers
    BY <2>1 DEF LiveWorkers, EndedWorkers
  <2>5. UNCHANGED <<got, LiveWorkers, EndedWorkers>>
    BY <2>1 DEF LiveWorkers, EndedWorkers
  <2>6. Pool!Submit(qtObj)
    BY <2>2, <2>3, <2>4, <2>5 DEF Pool!Submit, Pool!Queued
  <2> QED BY <2>1, <2>6 DEF Pool!PoolNext, Pool!Objs, Objs
<1>2. CASE StorePart
  <2>1. UNCHANGED <<PoolQueue, LiveWorkers, EndedWorkers>>
    BY <1>2 DEF StorePart, PoolQueue, LiveWorkers, EndedWorkers, mgmtVars, workerVars
  <2>2. CASE got' = got
    BY <2>1, <2>2 DEF Pool!poolVars
  <2>3. CASE got' = [got EXCEPT ![qtObj] = @ \cup {qtPart}]
    <3>1. qtObj \in Objs /\ qtPart \in Parts
      BY <1>2 DEF StorePart, QtInv, TypeOK, Objs
    <3>2. Pool!Receive(qtObj, qtPart)
      BY <2>1, <2>3 DEF Pool!Receive
    <3> QED BY <3>1, <3>2 DEF Pool!PoolNext, Pool!Objs, Objs
  <2> QED BY <1>2, <2>2, <2>3 DEF StorePart
<1>3. CASE RemoveTask
  <2>1. /\ task_list # <<>> /\ new_task' = Head(task_list)
        /\ task_list' = Tail(task_list)
    BY <1>3, ListedRemove
  <2>2. mgmtPc = "remove" /\ mgmtPc' = "spawn"
    BY <1>3, <2>1 DEF RemoveTask
  <2>3. PoolQueue' = PoolQueue
    BY <1>0, <2>1, <2>2, ConsTail DEF PoolQueue
  <2>4. UNCHANGED <<got, LiveWorkers, EndedWorkers>>
    BY <1>3 DEF RemoveTask, LiveWorkers, EndedWorkers, taskVars, workerVars
  <2> QED BY <2>3, <2>4 DEF Pool!poolVars
<1>4. CASE SpawnWorker
  <2>1. /\ mgmtPc = "spawn" /\ mgmtPc' = "increment" /\ task_list' = task_list
        /\ got' = got /\ new_task \in Objs /\ got[new_task] = Parts
        /\ worker[new_task] = "none"
        /\ worker' = [worker EXCEPT ![new_task] = "running"]
        /\ running_worker_thread_amount < MaxWorkers
    BY <1>4 DEF SpawnWorker, MgmtInv, taskVars
  <2>2. /\ PoolQueue # <<>> /\ Head(PoolQueue) = new_task
        /\ PoolQueue' = Tail(PoolQueue)
    <3>1. PoolQueue' = <<>> \o task_list
      BY <2>1 DEF PoolQueue
    <3>2. <<>> \o task_list = task_list
      BY <1>0
    <3> QED BY <2>1, <3>1, <3>2, PoolQueueShape
  <2>3. /\ LiveWorkers' = LiveWorkers \cup {new_task}
        /\ UNCHANGED EndedWorkers
    BY <2>1 DEF LiveWorkers, EndedWorkers, TypeOK
  <2>4. Cardinality(LiveWorkers) < MaxWorkers
    BY <2>1, LiveFinite DEF CounterInv, CounterAccounts
  <2>5. Pool!Cardinality(LiveWorkers) = Cardinality(LiveWorkers)
    BY DEF Pool!Cardinality, Cardinality
  <2>6. Pool!Start
    BY <2>1, <2>2, <2>3, <2>4, <2>5 DEF Pool!Start
  <2> QED BY <2>6 DEF Pool!PoolNext
<1>5. ASSUME NEW o \in Objs, DecrementThreadCounter(o)
      PROVE  Pool!PoolNext
  <2>1. /\ worker[o] = "finishing" /\ worker' = [worker EXCEPT ![o] = "done"]
        /\ UNCHANGED <<task_list, got, mgmtPc, new_task>>
    BY <1>5 DEF DecrementThreadCounter, taskVars, mgmtVars
  <2>2. /\ LiveWorkers' = LiveWorkers \ {o} /\ o \in LiveWorkers
        /\ EndedWorkers' = EndedWorkers \cup {o}
    BY <2>1 DEF LiveWorkers, EndedWorkers, TypeOK
  <2>3. Pool!End(o)
    BY <2>1, <2>2 DEF Pool!End, PoolQueue
  <2> QED BY <2>3 DEF Pool!PoolNext, Pool!Objs, Objs
<1>6. CASE /\ ~EndAddTask /\ ~StorePart /\ ~RemoveTask /\ ~SpawnWorker
           /\ ~\E o \in Objs : DecrementThreadCounter(o)
  BY <1>6, PoolFrame DEF IInv, Pool!poolVars
<1> QED BY <1>1, <1>2, <1>3, <1>4, <1>5, <1>6

\* The Qt, management and worker threads together implement the task pool.
THEOREM Refinement == Spec => ImplementsPool
<1>1. Init => Pool!PoolInit
  BY DEF Init, Pool!PoolInit, Pool!Objs, Objs, LiveWorkers, EndedWorkers, PoolQueue
<1>2. IInv /\ IInv' /\ [Next]_vars => [Pool!PoolNext]_(Pool!poolVars)
  BY PoolStep
<1> QED BY <1>1, <1>2, Invariance, PTL DEF Spec, ImplementsPool, Pool!PoolSpec

-----------------------------------------------------------------------------
(* The contract of a task *)

\* A step that leaves a task's flags and worker alone, or that only moves its
\* worker on, is none of the contract's business.
LEMMA ContractStep ==
    ASSUME IInv, [Next]_vars, NEW o \in Objs
    PROVE  [Flags(o)!FlagsNext]_<<got[o], full[o], worker[o] # "none">>
<1> USE DEF IInv, TypeOK
<1>1. CASE StorePart
  <2>1. UNCHANGED <<full, worker>>
    BY <1>1 DEF StorePart, workerVars
  <2>2. CASE UNCHANGED got
    BY <2>1, <2>2
  <2>3. CASE /\ qtPart \in Settings \cup {Parms} \/ Parms \in got[qtObj]
             /\ got' = [got EXCEPT ![qtObj] = @ \cup {qtPart}]
    <3>1. CASE o = qtObj
      <4>1. Flags(o)!SetFlag(qtPart)
        BY <2>1, <2>3, <3>1 DEF Flags!SetFlag
      <4> QED BY <4>1 DEF Flags!FlagsNext
    <3>2. CASE o # qtObj
      BY <2>1, <2>3, <3>2
    <3> QED BY <3>1, <3>2
  <2> QED BY <1>1, <2>2, <2>3 DEF StorePart
<1>2. CASE FullCheck
  <2>1. UNCHANGED <<got, worker>> /\ full' = [full EXCEPT ![qtObj] = (got[qtObj] = Parts)]
    BY <1>2 DEF FullCheck, workerVars
  <2>2. CASE o = qtObj
    <3>1. Flags(o)!full_check
      BY <2>1, <2>2 DEF Flags!full_check
    <3> QED BY <3>1 DEF Flags!FlagsNext
  <2>3. CASE o # qtObj
    BY <2>1, <2>3
  <2> QED BY <2>2, <2>3
<1>3. CASE SpawnWorker
  <2>1. /\ UNCHANGED <<got, full>>
        /\ worker' = [worker EXCEPT ![new_task] = "running"]
        /\ full[new_task] /\ worker[new_task] = "none"
    BY <1>3 DEF SpawnWorker, taskVars, MgmtInv
  <2>2. CASE o = new_task
    <3>1. Flags(o)!Start
      BY <2>1, <2>2 DEF Flags!Start
    <3> QED BY <3>1 DEF Flags!FlagsNext
  <2>3. CASE o # new_task
    BY <2>1, <2>3
  <2> QED BY <2>2, <2>3
<1>4. CASE \E q \in Objs : WorkerStep(q) \/ ClientStep(q)
  BY <1>4 DEF WorkerStep, ClientStep, AskRecrypt, PollRecrypt, LeaveLoop,
     DecrementThreadCounter, DeliverPut, handle_incoming_recrypt_task, taskVars, workerVars
<1>5. CASE \/ \E i \in TaskIds, p \in Parts : ReceiveRequest(i, p)
           \/ LookUp \/ BeginAddTask \/ EndAddTask \/ ReadLength \/ ReadCounter
           \/ FrontalTaskComplete \/ RemoveTask \/ IncrementThreadCounter
  <2>1. UNCHANGED <<got, full, worker>>
    BY <1>5 DEF ReceiveRequest, LookUp, BeginAddTask, EndAddTask, ReadLength, ReadCounter,
       FrontalTaskComplete, RemoveTask, IncrementThreadCounter, taskVars, workerVars
  <2> QED BY <2>1
<1>6. CASE UNCHANGED vars
  BY <1>6 DEF vars, taskVars, workerVars
<1> QED
  BY <1>1, <1>2, <1>3, <1>4, <1>5, <1>6 DEF Next, Running, Crashed, QtStep, MgmtStep

\* Every task the threads handle keeps to the contract of SvmTaskFlags.
THEOREM ContractKept == Spec => TasksKeepContract
<1>1. Init => \A o \in Objs : Flags(o)!FlagsInit
  BY DEF Init, Flags!FlagsInit
<1>2. IInv /\ [Next]_vars =>
        [\A o \in Objs : [Flags(o)!FlagsNext]_<<got[o], full[o], worker[o] # "none">>]_vars
  BY ContractStep
<1> QED BY <1>1, <1>2, Invariance, PTL DEF Spec, TasksKeepContract

-----------------------------------------------------------------------------
(* What follows for the pool from a client's answer being dropped *)

\* No entry is ever made in the map that a waiting worker looks itself up in.
NoAnswer == recrypt_tasks = {}

WaitingWorkers == {o \in Objs : worker[o] = "waiting"}
NoSlotLeft == Cardinality(WaitingWorkers) = MaxWorkers

LEMMA NoAnswerStep ==
    ASSUME NoAnswer, [Next]_vars
    PROVE  NoAnswer'
BY DEF NoAnswer, Next, Running, Crashed, QtStep, MgmtStep, WorkerStep, ClientStep, ReceiveRequest,
       LookUp, BeginAddTask, EndAddTask, StorePart, FullCheck, ReadLength, ReadCounter,
       FrontalTaskComplete, RemoveTask, SpawnWorker, IncrementThreadCounter, AskRecrypt,
       PollRecrypt, LeaveLoop, DecrementThreadCounter, DeliverPut,
       handle_incoming_recrypt_task, vars, workerVars

\* A worker that waits goes on waiting, whatever any thread or client does.
LEMMA WaitStep ==
    ASSUME IInv, NoAnswer, [Next]_vars, NEW o \in Objs, worker[o] = "waiting"
    PROVE  worker'[o] = "waiting"
<1>1. worker \in [Objs -> {"none", "running", "waiting", "finishing", "done"}]
  BY DEF IInv, TypeOK
<1>2. ASSUME NEW p \in Objs, WorkerStep(p) \/ ClientStep(p) PROVE worker'[o] = "waiting"
  BY <1>1, <1>2 DEF WorkerStep, ClientStep, AskRecrypt, PollRecrypt, LeaveLoop, NoAnswer,
     DecrementThreadCounter, DeliverPut, handle_incoming_recrypt_task, workerVars
<1>3. CASE SpawnWorker
  <2>1. new_task \in Objs /\ worker[new_task] = "none"
    BY <1>3 DEF SpawnWorker, IInv, MgmtInv
  <2> QED BY <1>1, <1>3, <2>1 DEF SpawnWorker
<1>4. CASE UNCHANGED worker
  BY <1>4
<1> QED
  BY <1>2, <1>3, <1>4
     DEF Next, Running, Crashed, QtStep, MgmtStep, ReceiveRequest, LookUp,
         BeginAddTask, EndAddTask, StorePart, FullCheck, ReadLength, ReadCounter,
         FrontalTaskComplete, RemoveTask, IncrementThreadCounter, vars, workerVars

\* When every slot is taken by a worker that waits, it stays so, and nothing starts.
LEMMA StallStep ==
    ASSUME IInv, IInv', NoAnswer, [Next]_vars, NoSlotLeft
    PROVE  NoSlotLeft' /\ \A o \in Objs : worker[o] = "none" => worker'[o] = "none"
<1>1. WaitingWorkers \subseteq WaitingWorkers'
  BY WaitStep DEF WaitingWorkers
<1>2. WaitingWorkers \subseteq LiveWorkers /\ (WaitingWorkers \subseteq LiveWorkers)'
  BY DEF WaitingWorkers, LiveWorkers
<1>3. /\ IsFiniteSet(LiveWorkers) /\ IsFiniteSet(LiveWorkers')
      /\ Cardinality(LiveWorkers) \in Nat /\ Cardinality(LiveWorkers') \in Nat
  <2>1. IsFiniteSet(Objs)
    BY FS_Interval, BoundsAssumption DEF Objs
  <2>2. LiveWorkers \subseteq Objs /\ LiveWorkers' \subseteq Objs
    BY DEF LiveWorkers
  <2> QED BY <2>1, <2>2, FS_Subset, FS_CardinalityType
<1>4. Cardinality(LiveWorkers) <= MaxWorkers /\ Cardinality(LiveWorkers') <= MaxWorkers
  BY DEF IInv, CounterInv, WorkersBounded
<1>5. NoSlotLeft'
  <2>1. /\ IsFiniteSet(WaitingWorkers') /\ Cardinality(WaitingWorkers') \in Nat
        /\ Cardinality(WaitingWorkers) <= Cardinality(WaitingWorkers')
        /\ Cardinality(WaitingWorkers') <= Cardinality(LiveWorkers')
    BY <1>1, <1>2, <1>3, FS_Subset, FS_CardinalityType
  <2> QED BY <1>3, <1>4, <2>1, BoundsAssumption DEF NoSlotLeft
<1>6. ASSUME NEW o \in Objs, worker[o] = "none" PROVE worker'[o] = "none"
  <2>1. LiveWorkers = WaitingWorkers
    <3>1. Cardinality(WaitingWorkers) <= Cardinality(LiveWorkers)
      BY <1>2, <1>3, FS_Subset
    <3>2. Cardinality(WaitingWorkers) = Cardinality(LiveWorkers)
      BY <1>3, <1>4, <3>1, BoundsAssumption DEF NoSlotLeft
    <3> QED BY <1>2, <1>3, <3>2, FS_Subset
  <2>2. LiveWorkers' = WaitingWorkers'
    <3>1. Cardinality(WaitingWorkers') <= Cardinality(LiveWorkers')
      BY <1>2, <1>3, FS_Subset
    <3>2. Cardinality(WaitingWorkers') = Cardinality(LiveWorkers')
      BY <1>3, <1>4, <1>5, <3>1, BoundsAssumption DEF NoSlotLeft
    <3> QED BY <1>2, <1>3, <3>2, FS_Subset
  <2>3. CASE SpawnWorker
    <3>1. new_task \in Objs /\ worker'[new_task] = "running"
      BY <2>3 DEF SpawnWorker, IInv, MgmtInv, TypeOK
    <3>2. new_task \in LiveWorkers' /\ new_task \notin WaitingWorkers'
      BY <3>1 DEF LiveWorkers, WaitingWorkers
    <3> QED BY <2>2, <3>2
  <2>4. CASE ~SpawnWorker
    BY <1>6, <2>4, StartFrame DEF IInv
  <2> QED BY <2>3, <2>4
<1> QED BY <1>5, <1>6

\* The finding of the run svm_recrypt, for every number of tasks, workers and rounds:
\* a worker that has asked for a recryption waits for ever, answered or not.
THEOREM WaitNeverEnds ==
    ASSUME NEW o \in Objs
    PROVE  Spec => []((worker[o] = "waiting") => [](worker[o] = "waiting"))
<1>1. Init => NoAnswer
  BY DEF Init, NoAnswer
<1>2. NoAnswer /\ [Next]_vars => NoAnswer'
  BY NoAnswerStep
<1>3. IInv /\ NoAnswer /\ [Next]_vars /\ worker[o] = "waiting" => (worker[o] = "waiting")'
  BY WaitStep
<1> QED BY <1>1, <1>2, <1>3, Invariance, PTL DEF Spec

\* And what it costs: once as many workers wait as there are slots, no task is ever
\* started again, however complete the front of the list is.
THEOREM PoolStalls ==
    ASSUME NEW o \in Objs
    PROVE  Spec => []((NoSlotLeft /\ worker[o] = "none") => [](worker[o] = "none"))
<1>1. Init => NoAnswer
  BY DEF Init, NoAnswer
<1>2. NoAnswer /\ [Next]_vars => NoAnswer'
  BY NoAnswerStep
<1> DEFINE Stalled == NoSlotLeft /\ worker[o] = "none"
<1>3. IInv /\ IInv' /\ NoAnswer /\ [Next]_vars /\ Stalled => Stalled'
  BY StallStep
<1>4. Stalled => worker[o] = "none"
  OBVIOUS
<1>5. Stalled <=> NoSlotLeft /\ worker[o] = "none"
  OBVIOUS
<1> HIDE DEF Stalled
<1> QED BY <1>1, <1>2, <1>3, <1>4, <1>5, Invariance, PTL DEF Spec

-----------------------------------------------------------------------------
(* How a complete task gets to a free slot *)

\* The front task is complete, a slot is free, and the management thread looks.
Ready(o) ==
    /\ task_list # <<>> /\ Head(task_list) = o /\ full[o]
    /\ Cardinality(LiveWorkers) < MaxWorkers
    /\ mgmtPc \in {"length", "counter", "front", "remove"}

\* How many steps the management thread is away from having taken the task.
Distance ==
    CASE mgmtPc = "length" -> 4
      [] mgmtPc = "counter" -> 3
      [] mgmtPc = "front" -> 2
      [] mgmtPc = "remove" -> 1
      [] OTHER -> 0

\* Steps of other threads do not spoil it.
LEMMA ReadyStays ==
    ASSUME IInv, [Next]_vars, NEW o \in Objs, Ready(o), UNCHANGED mgmtVars,
           Cardinality(LiveWorkers') <= Cardinality(LiveWorkers)
    PROVE  Ready(o)' /\ Distance' = Distance
<1>1. task_list' # <<>> /\ Head(task_list') = o
  <2>1. task_list \in Seq(1..created) /\ task_list # <<>> /\ Head(task_list) = o
    BY DEF Ready, IInv, TypeOK
  <2>2. CASE EndAddTask
    <3>1. task_list' = Append(task_list, qtObj) /\ qtObj \in 0..created
      BY <2>2 DEF EndAddTask, IInv, TypeOK
    <3>2. task_list \in Seq(0..created)
      BY <2>1, SeqMonotone, 1..created \subseteq 0..created
    <3>3. Len(task_list) \in Nat /\ Len(task_list) # 0 /\ Head(task_list) = task_list[1]
      BY <2>1, <3>2
    <3>4. /\ Len(Append(task_list, qtObj)) = Len(task_list) + 1
          /\ Append(task_list, qtObj)[1] = task_list[1]
      BY <3>1, <3>2, <3>3
    <3>5. task_list' # <<>> /\ Head(task_list') = task_list'[1]
      BY <3>1, <3>2, <3>3, <3>4
    <3> QED BY <2>1, <3>1, <3>3, <3>4, <3>5
  <2>3. CASE RemoveTask
    BY <2>1, <2>3 DEF RemoveTask, mgmtVars
  <2> QED BY <2>1, <2>2, <2>3, ListFrame DEF IInv
<1>2. full'[o]
  <2>1. full[o] /\ got[o] = Parts /\ full \in [Objs -> BOOLEAN] /\ got \in [Objs -> SUBSET Parts]
    BY DEF Ready, IInv, CompleteInv, TypeOK
  <2>2. CASE FullCheck
    BY <2>1, <2>2 DEF FullCheck
  <2>3. CASE ~FullCheck
    <3>1. full' = full
      BY <2>3, WorkerFrame
         DEF IInv, Next, Running, Crashed, QtStep, MgmtStep, ReceiveRequest, LookUp,
             BeginAddTask, EndAddTask, StorePart, ReadLength, ReadCounter,
             FrontalTaskComplete, RemoveTask, SpawnWorker, IncrementThreadCounter,
             vars, taskVars
    <3> QED BY <2>1, <3>1
  <2> QED BY <2>2, <2>3
<1>3. mgmtPc' = mgmtPc
  BY DEF mgmtVars
<1>4. Cardinality(LiveWorkers') < MaxWorkers
  <2>1. Cardinality(LiveWorkers) < MaxWorkers /\ Cardinality(LiveWorkers) \in Nat
    BY LiveFinite DEF Ready
  <2>2. Cardinality(LiveWorkers') \in Nat
    <3>1. IsFiniteSet(Objs) /\ LiveWorkers' \subseteq Objs
      BY FS_Interval, BoundsAssumption DEF Objs, LiveWorkers
    <3> QED BY <3>1, FS_Subset, FS_CardinalityType
  <2> QED BY <2>1, <2>2, BoundsAssumption
<1> QED BY <1>1, <1>2, <1>3, <1>4 DEF Ready, Distance

\* No step but the management thread's own start adds a live worker.
LEMMA LiveFrame ==
    ASSUME IInv, [Next]_vars, ~SpawnWorker
    PROVE  LiveWorkers' \subseteq LiveWorkers
<1>1. CASE \E o \in Objs : WorkerStep(o) \/ ClientStep(o)
  BY <1>1 DEF WorkerStep, ClientStep, AskRecrypt, PollRecrypt, LeaveLoop, IInv, TypeOK,
     DecrementThreadCounter, DeliverPut, handle_incoming_recrypt_task, workerVars, LiveWorkers
<1>2. CASE UNCHANGED worker
  BY <1>2 DEF LiveWorkers
<1> QED
  BY <1>1, <1>2 DEF Next, Running, Crashed, QtStep, MgmtStep, ReceiveRequest, LookUp,
     BeginAddTask, EndAddTask, StorePart, FullCheck, ReadLength, ReadCounter,
     FrontalTaskComplete, RemoveTask, IncrementThreadCounter, vars, workerVars

\* The management thread's own steps: one closer, unless a push is in progress.
LEMMA ReadyMgmtStep ==
    ASSUME IInv, NEW o \in Objs, Ready(o), MgmtStep,
           Cardinality(LiveWorkers') <= Cardinality(LiveWorkers)
    PROVE  \/ new_task' = o /\ mgmtPc' = "spawn"
           \/ Ready(o)' /\ Distance' <= Distance /\ (ListLockFree => Distance' < Distance)
<1>1. /\ task_list # <<>> /\ Head(task_list) = o /\ full[o]
      /\ mgmtPc \in {"length", "counter", "front", "remove"}
  BY DEF Ready
<1>2. running_worker_thread_amount < MaxWorkers
  <2>1. mgmtPc # "increment"
    BY <1>1
  <2>2. running_worker_thread_amount = Cardinality(LiveWorkers) - 0
    BY <2>1 DEF IInv, CounterInv, CounterAccounts
  <2> QED BY <2>2, LiveFinite DEF Ready
<1>3. Cardinality(LiveWorkers') < MaxWorkers
  <2>1. Cardinality(LiveWorkers) < MaxWorkers /\ Cardinality(LiveWorkers) \in Nat
    BY LiveFinite DEF Ready
  <2>2. Cardinality(LiveWorkers') \in Nat
    <3>1. IsFiniteSet(Objs) /\ LiveWorkers' \subseteq Objs
      BY FS_Interval, BoundsAssumption DEF Objs, LiveWorkers
    <3> QED BY <3>1, FS_Subset, FS_CardinalityType
  <2> QED BY <2>1, <2>2, BoundsAssumption
<1>4. CASE ReadLength
  <2>1. /\ mgmtPc = "length" /\ task_list' = task_list /\ full' = full
        /\ \/ mgmtPc' = "counter"
           \/ ~ListLockFree /\ mgmtPc' = "length"
    BY <1>1, <1>4 DEF ReadLength, taskVars
  <2> QED BY <1>1, <1>3, <2>1 DEF Ready, Distance
<1>5. CASE ReadCounter
  <2>1. mgmtPc = "counter" /\ task_list' = task_list /\ full' = full /\ mgmtPc' = "front"
    BY <1>2, <1>5 DEF ReadCounter, taskVars
  <2> QED BY <1>1, <1>3, <2>1 DEF Ready, Distance
<1>6. CASE FrontalTaskComplete
  <2>1. mgmtPc = "front" /\ task_list' = task_list /\ full' = full /\ mgmtPc' = "remove"
    BY <1>1, <1>6 DEF FrontalTaskComplete, taskVars
  <2> QED BY <1>1, <1>3, <2>1 DEF Ready, Distance
<1>7. CASE RemoveTask
  BY <1>1, <1>7 DEF RemoveTask
<1> QED BY <1>1, <1>4, <1>5, <1>6, <1>7 DEF MgmtStep, SpawnWorker, IncrementThreadCounter

\* The safety half of FreeSlotIsUsed, for all constants: from the moment when a
\* complete front task and a free slot meet, nobody can take the slot or complete the
\* list differently, the management thread never turns back, and each of its steps
\* outside a push brings it closer to taking this very task.
THEOREM ReadyTaskIsTaken ==
    ASSUME NEW o \in Objs
    PROVE  Spec => [][Ready(o) =>
                         \/ new_task' = o /\ mgmtPc' = "spawn"
                         \/ /\ Ready(o)' /\ Distance' <= Distance
                            /\ MgmtStep /\ ListLockFree => Distance' < Distance]_vars
<1>1. ASSUME IInv, Next, Ready(o)
      PROVE  \/ new_task' = o /\ mgmtPc' = "spawn"
             \/ /\ Ready(o)' /\ Distance' <= Distance
                /\ MgmtStep /\ ListLockFree => Distance' < Distance
  <2>1. ~SpawnWorker
    BY <1>1 DEF Ready, SpawnWorker
  <2>2. Cardinality(LiveWorkers') <= Cardinality(LiveWorkers)
    BY <1>1, <2>1, LiveFrame, LiveFinite, FS_Subset
  <2>3. CASE MgmtStep
    BY <1>1, <2>2, <2>3, ReadyMgmtStep
  <2>4. CASE ~MgmtStep
    <3>1. UNCHANGED mgmtVars
      BY <1>1, <2>4, WorkerFrame
         DEF IInv, Next, Running, Crashed, QtStep, ReceiveRequest, LookUp,
             BeginAddTask, EndAddTask, StorePart, FullCheck, vars, mgmtVars
    <3>2. Ready(o)' /\ Distance' = Distance
      BY <1>1, <2>2, <3>1, ReadyStays
    <3>3. Distance \in Nat
      BY DEF Distance
    <3> QED BY <2>4, <3>2, <3>3
  <2> QED BY <2>3, <2>4
<1>2. IInv /\ [Next]_vars =>
        [Ready(o) =>
            \/ new_task' = o /\ mgmtPc' = "spawn"
            \/ /\ Ready(o)' /\ Distance' <= Distance
               /\ MgmtStep /\ ListLockFree => Distance' < Distance]_vars
  BY <1>1
<1> QED BY <1>2, Invariance, PTL DEF Spec
=============================================================================
