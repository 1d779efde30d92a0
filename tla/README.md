# A verification development for PrivacyService

PrivacyService stands between clients and IoT adapters: it encrypts what the
adapters measure (CKKS, with Microsoft SEAL), decrypts and re-encrypts for its
owner, and hosts plugins, one of which trains a support vector machine on
encrypted data. This directory holds TLA+ models of its stateful parts, the TLC
configurations that check them and TLAPS proofs about them.

Paths below are relative to the root of the repository's sources (`src/`).

    tlc -config MCSvmSafety.cfg SvmScheduler       one run
    tlapm SvmSchedulerProofs.tla                   one module of proofs

## 1. Inventory

The service is one process. A Qt thread owns the HTTP server, the HTTP client
and the database, and runs every request handler. The SVM plugin adds a
management thread and one detached worker per training task.

| component | state | operations | works with |
|---|---|---|---|
| SVM scheduler (`src/svm_plugin/svm_plugin.cpp`, `SVM_Handler.*`, `tasks.h`) | `task_list`, the thread counter, `recrypt_tasks`, three mutexes | serve a part of a task, poll the list, start a worker, run it, ask for a recryption | Qt thread, management thread, workers; the client by signal and PUT |
| SVM task (`SVM_Task.*`, `utility.h`) | twelve flags, keys, ciphertexts, four lists, the context, `full` | eleven `set_` functions, `full_check`, `gradientdecent_v4` | filled by the Qt thread, read by the other two without a lock |
| own keys (`src/seal_handler.*`, OWN_KEYS in `db_access.cpp`, `main.cpp`) | two rows, the keys in memory, their serialized forms | `initialize`, encrypt, decrypt, recrypt, sum, publish | database; every property handler |
| adapter bridge (`src/rest_handler.*`, `vicinity_handler.*`) | `m_ownTD`, `m_endpoints`, the connections of one slot, the stack of blocking calls | collect thing descriptions, read and write properties, route object ids | adapters over HTTP; nested event processing |
| local features and peer keys (`rest_handler.cpp:200-430`, `vicinity_handler.cpp:843`) | PUBLIC_KEYS, PRIVACY_SERVICE, the stack of fetches | encrypt, decrypt, aggregate; look a key up, fetch and store it, sum under it | agent over HTTP, database |
| aggregation ledger (`db_access.cpp:308-670`) | tables of shares and blinded measurements | insert, update, all received, sum, reset | no live caller: the actions that used it are commented out |
| access control (`db_access.cpp:241-284`) | two tables nobody writes | two look-ups | property `hasaccess` |
| controller, plugin loading, MPC stub, test adapters, unit tests | pointers set once; none | - | - |

What is hard in it:

* **Threads.** The plugin's mutexes protect single operations. Decisions span
  several of them (length, counter, front, removal; known, look-up, store), the
  length of the list is read without one, and a task's content has none at all.
* **Nested events.** `get_blocking` and `put_blocking` run the event loop while
  they wait, so handlers nest, and the slot that collects thing descriptions
  shares its signal with every other reply. Their timeout is a time of the day.
* **Crashes and failures.** The key pair is stored by two statements whose
  results are dropped, and a failed read looks like an absent row.
* **Partial failure.** The lists of a task have any length and grow entry by entry;
  what was loaded before an irregular entry, or by an earlier message, stays.
  Queries answer a failure like an empty result, and what SEAL throws ends the
  process together with all requests that wait.
* **Names and numbers.** The id of an object is composed from two ids and taken
  apart by a greedy pattern; the number of a worker's rounds is compared with no list;
  the dimension of a matrix is a number of the client's
  that indexes a vector; values are stored with six digits.
* **Lost answers.** A worker's request for recryption is a queued signal, a PUT
  whose outcome is dropped, and a wait without end.

Every hazard is listed with its line in `PROJECT.json`. What makes each part
correct:

* scheduler: the worker limit holds; a worker gets complete tasks only, each
  once, in order; no task is lost; a free slot is used; a part goes where it
  belongs;
* task: an index of the worker is out of range only if too many rounds were asked
  for; a round uses the operands made for it, all of one context; nobody writes what
  the worker reads;
* keys: what was encrypted can be decrypted after every restart; the two halves
  belong together; a published key is the key in use;
* bridge: every adapter is described once; a reply reaches the call that waits
  for it; a wait lasts as long as it says, and ends, unless the process does; a request for a listed object
  goes to this object of this adapter; each request is answered once, and requests
  end from the inside out;
* local features: a sum is under the key that was fetched for it; a fetch ends;
* ledger: "all received" is only said if all have sent; a sum is that of the round;
* recryption for the SVM: an answer repeats the first column, whatever the dimension.

## 2. Modules

| module | what it is |
|---|---|
| `SvmPool` | abstract: tasks queue, start complete and in order, at most so many at a time |
| `SvmScheduler` | the three kinds of threads around `task_list`; implements `SvmPool` |
| `SvmSchedulerProofs` | invariants, the refinement, the pool's end, for all constants |
| `SvmTask` | one task: its assembly in detail, and the first global round of its worker |
| `SvmTaskProofs` | its invariants, for all sets of parts and all lengths |
| `KeyStore` | the own key pair over crashes, restarts and database failures |
| `KeyStoreProofs` | its invariants, for any number of failures |
| `SvmTaskFlags` | abstract: the contract of the two, a task as a growing set of parts |
| `NestedRequests` | abstract: requests served inside the waits of others, each with one outcome |
| `AdapterBridge` | thing descriptions and nested blocking calls, with a clock; implements `NestedRequests` |
| `AdapterBridgeProofs` | its invariants and the refinement, for any adapters, clients and times |
| `ObjectRouting` | the names of objects: listed, requested, taken apart, looked up |
| `ObjectRoutingProofs` | the round trip of a name, and its invariants, for all names |
| `LocalRequests` | encrypt, decrypt and aggregate, with nested fetches of keys; implements `NestedRequests` |
| `LocalRequestsProofs` | its invariants and the refinement, for any requests, services and failures |
| `AggregationLedger` | the tables of a distributed aggregation, with failing statements |
| `AggregationLedgerProofs` | its invariants, for any participants and values |
| `SplitVector` | the loops of `recrypt_for_svm`, for a dimension nobody has checked |
| `SplitVectorProofs` | its loop invariants and its end, for every dimension and number of slots |
| `MCLocal`, `MCLedger`, `MCRouting`, `MCSplit` | values of constants, and symmetry, for TLC |

`SvmTask` looks inside what `SvmScheduler` treats as a set of flags. What the two
agree upon is `SvmTaskFlags`: `SvmTask` implements it (`ImplementsFlags`), and so
does what `SvmScheduler` does to each of its tasks (`TasksKeepContract`); that is
why they can be looked at separately. `AdapterBridge`, `ObjectRouting` and
`LocalRequests` describe one event loop from three sides: how long a blocking call
waits and which reply it gets, where it goes, and what happens to the requests that
are served inside one another. They share no variables: a request of one is at most
an event inside a wait of another, and each of them has such events. What a client
may rely on, whichever of the blocking calls its request is in, is `NestedRequests`:
one outcome, never replaced; progress only for the innermost request; and if the
process ends, exactly the requests in progress are lost. `AdapterBridge` implements it
(the outcomes are answers and errors), and so does `LocalRequests`. `ObjectRouting` takes the whole of a read or write as a step, since `m_endpoints` does not change
after the start. `readProperty` and `writeProperty` use the keys of `KeyStore`;
`SplitVector` is what `recrypt_svm` does between two of its steps.

### SvmScheduler

A step is what a thread does under one acquisition of a mutex, or one access
without a mutex. `qtPc` is the place of the Qt thread in
`handle_incoming_svm_task`, `mgmtPc` that of `management_task`, `worker[o]` that
of the worker of task `o`.

| code | action |
|---|---|
| `task_known` | `ReceiveRequest` |
| `get_svm_task`, second lock | `LookUp` |
| constructor, `add_task` | `BeginAddTask`, `EndAddTask` |
| `handle_sub_key`, `set_...` | `StorePart` |
| `full = full_check()` | `FullCheck` |
| `get_task_list_length`, no lock | `ReadLength` |
| `get_current_worker_thread_amount` | `ReadCounter` |
| `frontaltaskcomplete`, `remove_task` | `FrontalTaskComplete`, `RemoveTask` |
| `std::thread(worker_task...)`, `increment_thread_counter` | `SpawnWorker`, `IncrementThreadCounter` |
| `recrypt`, the waiting loop, the end of the loop | `AskRecrypt`, `PollRecrypt`, `LeaveLoop` |
| `decrement_thread_counter` | `DecrementThreadCounter` |
| `do_put_blocking` received | `DeliverPut` |
| POST /svm/recrypt_task | `handle_incoming_recrypt_task` |

Undefined behaviour is made visible. While `push_back` is in progress
(`qtPc = "adding"`) `ReadLength` may return either answer. Reading the front of
an empty deque sets `crash`, after which nothing more is said. The write to
`full` and the read of it are single steps: on the platforms the service is
built for a `bool` is not torn.

The parts of a task are model values. Only three kinds behave differently: the
part that makes the context (`Parms`), those stored without one (`Settings`) and
the rest.

### SvmTask

`flags` are the `*_set` flags; `object[p]` is the context a key or a ciphertext
was loaded in; `list[l]` has, for each entry, its place in the client's message
and its context. Each `set_` function is an action with its failures: irregular
input, no context yet, a list cut short by an irregular entry. A message leaves any
number of entries (`Lengths`) and is accepted or not, since nothing in the code says
how many there should be; a value that is no array is an accepted list without entries.
`local_rounds` is any integer the client sends (`Rounds`). A request that
looked the task up before it was started is served after that too (`request`
stays set across `Start`). `RacingWrite`, `UseNullContext` and the index test in
`LocalRound` are the accesses with undefined behaviour. `contexts`, `first` and
`longest` are history variables that only properties read: the contexts there have
been, the entries of the first message of a list that left any, and those of the
longest message that was accepted. They are what the code can be held to:
an accepted list may be shorter than the rounds, and a second list
continues behind a short first one, out of step with the others.

Left out: requests with several sub keys (the first in the order of
`handle_sub_key` counts, the others are ignored) or none; levels and scales of
the ciphertexts; everything after the first recryption, which no execution
reaches (see `svm_recrypt` below).

### KeyStore

A key is the number of the call of `generate_keys` that made it. `pc` runs
through `initialize`; every database access may fail, and a crash is possible
everywhere. The serving phase has one action per operation on the own key.
Dereferencing the null `m_serPubKey` ends the process. `Init` is an installation
without a database.

### AdapterBridge

`calls` is the stack of blocking calls on the Qt thread. Only the innermost one
looks at the clock and returns; while it is inside `processEvents`
(`at = "events"`) any other event may be handled. `Timeout` is the 10 s of the
code and `Day` the 24 h, both in the same arbitrary unit; `MaxTurn` is the
longest one round of the loop takes. `connections` counts how often
`getAdapterTDFinished` is connected. A property read makes two calls
(`rest_handler.cpp:296-297`). Replies are JSON or not; an error description in
JSON counts as a reply, as in the code. Requests that are answered without an
adapter (the service's own properties, an unknown adapter, an invalid object id)
change none of its state; they are in `ObjectRouting`.

SEAL may throw before a value is written (`Request`: it is decrypted first), after
one was read (`Return`: it is encrypted) and in handlers that do not wait
(`OtherRequestThrows`), be it inside the waits of others. Nothing catches it:
`Terminate` ends the process, and the requests in progress are `"lost"`. The service may
be started again, which collects the descriptions anew.

| code | action |
|---|---|
| `generateThingDescription`, `get` | `GenerateThingDescription` |
| `getAdapterTDFinished` | the same |
| `readProperty`, `writeProperty` up to the blocking call | `Request`, `Forward` |
| the loop of `get_blocking`, `put_blocking` | `EnterLoop`, `EndOfTurn`, `Reply` |
| what follows the loop, in its handler as well | `Return`, `Proceed`, `Answered` |

### ObjectRouting

A name is a sequence of tokens: a colon, `_enc`, or text without these two.
`Composed` is the concatenation in `getAdapterTDFinished`; `Separator`,
`EndOfObject`, `AdapterOf` and `ObjectOf` are what the greedy pattern `(.+):(.+)_enc`
matches: the last colon with something before it and a non-empty stretch and `_enc`
after it, and the last `_enc`. `config` has the adapter id of each entry of the
configuration, in any choice; an adapter lists any objects under any id. `td` keeps,
for each listed object, who listed it. Missing and unreadable files at start are in
`initialize`. `answer` is what became of the last request.

| code | action |
|---|---|
| `initialize`, `generateThingDescription` | `initialize` |
| `getAdapterTDFinished` | `getAdapterTDFinished` |
| `readProperty`, GET .../properties/... | `readProperty`, `Forward` |
| `writeProperty`, PUT .../properties/... | `writeProperty`, `Forward`, `hasAccessToData` |
| an exception nobody catches | `Terminate` |

### LocalRequests

`calls` is the stack of fetches in `getPublicKey`: while one processes events, other
requests for local features may begin, and replies to any of them may come. Only the
innermost returns. PUBLIC_KEYS is `known`, plus the number of its rows with the id
NULL (`orphans`), since a `QString` that is null is bound as NULL; null, empty and
unusable texts are kept apart because `isEmpty`, the database and SEAL do so. A body is
a Content-Type and a kind of content. `usedKey` and `sent` are history variables.
`getPrivacyService` is constant because the column it reads is not in its result.

| code | action |
|---|---|
| `handle_local_encrypt`, `handle_local_decrypt` | the same |
| `handle_local_aggregate` up to the fetch | `handle_local_aggregate` |
| reply of the agent | `AgentReplies` |
| the rest of `getPublicKey`, and `sum` | `Return` |
| an exception nobody catches; start after it | `Terminate`; `Restart` |

### AggregationLedger

A book is the rows of one initiator, or the table of the service's own aggregation.
Each function of `db_access` on the two tables is an action that may fail; what it
tells its caller then is part of it. A finite double is a decimal number with finitely
many digits, so any set of values can be counted in one power of ten that is small
enough: `Values` are integers of either sign, and `Units` the powers of ten up to the
one in which six digits are enough for each of them. `QStringNumber` is the rounding to six
digits; a tie may be rounded either way. The sum that SQLite
computes is taken as exact: its own rounding in doubles, about sixteen digits, is left
out. (Infinite values and NaN make the statement fail, as any statement may.) `inserted`, `sent` and `dirty` are
history: who was inserted in this round, what was sent since, and whether a statement
failed. The functions are called in any order, because nobody calls them in this
version.

### SplitVector

Each round of each loop of `split_to_long` is a step. A slot is represented by its
index, and what is read behind the end by `Garbage`; that access may also end the
process. `dimension` is any integer, negative ones included. A dimension so large
that the vectors exhaust the memory ends the process as well; it is covered by the
crash at its first index behind the end, which comes before. `Encode` throws if the
long vector has no room, and may throw although it has: the client's ciphertext may hold
values that are too large for the scale.

## 3. Runs

| run | question | bounds | distinct states |
|---|---|---|---|
| `svm_safety` | limit, completeness, order, uniqueness, no access to an empty list; do the threads implement the pool, and the contract of a task? | 2 workers, 3 tasks, 2 ids, 3 parts, 1 round | 730 000 |
| `svm_live` | is a complete front task started when there is a slot? | 1 worker, 2 tasks | 29 000 |
| `svm_routing` | violated: a part goes to the task it names | 1 worker, 2 tasks | - |
| `svm_recrypt` | violated: a worker whose client answered goes on | 1 worker, 1 task | - |
| `task_safety` | indices, operands, contexts and late writes of one task; does it keep the contract? | 2 lists of 0 to 2 entries per message, 0, 1 or 3 rounds, 1 object, 2 contexts, 8 requests | 2 216 000 |
| `keys_safety` | keys over crashes and failures | 2 failures, 2 crashes in `initialize` | 113 000 |
| `keys_publish` | violated: the public key is returned | no failure | - |
| `bridge_safety` | descriptions, replies, lengths of waits; is every request answered, once and from the inside out? | 2 adapters, 2 clients, timeout 2, day 5, longest round 2 | 471 000 |
| `local_safety` | keys of sums; does every fetch end, once and from the inside out? | 3 requests, 2 sources, 2 services, 1 failure | 206 000 |
| `ledger_safety` | "all received", sums | 2 initiators, 2 participants, a small value and a negative one of seven digits, 1 call that fails | 680 000 |
| `routing_safety` | where requests go | 2 adapters, 3 adapter ids and 4 object ids of up to 3 tokens, 1 object each | 104 000 |
| `split_safety` | answers of `split_to_long` | 1 to 32 slots, dimensions -1 to 7 | 1 500 |

Why the bounds are enough. *Scheduler*: three tasks of two ids allow a task of an
id to be running while a second one of that id is listed behind another one; two
workers allow one to end before the other, and before it was counted; one part of
each kind separates the branches of `StorePart`. *Task*: a task of six parts needs
six requests, so two can fail, come too early or be repeated: enough for a list to be
sent three times, in any mixture of short, full, accepted and refused, or for both to be
sent twice; messages without entries, with fewer than the rounds and with more
are among them. *Keys*: two failures are what the weakest property
speaks of. *Bridge*: two clients nest in both orders, and a read of each makes
four calls; time begins anywhere on a day that timeout and longest round together do
not fill, and ends on the next, so that waits begin and end on every side of
midnight. *Local requests*: three fetches nest in every order with a reply to any of
them, two of them for sources of one service or of two; the agent listens on the port
that the code can express, and may send any key. *Ledger*: two books of two rows
show what a statement on one does to another; a round can be finished, cleared
with or without success, and begun again; the two values lie on both sides of the six
digits and of zero, and the call that fails may be a start, of one table or of both. *Routing*: the names contain each token in every role: nothing, text that
another name ends or begins with, an inner colon, an inner `_enc`; two adapters can
claim each other's ids, or be configured under one. *Split*: for each number of slots
there are dimensions whose square is below, at and above it.

All safety properties of the passing runs are proved for all values as well. Two more,
`RegularOidsDiffer` (`ObjectRouting`) and `OnlyOversizedCrash` (`SplitVector`), are
proved and not among the runs: they say less than the properties next to them.

`CHECK_DEADLOCK FALSE` is used where the system may stop: a task after its bound
on requests, the bridge when its clock is at its bound and all clients are served, the
local requests when all have been made, a recryption when it has ended.

### What the violated properties say

* `RoutedToOwnTask`: between `task_known` and `get_svm_task` the management
  thread removes the complete task; the part is stored in the task that is at the
  front then, or the front of an empty deque is read (`svm_plugin.cpp:13-16`).
  `StrayPartsAreResent` bounds the damage: only a part sent again goes astray.
* `RecryptWaitEnds`: nothing fills `recrypt_tasks`, so a worker never gets past
  its first global round, and the plugin's only worker slot is lost.
* `PublicKeyIsReturned`: after a restart the property `publickey` dereferences
  null.

Seven further statements of the documentation and the comments are written down in
the modules and are not kept by the code. They are not among the runs; TLC shows the
counterexample of each in a few seconds:

| statement, configuration | what happens |
|---|---|
| `SavedKeysAreUsed`, `MCKeysReuse.cfg` (`KeyStore`) | `seal_handler.cpp:45` "try to get saved keys from database. if there are none, use newly generated ones": one failing read replaces existing keys; `GenerationsAccounted` says that it takes one |
| `ThingDescriptionOfAllAdapters`, `MCBridgeTD.cfg` (`AdapterBridge`) | README.md:175: a property request before an adapter has answered keeps it out of the description; `ThingDescriptionExact` says that nothing else does |
| `ServiceOfSourceIsAsked`, `MCLocalService.cfg` (`MCLocal`) | `db_access.cpp:287`: `getPrivacyService` reads a column it has not selected; no service is ever asked for its key, and nothing stored is ever found |
| `AgentIsReached`, `MCLocalAgent.cfg` (`MCLocal`) | README.md:217: the agent's port is a constant kept in eight bits, `9997 % 256 = 13` |
| `OwnRoundComplete`, `MCLedgerOwn.cfg` (`AggregationLedger`) | `db_access.cpp:504`: the statement ends in a stray quote and cannot be prepared, which counts as nothing missing |
| `RoutedToListedObject`, `MCRoutingListed.cfg` (`MCRouting`) | README.md:176: an object id with a colon is cut at its last colon; `RoutedToItsObject` says that all others arrive |
| `TrustedPartiesAreReturned`, `MCRoutingParties.cfg` (`MCRouting`) | README.md:42: the code that filled the list is commented out |

### Fairness

*Scheduler* (`svm_live`, `svm_recrypt`). The operating system schedules every
thread, and the loops of the management thread and the workers have no exit while
they wait: weak fairness of `QtStep`, `MgmtStep` and `WorkerStep(o)`. A queued
signal is handled by the Qt event loop, which takes events in order whatever
requests come in between: since new requests disable it again and again, strong
fairness of `DeliverPut(o)`. Clients are not obliged to anything, except in
`AnsweringSpec`, where they answer what they were asked; it serves to show that the
wait of `svm_recrypt` is not the client's fault.

*Bridge* (`EveryRequestEnds`). The waiting loop of the innermost call runs: weak
fairness of `EnterLoop`, `EndOfTurn` and `Return`. Adapters answer, and the event loop
handles what has been received although other requests come in between: strong
fairness of `Reply(k)`. Without the latter a request may wait until the same time of
the next day, which is what `OnlyMidnightProlongs` is about. Nothing obliges SEAL to
throw or not to: a request that is lost with the process has ended, too.

*Local requests* (`EveryFetchEnds`). Weak fairness of `Return`: the loop of the
innermost fetch ends, by its timeout if not by a reply; the agent is not obliged to
anything. How the timeout measures time is in `AdapterBridge`. In both, every request
is made at most once, so that an outer call is not kept waiting by new ones for ever;
the code has no such limit.

## 4. Proofs

For every value of the constants that satisfies the assumptions named in the
modules (a part that makes the context, a positive worker limit, disjoint kinds of
parts, a timeout shorter than a day, a finite set of adapters, a finite set of
participants, values that are integers in some unit).

* **SvmScheduler.** `IInv` strengthens the properties by: what each place of the
  management thread has learnt and nobody can undo (`MgmtInv`: only that thread
  removes tasks, so a list once seen non-empty stays so); which object the Qt
  thread works on (`QtInv`); that objects are listed in order of creation, behind
  all that were started (`OrderInv`); that `full` implies all parts, since flags
  are never cleared (`CompleteInv`); and the exact account of the counter
  (`CounterInv`): counted workers plus the one not yet counted, which leaves room
  for one more whenever the limit test has succeeded, since only the management
  thread raises it. Each step is shown to preserve each part by a lemma of its own.
  `Refinement` maps the list, with the task in the hands of the management thread
  in front, to the queue of `SvmPool`; every step maps to a pool step or stutters.
  `WaitNeverEnds` is the finding of `svm_recrypt` for all constants: `recrypt_tasks`
  has no entry, and an answer makes none, so nothing ends a wait. `PoolStalls` follows by
  counting: when as many workers wait as there are slots, every live worker waits, and
  the counter keeps the management thread from starting another one.
  `ReadyTaskIsTaken` is the safety half of `FreeSlotIsUsed`: from the moment when a
  complete front task and a free slot meet, no thread spoils it, and each step of the
  management thread outside a push brings it closer to taking this task (`Distance`).
* **SvmTask.** `IInv` says what a flag promises: an object belongs to a context
  there has been; a list has at least as many entries as the longest message that was
  accepted for it (`longest`), and begins with those of the first message that left any
  (`first`), each in its place; and a started task has all flags (`WorkerInv`). The
  lemma about lists is that appending any number of entries keeps the promise, whatever was
  there. From it `IndicesInRange` and `RoundsInOrder` follow for all sequences of
  messages of all lengths and any number of rounds. `Refinement`
  maps the flags of a task to the contract: whatever is in a request, the flags grow by
  one, and only in a context; `ContractKept` in `SvmSchedulerProofs` shows the same of
  every task in the hands of the threads, where the flag and `full` are written by two
  steps with others in between.
* **KeyStore.** `IInv` says for every point of `initialize` and every number of
  failures so far which rows may be missing or differ: with none the rows are
  written in order and once, with one they differ only while one is missing.
  `PublishedKeyIsInUse` has no such limit: whatever failed, a key is given to a client
  only if the service encrypts with it and holds its secret key. `StoredKeysAreFinal`:
  it takes a failing database access, not a crash, to overwrite two stored keys.
* **AdapterBridge.** `IInv` adds that calls exist only while the process is up and the
  slot is disconnected, which is why the slot cannot take a reply, and that an adapter still
  asked is not described yet. For the times, `Remainder`, `RemainderUnique` and
  `SameDay` derive from the definition of a remainder that it grows with the number
  until the end of the day. `TimeInv` says that a call begins a round of its loop only
  before its end, `StartInv` that no call began in the future; `WaitsEndInTime` and
  `ErrorsAreNotEarly` follow for every timeout and length of the day. `Refinement` maps
  the clients of the stack of calls to the stack of `NestedRequests`: replies, the clock
  and the slot are stutters, the second call of a read takes the place of its first, and
  what SEAL throws, in whichever handler, is `Terminate` there.
  `EveryCallHasItsAnswer`: the clients of the stack differ, so there are no more calls
  than clients, and the fairness assumed of the places of the stack is that of all calls.
* **ObjectRouting.** `RoundTrip`: if the object id has no colon and neither id is
  empty, the separator of the composed name is its colon, since every other one is
  before it or has no `_enc` behind it, and its last `_enc` is the one that was added.
  The invariant says that everything listed was composed from an adapter's and an
  object's id, and that the endpoints are those of the configuration; the two
  properties follow by taking both oids apart.
* **LocalRequests.** The invariant is about the stack: each request has one fetch at
  most, and a fetch that has a reply has the one that was sent for its request. Replies
  change one element, and only the last is removed. `Refinement` maps the requests of
  the stack to `NestedRequests`; what SEAL throws is its `Terminate`. Two findings hold
  for all constants: no key is ever kept in PUBLIC_KEYS (`TableStaysEmpty`), and if the
  agent listens on any port but 13, no sum is under another key than the service's own
  (`UnreachedAgentMeansOwnKey`).
* **AggregationLedger.** A participant who was inserted in this round has a row, and if
  nothing was sent since, the row says so; a failed deletion can only leave rows of
  people who are not in the round, which makes "all received" more reluctant, not less.
  `SumsAreRight`: in a book in which no statement failed, each row is the rounded value
  last sent, or absent (`CleanRows`). That the sums of rows and of values then differ by
  at most the sum of the roundings is an induction over the finite set of participants.
  The folds are shown to be the sum over a set that is built up one element at a time
  (`FoldAdds`); the set of subsets for which a statement about such sums fails would
  have a smallest element. `UnitFits` finds the unit of a value of any size: the least
  power of ten in which six digits are enough. `SixDigitsAddUp` is the case without
  rounding.
* **SplitVector.** Loop invariants: the vector so far is the first column
  wherever the index is inside the vector; `result` has `i * Rows + j` elements in
  rows. If any index was behind the end, the square of the dimension exceeds the slots,
  and encoding the long vector throws: an answer is given only if the long vector
  fits (`AnsweredOnlyIfItFits`). The converse does not hold, since encoding may throw for
  other reasons. `LoopsEnd`: the number of steps left (`StepsLeft`) is a
  natural number and falls with each step, so both loops end for every dimension.

The theorems are listed in `PROJECT.json`.

Model-checked only: `FreeSlotIsUsed`, `RecryptWaitEnds`, `EveryRequestEnds` and
`EveryFetchEnds`, since liveness under fairness and `ENABLED` are outside the prover.
Of the first the safety half is proved, and of the second that its wait never ends.

## 5. Not modelled

* The commented-out distributed aggregation of `vicinity_handler.cpp`: no behaviour.
* `hasAccessToDecrypt`, `trustsMe`, `isTrustedInitiator`, `isTrustedParty`,
  `getTrustedParties` (`db_access.cpp`) and `post_blocking`: no caller, no effect.
* Controller, plugin loading, MPC stub: pointers set once at start.
* JSON, Base64, the arithmetic of CKKS: data without control.
* The plugin's destructor: plugins are not unloaded.
* What follows the first recryption in a worker (`tasks.h:82-103`): never reached.
* POST actions and PUT requests with an unusable body, which return without an answer
  (`rest_handler.cpp:307`, `319`): one branch each, without state. `/encrypt`, which
  does the same, is in `LocalRequests` (`dropped`).
* Several instances of one request at once; SQLite beyond "a statement fails".

## 6. Plan

Done, in this order: scheduler, task, keys, bridge; then local requests with the keys of
peers, the ledger, the names of objects, the contract between task and scheduler, the
split vector, and the proofs about all of them, the times of day included.

What could follow:

1. What falls with each round of the waiting loops of `AdapterBridge` and `LocalRequests`,
   as the safety half of `EveryRequestEnds` and `EveryFetchEnds`.
2. `AdapterBridge` and `LocalRequests` on one stack: a fetch of a key nested in the read
   of a property and the other way round. Both models have nested calls of their own
   kind only; the argument that nothing else changes rests on the fact that `getPublicKey`
   and `readProperty` share nothing but the event loop. Both implement `NestedRequests`;
   that the two together do is not shown.
3. If the distributed aggregation is put back: its actions on top of the ledger, with
   the order in which they call it.
