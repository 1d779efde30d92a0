------------------------------- MODULE SvmTask -------------------------------
(***************************************************************************)
(* One SVM task from its construction to its first recryption: how the     *)
(* set_ functions fill it from the requests of a client, and how the       *)
(* worker then uses it (src/svm_plugin/SVM_Task.cpp, utility.h).           *)
(* SvmScheduler sees of a task only its flags; here the parts have content: *)
(*                                                                         *)
(*   - keys and ciphertexts are valid in the context they were loaded in;  *)
(*   - a list of any length is loaded entry by entry onto the end of what  *)
(*     is there; it is accepted, or an irregular entry leaves the ones     *)
(*     before it in place;                                                 *)
(*   - the context is replaced whenever new parameters arrive.             *)
(*                                                                         *)
(* A request that has looked the task up may be served after the task was  *)
(* started; nothing protects the task then.                                *)
(***************************************************************************)
EXTENDS Integers, Sequences

CONSTANTS
    Objects,      \* relin_keys, gal_keys, long_x, split_x
    Lists,        \* C_li, d_li, g_li, e_one_li
    Operands,     \* the lists that gradientdecent_v4 reads: C_li, d_li, g_li
    Contexts,     \* the encryption parameters that the client may send
    Null,         \* no context: the empty shared_ptr
    Lengths,      \* how many entries of a message are loaded: any number
    Rounds,       \* the local_rounds that the client may send: any int
    MaxMessages   \* bound on the requests for this task

Settings == {"alg_parms", "environment"}
Parts == {"parms"} \cup Settings \cup Objects \cup Lists

ASSUME PartsAssumption ==
    /\ Objects # {}
    /\ Operands \subseteq Lists /\ Objects \cap Lists = {}
    /\ (Objects \cup Lists) \cap (Settings \cup {"parms", "none"}) = {}
ASSUME ContextsAssumption == Null \notin Contexts
ASSUME BoundsAssumption ==
    Lengths \subseteq Nat /\ Rounds \subseteq Int /\ MaxMessages \in Nat

VARIABLES
    flags,            \* the parts whose *_set flag is true
    full,
    working_context,
    object,           \* the context each object was loaded in
    list,             \* each list: per entry its place in the message and its context
    local_rounds,
    request,          \* the part that the request in progress carries, or "none"
    messages,         \* requests so far
    worker,           \* the control state of the worker thread
    round,            \* local rounds done
    evaluator,        \* the context the worker computes in
    crash,            \* "no", or the access with undefined behaviour
    contexts,         \* history: all contexts there have been
    first,            \* history: entries of the first message of a list that left any
    longest           \* history: entries of the longest accepted message of a list

flagVars    == <<flags, full>>
contextVars == <<working_context, contexts>>
listVars    == <<list, first, longest>>
partVars    == <<flagVars, contextVars, object, listVars, local_rounds>>
workerVars  == <<worker, round, evaluator>>
vars == <<partVars, request, messages, workerVars, crash>>

Init ==
    /\ flags = {} /\ full = FALSE
    /\ working_context = Null /\ contexts = {}
    /\ object = [p \in Objects |-> Null]
    /\ list = [l \in Lists |-> <<>>]
    /\ first = [l \in Lists |-> 0] /\ longest = [l \in Lists |-> 0]
    /\ local_rounds = 0      \* not read before alg_parms has set it
    /\ request = "none" /\ messages = 0
    /\ worker = "none" /\ round = 0 /\ evaluator = Null
    /\ crash = "no"

-----------------------------------------------------------------------------
(* The Qt thread *)

\* handle_incoming_svm_task has found or added the task.  A task that was
\* started is not in task_list any more, so no later request finds it.
Receive(p) ==
    /\ worker = "none"
    /\ request = "none"
    /\ messages < MaxMessages
    /\ request' = p
    /\ messages' = messages + 1
    /\ UNCHANGED <<partVars, workerVars, crash>>

Served == request' = "none" /\ UNCHANGED <<messages, workerVars>>

\* Mutant: the flags of the lists are left out of the conjunction.
Accept_NoLists(p) ==
    /\ flags' = flags \cup {p}
    /\ full' = (Parts \ Lists \subseteq flags')

\* The end of every set_ function: the flag is set and full computed anew.
Accept(p) ==
    /\ flags' = flags \cup {p}
    /\ full' = (flags' = Parts)

\* Mutant: local and global rounds are swapped.
set_alg_parms_Swapped ==
    /\ request = "alg_parms"
    /\ local_rounds' = 10                \* what was sent as global_rounds
    /\ Accept("alg_parms")
    /\ Served
    /\ UNCHANGED <<contextVars, object, listVars, crash>>

\* Any int is stored; nothing relates it to the lengths of the lists.
set_alg_parms ==
    /\ request = "alg_parms"
    /\ local_rounds' \in Rounds
    /\ Accept("alg_parms")
    /\ Served
    /\ UNCHANGED <<contextVars, object, listVars, crash>>

set_environment_variables ==
    /\ request = "environment"
    /\ Accept("environment")
    /\ Served
    /\ UNCHANGED <<contextVars, object, listVars, local_rounds, crash>>

\* Irregular parameters change nothing.  If only the construction of the
\* context fails, both flags are set and the old pointer stays.
set_parms ==
    /\ request = "parms"
    /\ \/ UNCHANGED <<flagVars, contextVars>>
       \/ /\ Accept("parms")
          /\ UNCHANGED contextVars
       \/ /\ Accept("parms")
          /\ working_context' \in Contexts
          /\ contexts' = contexts \cup {working_context'}
    /\ Served
    /\ UNCHANGED <<object, listVars, local_rounds, crash>>

\* What the set_ functions of keys, ciphertexts and lists test.
working_context_set == "parms" \in flags

\* The flag says that there is a context, and there is none.
NullContext == working_context_set /\ working_context = Null

\* Mutant: the flag is set although nothing was loaded.
set_object_NotLoaded(p) ==
    /\ request = p /\ ~NullContext
    /\ \/ working_context_set /\ Accept(p)
       \/ UNCHANGED flagVars
    /\ Served
    /\ UNCHANGED <<contextVars, object, listVars, local_rounds, crash>>

\* set_relin_keys, set_gal_keys, set_long_x, set_split_x.
set_object(p) ==
    /\ request = p /\ ~NullContext
    /\ \/ /\ working_context_set
          /\ object' = [object EXCEPT ![p] = working_context]
          /\ Accept(p)
       \/ UNCHANGED <<object, flagVars>>       \* irregular, or no context yet
    /\ Served
    /\ UNCHANGED <<contextVars, listVars, local_rounds, crash>>

\* The first n entries of a message, loaded in the present context.
Loaded(n) == [k \in 1..n |-> [place |-> k, context |-> working_context]]

\* Mutant: the entries are inserted at the front.
PushBack_Front(s, n) == Loaded(n) \o s

\* The first n entries of a message behind what was loaded before.
PushBack(s, n) == s \o Loaded(n)

Longer(m, n) == IF m < n THEN n ELSE m

\* set_C_li, set_d_li, set_g_li, set_e_one_li: n entries are appended; either
\* these were all and the flag is set, or the next one is irregular.  A value
\* that is no array is a list without entries.
set_list(l) ==
    /\ request = l /\ ~NullContext
    /\ \/ /\ working_context_set
          /\ \E n \in Lengths :
               /\ list' = [list EXCEPT ![l] = PushBack(@, n)]
               /\ first' = [first EXCEPT ![l] = IF list[l] = <<>> THEN n ELSE @]
               /\ \/ Accept(l) /\ longest' = [longest EXCEPT ![l] = Longer(@, n)]
                  \/ UNCHANGED <<flagVars, longest>>
       \/ ~working_context_set /\ UNCHANGED <<flagVars, listVars>>
    /\ Served
    /\ UNCHANGED <<contextVars, object, local_rounds, crash>>

\* The context is dereferenced.
UseNullContext ==
    /\ request \in Objects \cup Lists
    /\ NullContext
    /\ crash' = "context"
    /\ UNCHANGED <<partVars, request, messages, workerVars>>

\* The part is replaced, or the list grows, while the worker reads it.
RacingWrite ==
    /\ \/ worker = "running" /\ request \in Objects \cup Operands
       \/ worker = "started" /\ request = "parms"
    /\ crash' = "race"
    /\ UNCHANGED <<partVars, request, messages, workerVars>>

-----------------------------------------------------------------------------
(* The worker thread *)

\* The management thread has taken the task off the list.
Start ==
    /\ worker = "none"
    /\ full
    /\ worker' = "started"
    /\ UNCHANGED <<partVars, request, messages, round, evaluator, crash>>

\* The first global round: gradientdecent_v4 makes its evaluator.  With
\* global_rounds = 0 there is none.
BeginGlobalRound ==
    /\ worker = "started"
    /\ worker' \in {"running", "done"}
    /\ evaluator' = working_context
    /\ UNCHANGED <<partVars, request, messages, round, crash>>

\* Mutant: one round too many.
MoreRounds_OffByOne == round <= local_rounds

MoreRounds == round < local_rounds

\* One turn of gradientdecent_v4.  Reading past the end of a list is undefined
\* behaviour; an operand of another context makes the evaluator throw.  (The
\* levels and scales of the operands are taken to be what the algorithm needs.)
LocalRound ==
    /\ worker = "running"
    /\ MoreRounds
    /\ IF \E l \in Operands : Len(list[l]) <= round
         THEN crash' = "index" /\ UNCHANGED workerVars
         ELSE /\ IF /\ \A p \in Objects : object[p] = evaluator
                    /\ \A l \in Operands : list[l][round + 1].context = evaluator
                   THEN round' = round + 1 /\ UNCHANGED worker
                   ELSE worker' = "threw" /\ UNCHANGED round
              /\ UNCHANGED <<evaluator, crash>>
    /\ UNCHANGED <<partVars, request, messages>>

\* The rounds are done; the worker waits for the recryption, for good.
AskRecrypt ==
    /\ worker = "running"
    /\ ~MoreRounds
    /\ worker' = "waiting"
    /\ UNCHANGED <<partVars, request, messages, round, evaluator, crash>>

Next ==
    /\ crash = "no"
    /\ \/ \E p \in Parts : Receive(p)
       \/ set_alg_parms \/ set_environment_variables \/ set_parms
       \/ \E p \in Objects : set_object(p)
       \/ \E l \in Lists : set_list(l)
       \/ UseNullContext \/ RacingWrite
       \/ Start \/ BeginGlobalRound \/ LocalRound \/ AskRecrypt

Spec == Init /\ [][Next]_vars

-----------------------------------------------------------------------------
(* Properties *)

Entry == [place : Nat \ {0}, context : Contexts]

TypeOK ==
    /\ flags \subseteq Parts /\ full \in BOOLEAN
    /\ contexts \subseteq Contexts
    /\ working_context \in contexts \cup {Null}
    /\ object \in [Objects -> contexts \cup {Null}]
    /\ list \in [Lists -> Seq(Entry)]
    /\ first \in [Lists -> Nat] /\ longest \in [Lists -> Nat]
    /\ local_rounds \in Rounds \cup {0}
    /\ request \in Parts \cup {"none"}
    /\ messages \in 0..MaxMessages
    /\ worker \in {"none", "started", "running", "waiting", "threw", "done"}
    /\ round \in Nat
    /\ evaluator \in contexts \cup {Null}
    /\ crash \in {"no", "context", "race", "index"}

\* gradientdecent_v4 indexes C_li, d_li and g_li without a test.  In whatever order
\* the parts came, failed or were repeated, it reads past the end of a list only if
\* the client asked for more rounds than any message that was accepted for some
\* list had entries.
NoReadPastEnd ==
    crash = "index" =>
        \E l \in Operands : l \in flags /\ longest[l] < local_rounds

\* In each round the worker uses the entries the client made for this round,
\* although lists are sent again and appended, in full, short or in part.  Only
\* the first message that left anything counts: the rounds for which it, accepted
\* or not, left no entry are the only ones that may be out of step.
OperandsInOrder ==
    worker = "running" =>
        \A l \in Operands :
            round < first[l] => list[l][round + 1].place = round + 1

\* The worker meets operands of two contexts, which makes its evaluator throw,
\* only if the client has sent different parameters for one task; parts that
\* are refused, repeated or out of order never bring that about.
ContextsMixOnlyOnNewParms == worker = "threw" => \E c, d \in contexts : c # d

\* The Qt thread writes to a task whose worker was started only if the client
\* has sent again a part that had been accepted.
OnlyResentPartsRace ==
    worker # "none" /\ request # "none" => request \in flags

Flags == INSTANCE SvmTaskFlags WITH
    Parms <- "parms", got <- flags, started <- worker # "none"

\* Whatever the content of the requests: seen from outside, the task does what
\* the scheduler takes it to do.
ImplementsFlags == Flags!FlagsSpec
=============================================================================
