---------------------------- MODULE SvmTaskProofs ----------------------------
(***************************************************************************)
(* The safety of SvmTask for every set of parts, lists of any length and   *)
(* any number of requests.                                                 *)
(*                                                                         *)
(* The properties speak of the running worker.  They follow from what each *)
(* flag promises of the part it belongs to: IInv says this of objects      *)
(* (ContextInv) and lists (ListInv), and that a worker runs only when all  *)
(* flags are set (WorkerInv).                                              *)
(***************************************************************************)
EXTENDS SvmTask, SequenceTheorems, TLAPS

\* full is what full_check would return.
FullInv == full <=> flags = Parts

WorkerInv ==
    /\ worker # "none" => flags = Parts
    /\ worker \notin {"none", "started"} => evaluator \in contexts
    /\ worker = "threw" => \E c, d \in contexts : c # d

\* What is loaded was loaded in a context that there has been.
ContextInv ==
    /\ contexts # {} => working_context # Null
    /\ \A p \in Objects : p \in flags => object[p] \in contexts
    /\ \A l \in Lists : \A k \in 1..Len(list[l]) : list[l][k].context \in contexts

\* What the first message left is in step.
InStep(l) == \A k \in 1..first[l] : list[l][k].place = k

\* A list is as long as each accepted message, and begins with the first one.
ListInv ==
    \A l \in Lists :
        /\ longest[l] <= Len(list[l])
        /\ first[l] <= Len(list[l])
        /\ InStep(l)

CrashInv ==
    crash = "index" =>
        \E l \in Operands : l \in flags /\ longest[l] < local_rounds

IInv == TypeOK /\ FullInv /\ WorkerInv /\ ContextInv /\ ListInv /\ CrashInv

-----------------------------------------------------------------------------
(* Lists *)

\* What set_list appends is a list of entries, n of them, all of one context.
LEMMA LoadedEntries ==
    ASSUME NEW n \in Nat, working_context \in Contexts
    PROVE  /\ Loaded(n) \in Seq(Entry) /\ Len(Loaded(n)) = n
           /\ \A k \in 1..n : /\ Loaded(n)[k].place = k
                              /\ Loaded(n)[k].context = working_context
<1>1. \A k \in 1..n : [place |-> k, context |-> working_context] \in Entry
  BY DEF Entry
<1>2. Loaded(n) \in Seq(Entry)
  <2>1. Loaded(n) \in [1..n -> Entry]
    BY <1>1 DEF Loaded
  <2>. QED BY <2>1, SeqDef
<1>3. Len(Loaded(n)) = n
  <2>1. DOMAIN Loaded(n) = 1..n
    BY DEF Loaded
  <2>2. DOMAIN Loaded(n) = 1..Len(Loaded(n)) /\ Len(Loaded(n)) \in Nat
    BY <1>2, LenProperties
  <2>. QED BY <2>1, <2>2
<1>. QED BY <1>2, <1>3 DEF Loaded

\* Appending the first n entries of a message keeps what was there.
LEMMA AppendLoaded ==
    ASSUME NEW s \in Seq(Entry), NEW n \in Nat, working_context \in Contexts
    PROVE  /\ PushBack(s, n) \in Seq(Entry)
           /\ Len(PushBack(s, n)) = Len(s) + n
           /\ Len(s) \in Nat
           /\ \A k \in 1..Len(s) : PushBack(s, n)[k] = s[k]
           /\ \A k \in 1..(Len(s) + n) :
                 \/ k \in 1..Len(s) /\ PushBack(s, n)[k] = s[k]
                 \/ /\ k > Len(s)
                    /\ PushBack(s, n)[k].place = k - Len(s)
                    /\ PushBack(s, n)[k].context = working_context
<1>. DEFINE t == Loaded(n)
<1>0. Len(s) \in Nat
  BY LenProperties
<1>1. /\ t \in Seq(Entry) /\ Len(t) = n
      /\ \A k \in 1..n : t[k].place = k /\ t[k].context = working_context
  BY LoadedEntries
<1>. HIDE DEF t
<1>2. /\ s \o t \in Seq(Entry)
      /\ Len(s \o t) = Len(s) + n
      /\ \A k \in 1..Len(s) + n :
            (s \o t)[k] = IF k <= Len(s) THEN s[k] ELSE t[k - Len(s)]
  BY <1>1, ConcatProperties
<1>3. \A k \in 1..Len(s) : (s \o t)[k] = s[k]
  BY <1>0, <1>2
<1>4. ASSUME NEW k \in 1..(Len(s) + n)
      PROVE  \/ k \in 1..Len(s) /\ (s \o t)[k] = s[k]
             \/ /\ k > Len(s)
                /\ (s \o t)[k].place = k - Len(s)
                /\ (s \o t)[k].context = working_context
  <2>1. CASE k <= Len(s)
    BY <1>0, <1>2, <2>1
  <2>2. CASE k > Len(s)
    <3>1. k - Len(s) \in 1..n
      BY <1>0, <2>2
    <3>2. (s \o t)[k] = t[k - Len(s)]
      BY <1>0, <1>2, <2>2
    <3>. QED BY <1>1, <2>2, <3>1, <3>2
  <2>3. k <= Len(s) \/ k > Len(s)
    BY <1>0
  <2>. QED BY <2>1, <2>2, <2>3
<1>. QED BY <1>0, <1>2, <1>3, <1>4 DEF t, PushBack

-----------------------------------------------------------------------------
(* The steps of the Qt thread *)

\* The parts are told apart by their names.
LEMMA PartNames ==
    /\ "parms" \in Parts /\ "alg_parms" \in Parts /\ "environment" \in Parts
    /\ "parms" \notin Lists /\ "alg_parms" \notin Lists /\ "environment" \notin Lists
    /\ "parms" \notin Objects /\ "alg_parms" \notin Objects
    /\ "environment" \notin Objects
    /\ "none" \notin Parts
    /\ Objects \subseteq Parts /\ Lists \subseteq Parts
    /\ \A p \in Objects : p \notin Lists
BY PartsAssumption DEF Parts, Settings

\* The end of a set_ function keeps the type of the flags, full exact, and the
\* flags of a started task set.
LEMMA AcceptFlags ==
    ASSUME TypeOK, FullInv, NEW p \in Parts, Accept(p)
    PROVE  /\ flags' \subseteq Parts /\ full' \in BOOLEAN
           /\ full' <=> flags' = Parts
           /\ flags = Parts => flags' = Parts
           /\ flags' = flags \cup {p}
BY DEF TypeOK, FullInv, Accept

\* The settings: no list or object is touched.
LEMMA SettingsStep ==
    ASSUME IInv, crash = "no", set_alg_parms \/ set_environment_variables
    PROVE  IInv'
<1>1. PICK p \in {"alg_parms", "environment"} : Accept(p)
  BY DEF set_alg_parms, set_environment_variables
<1>2. /\ UNCHANGED <<contextVars, object, listVars, crash>> /\ Served
      /\ local_rounds' \in Rounds \cup {0}
  BY DEF set_alg_parms, set_environment_variables, IInv, TypeOK
<1>3. p \in Parts /\ p \notin Lists /\ p \notin Objects
  BY PartNames
<1>4. /\ flags' \subseteq Parts /\ full' \in BOOLEAN /\ (full' <=> flags' = Parts)
      /\ flags = Parts => flags' = Parts
      /\ flags' = flags \cup {p}
  BY <1>1, <1>3, AcceptFlags DEF IInv
<1>5. TypeOK'
  BY <1>2, <1>4 DEF IInv, listVars, TypeOK, Served, contextVars, workerVars
<1>6. FullInv'
  BY <1>4 DEF FullInv
<1>7. WorkerInv'
  BY <1>2, <1>4 DEF IInv, WorkerInv, Served, contextVars, workerVars
<1>8. ContextInv'
  BY <1>2, <1>3, <1>4 DEF IInv, listVars, ContextInv, contextVars
<1>9. ListInv'
  BY <1>2, <1>3, <1>4 DEF IInv, ListInv, InStep, listVars
<1>10. CrashInv'
  BY <1>2 DEF CrashInv
<1>. QED BY <1>5, <1>6, <1>7, <1>8, <1>9, <1>10 DEF IInv

\* The parameters: the context may be replaced, what was loaded stays.
LEMMA ParmsStep ==
    ASSUME IInv, crash = "no", set_parms
    PROVE  IInv'
<1>1. /\ UNCHANGED <<object, listVars, local_rounds, crash>> /\ Served
      /\ \/ UNCHANGED flagVars
         \/ Accept("parms")
      /\ \/ UNCHANGED contextVars
         \/ working_context' \in Contexts /\ contexts' = contexts \cup {working_context'}
  BY DEF set_parms
<1>2. /\ flags' \subseteq Parts /\ full' \in BOOLEAN /\ (full' <=> flags' = Parts)
      /\ flags = Parts => flags' = Parts
      /\ flags' = flags \/ flags' = flags \cup {"parms"}
  BY <1>1, PartNames, AcceptFlags DEF IInv, TypeOK, FullInv, flagVars
<1>3. /\ contexts \subseteq contexts' /\ contexts' \subseteq Contexts
      /\ working_context' \in contexts' \cup {Null}
      /\ contexts' # {} => working_context' # Null
  BY <1>1, ContextsAssumption DEF IInv, TypeOK, ContextInv, contextVars
<1>4. /\ "parms" \notin Lists /\ "parms" \notin Objects
  BY PartNames
<1>5. TypeOK'
  <2>1. object' \in [Objects -> contexts' \cup {Null}]
    BY <1>1, <1>3 DEF IInv, TypeOK
  <2>2. list' \in [Lists -> Seq(Entry)]
    BY <1>1 DEF IInv, listVars, TypeOK
  <2>. QED BY <1>1, <1>2, <1>3, <2>1, <2>2 DEF IInv, listVars, TypeOK, Served, workerVars, Entry
<1>6. FullInv'
  BY <1>2 DEF FullInv
<1>7. WorkerInv'
  BY <1>1, <1>2, <1>3 DEF IInv, WorkerInv, Served, workerVars
<1>8. ContextInv'
  BY <1>1, <1>2, <1>3, <1>4 DEF IInv, listVars, ContextInv
<1>9. ListInv'
  BY <1>1, <1>2, <1>4 DEF IInv, ListInv, InStep, listVars
<1>10. CrashInv'
  BY <1>1 DEF IInv, CrashInv
<1>. QED BY <1>5, <1>6, <1>7, <1>8, <1>9, <1>10 DEF IInv

\* A key or ciphertext: loaded in the present context, or left as it was.
LEMMA ObjectStep ==
    ASSUME IInv, crash = "no", NEW p \in Objects, set_object(p)
    PROVE  IInv'
<1>1. /\ UNCHANGED <<contextVars, listVars, local_rounds, crash>> /\ Served
      /\ \/ UNCHANGED <<object, flagVars>>
         \/ /\ working_context # Null
            /\ object' = [object EXCEPT ![p] = working_context]
            /\ Accept(p)
  BY DEF set_object, NullContext
<1>2. p \in Parts /\ p \notin Lists
  BY PartNames
<1>3. /\ flags' \subseteq Parts /\ full' \in BOOLEAN /\ (full' <=> flags' = Parts)
      /\ flags = Parts => flags' = Parts
      /\ flags' = flags \/ flags' = flags \cup {p}
  BY <1>1, <1>2, AcceptFlags DEF IInv, TypeOK, FullInv, flagVars
<1>4. object' \in [Objects -> contexts \cup {Null}]
  BY <1>1 DEF IInv, TypeOK
<1>5. \A q \in Objects : q \in flags' => object'[q] \in contexts
  <2>1. CASE UNCHANGED <<object, flagVars>>
    BY <2>1 DEF IInv, ContextInv, flagVars
  <2>2. CASE /\ working_context # Null
             /\ object' = [object EXCEPT ![p] = working_context]
             /\ Accept(p)
    <3>1. working_context \in contexts
      BY <2>2 DEF IInv, TypeOK
    <3>2. flags' = flags \cup {p} /\ object \in [Objects -> contexts \cup {Null}]
      BY <2>2 DEF Accept, IInv, TypeOK
    <3>. QED BY <2>2, <3>1, <3>2 DEF IInv, ContextInv
  <2>. QED BY <1>1, <2>1, <2>2
<1>6. TypeOK'
  BY <1>1, <1>3, <1>4 DEF IInv, listVars, TypeOK, Served, contextVars, workerVars
<1>7. FullInv'
  BY <1>3 DEF FullInv
<1>8. WorkerInv'
  BY <1>1, <1>3 DEF IInv, WorkerInv, Served, contextVars, workerVars
<1>9. ContextInv'
  BY <1>1, <1>5 DEF IInv, listVars, ContextInv, contextVars
<1>10. ListInv'
  BY <1>1, <1>2, <1>3 DEF IInv, listVars, ListInv, InStep
<1>11. CrashInv'
  BY <1>1 DEF IInv, CrashInv
<1>. QED BY <1>6, <1>7, <1>8, <1>9, <1>10, <1>11 DEF IInv

\* What the grown list l holds, whether the message was accepted or not.
LEMMA GrownList ==
    ASSUME IInv, NEW l \in Lists, working_context \in contexts, NEW n \in Nat,
           list' = [list EXCEPT ![l] = PushBack(@, n)],
           first' = [first EXCEPT ![l] = IF list[l] = <<>> THEN n ELSE @],
           longest' \in {longest, [longest EXCEPT ![l] = Longer(@, n)]}
    PROVE  /\ list'[l] \in Seq(Entry)
           /\ first'[l] \in Nat /\ longest'[l] \in Nat
           /\ longest'[l] <= Len(list'[l]) /\ first'[l] <= Len(list'[l])
           /\ InStep(l)'
           /\ \A k \in 1..Len(list'[l]) : list'[l][k].context \in contexts
<1>. DEFINE s == list[l]
            t == PushBack(s, n)
            f == first[l]
            m == longest[l]
<1>1. /\ s \in Seq(Entry) /\ list'[l] = t /\ Len(s) \in Nat
      /\ f \in Nat /\ m \in Nat
      /\ first'[l] = IF s = <<>> THEN n ELSE f
      /\ longest'[l] \in {m, Longer(m, n)}
      /\ working_context \in Contexts
  BY LenProperties DEF IInv, TypeOK
<1>2. /\ t \in Seq(Entry) /\ Len(t) = Len(s) + n
      /\ \A k \in 1..Len(s) : t[k] = s[k]
      /\ \A k \in 1..(Len(s) + n) :
            \/ k \in 1..Len(s) /\ t[k] = s[k]
            \/ /\ k > Len(s)
               /\ t[k].place = k - Len(s)
               /\ t[k].context = working_context
  BY <1>1, AppendLoaded
<1>3. /\ f <= Len(s) /\ m <= Len(s)
      /\ \A k \in 1..f : s[k].place = k
      /\ \A k \in 1..Len(s) : s[k].context \in contexts
  BY DEF IInv, ListInv, InStep, ContextInv
<1>. HIDE DEF s, t, f, m
<1>4. longest'[l] \in Nat /\ longest'[l] <= Len(t)
  BY <1>1, <1>2, <1>3 DEF Longer
<1>5. /\ first'[l] \in Nat /\ first'[l] <= Len(t)
      /\ \A k \in 1..first'[l] : t[k].place = k
  <2>1. CASE s = <<>>
    <3>1. Len(s) = 0 /\ first'[l] = n
      BY <1>1, <2>1
    <3>. QED BY <1>2, <3>1
  <2>2. CASE s # <<>>
    <3>1. first'[l] = f /\ f <= Len(t)
      BY <1>1, <1>2, <1>3, <2>2
    <3>2. ASSUME NEW k \in 1..f
          PROVE  t[k].place = k
      <4>1. k \in 1..Len(s)
        BY <1>1, <1>3
      <4>2. t[k] = s[k]
        BY <1>2, <4>1
      <4>. QED BY <1>3, <4>2
    <3>. QED BY <1>1, <3>1, <3>2
  <2>. QED BY <2>1, <2>2
<1>6. \A k \in 1..Len(t) : t[k].context \in contexts
  BY <1>2, <1>3
<1>. QED BY <1>1, <1>2, <1>4, <1>5, <1>6 DEF InStep

\* A list: it grows by a message or a part of one, or is refused.
LEMMA ListStep ==
    ASSUME IInv, crash = "no", NEW l \in Lists, set_list(l)
    PROVE  IInv'
<1>1. /\ UNCHANGED <<contextVars, object, local_rounds, crash>> /\ Served
      /\ l \in Parts /\ l \notin Objects
  BY PartNames DEF set_list
<1>2. CASE UNCHANGED <<flagVars, listVars>>
  BY <1>1, <1>2
     DEF IInv, TypeOK, FullInv, WorkerInv, ContextInv, ListInv, InStep, CrashInv,
         Served, flagVars, contextVars, listVars, workerVars
<1>3. ASSUME working_context \in contexts, NEW n \in Lengths,
             list' = [list EXCEPT ![l] = PushBack(@, n)],
             first' = [first EXCEPT ![l] = IF list[l] = <<>> THEN n ELSE @],
             \/ Accept(l) /\ longest' = [longest EXCEPT ![l] = Longer(@, n)]
             \/ UNCHANGED <<flagVars, longest>>
      PROVE  IInv'
  <2>1. /\ flags' \subseteq Parts /\ full' \in BOOLEAN /\ (full' <=> flags' = Parts)
        /\ flags = Parts => flags' = Parts
        /\ flags' = flags \/ flags' = flags \cup {l}
    BY <1>1, <1>3, AcceptFlags DEF IInv, TypeOK, FullInv, flagVars
  <2>2. /\ list'[l] \in Seq(Entry)
        /\ first'[l] \in Nat /\ longest'[l] \in Nat
        /\ longest'[l] <= Len(list'[l]) /\ first'[l] <= Len(list'[l])
        /\ InStep(l)'
        /\ \A k \in 1..Len(list'[l]) : list'[l][k].context \in contexts
    <3>1. n \in Nat
      BY BoundsAssumption
    <3>2. longest' \in {longest, [longest EXCEPT ![l] = Longer(@, n)]}
      BY <1>3
    <3>. QED BY <1>3, <3>1, <3>2, GrownList
  <2>3. /\ DOMAIN list' = Lists /\ list' = [m \in Lists |-> list'[m]]
        /\ DOMAIN first' = Lists /\ first' = [m \in Lists |-> first'[m]]
        /\ DOMAIN longest' = Lists /\ longest' = [m \in Lists |-> longest'[m]]
        /\ \A m \in Lists : m # l => /\ list'[m] = list[m]
                                     /\ first'[m] = first[m]
                                     /\ longest'[m] = longest[m]
    BY <1>3 DEF IInv, TypeOK
  <2>4. list' \in [Lists -> Seq(Entry)]
    BY <2>2, <2>3 DEF IInv, TypeOK
  <2>5. first' \in [Lists -> Nat] /\ longest' \in [Lists -> Nat]
    BY <2>2, <2>3 DEF IInv, TypeOK
  <2>6. TypeOK'
    BY <1>1, <2>1, <2>4, <2>5
       DEF IInv, TypeOK, Served, contextVars, workerVars, Entry
  <2>7. FullInv'
    BY <2>1 DEF FullInv
  <2>8. WorkerInv'
    BY <1>1, <2>1 DEF IInv, WorkerInv, Served, contextVars, workerVars
  <2>9. ContextInv'
    <3>1. \A p \in Objects : p \in flags' => object'[p] \in contexts'
      BY <1>1, <2>1 DEF IInv, ContextInv, contextVars
    <3>2. ASSUME NEW m \in Lists
          PROVE  \A k \in 1..Len(list'[m]) : list'[m][k].context \in contexts'
      BY <1>1, <2>2, <2>3 DEF IInv, ContextInv, contextVars
    <3>. QED BY <1>1, <3>1, <3>2 DEF IInv, ContextInv, contextVars
  <2>10. ListInv'
    <3>1. ASSUME NEW m \in Lists, m # l
          PROVE  /\ longest'[m] <= Len(list'[m]) /\ first'[m] <= Len(list'[m])
                 /\ InStep(m)'
      BY <2>3, <3>1 DEF IInv, ListInv, InStep
    <3>. QED BY <2>2, <3>1 DEF ListInv, InStep
  <2>11. CrashInv'
    BY <1>1 DEF CrashInv
  <2>. QED BY <2>6, <2>7, <2>8, <2>9, <2>10, <2>11 DEF IInv
<1>4. \/ UNCHANGED <<flagVars, listVars>>
      \/ working_context \in contexts
  BY DEF set_list, NullContext, IInv, TypeOK
<1>. QED BY <1>2, <1>3, <1>4 DEF set_list

-----------------------------------------------------------------------------
(* The other steps *)

\* The requests that arrive, and the accesses with undefined behaviour of the
\* Qt thread.
LEMMA RequestStep ==
    ASSUME IInv, crash = "no",
           (\E p \in Parts : Receive(p)) \/ UseNullContext \/ RacingWrite
    PROVE  IInv'
<1>1. UNCHANGED <<partVars, workerVars>>
  BY DEF Receive, UseNullContext, RacingWrite
<1>2. /\ request' \in Parts \cup {"none"} /\ messages' \in 0..MaxMessages
      /\ crash' \in {"no", "context", "race"}
  BY BoundsAssumption DEF Receive, UseNullContext, RacingWrite, IInv, TypeOK
<1>. QED
  BY <1>1, <1>2 DEF IInv, listVars, TypeOK, FullInv, WorkerInv, ContextInv, ListInv, InStep,
                    CrashInv, partVars, flagVars, contextVars, workerVars, Entry

\* The steps of the worker.
LEMMA WorkerStep ==
    ASSUME IInv, crash = "no", Start \/ BeginGlobalRound \/ LocalRound \/ AskRecrypt
    PROVE  IInv'
<1>1. UNCHANGED <<partVars, request, messages>>
  BY DEF Start, BeginGlobalRound, LocalRound, AskRecrypt
<1>2. FullInv' /\ ContextInv' /\ ListInv'
  BY <1>1 DEF IInv, listVars, FullInv, ContextInv, ListInv, InStep, partVars, flagVars, contextVars
<1>3. flags = Parts => \A p \in Objects : object[p] \in contexts
  BY PartNames DEF IInv, ContextInv
<1>4. flags = Parts => working_context \in contexts
  BY <1>3, PartsAssumption DEF IInv, TypeOK, ContextInv
<1>5. CASE Start
  BY <1>1, <1>2, <1>5
     DEF listVars, Start, IInv, TypeOK, FullInv, WorkerInv, CrashInv,
         partVars, flagVars, contextVars, Entry
<1>6. CASE BeginGlobalRound
  BY <1>1, <1>2, <1>4, <1>6
     DEF listVars, BeginGlobalRound, IInv, TypeOK, WorkerInv, CrashInv,
         partVars, flagVars, contextVars, Entry
<1>7. CASE AskRecrypt
  BY <1>1, <1>2, <1>7
     DEF listVars, AskRecrypt, IInv, TypeOK, WorkerInv, CrashInv,
         partVars, flagVars, contextVars, Entry
<1>8. CASE LocalRound
  <2>1. flags = Parts /\ evaluator \in contexts
    BY <1>8 DEF LocalRound, IInv, WorkerInv
  <2>2. /\ round \in Nat /\ local_rounds \in Int
        /\ round < local_rounds
    BY <1>8, BoundsAssumption DEF LocalRound, MoreRounds, IInv, TypeOK
  <2>3. \A l \in Operands :
           /\ l \in Lists /\ l \in flags
           /\ longest[l] \in Nat /\ longest[l] <= Len(list[l])
           /\ Len(list[l]) \in Nat
    <3>1. \A l \in Operands : l \in Lists /\ l \in flags
      BY <2>1, PartNames, PartsAssumption
    <3>2. \A l \in Lists : list[l] \in Seq(Entry) /\ longest[l] \in Nat
      BY DEF IInv, TypeOK
    <3>. QED BY <3>1, <3>2, LenProperties DEF IInv, ListInv
  <2>4. CASE \E l \in Operands : Len(list[l]) <= round
    <3>1. \E l \in Operands : l \in flags /\ longest[l] < local_rounds
      BY <2>2, <2>3, <2>4
    <3>. QED BY <1>1, <1>2, <1>8, <2>4, <3>1
             DEF listVars, LocalRound, IInv, TypeOK, WorkerInv, CrashInv,
                 partVars, flagVars, contextVars, workerVars, Entry
  <2>5. CASE ~\E l \in Operands : Len(list[l]) <= round
    <3>1. /\ UNCHANGED <<evaluator, crash>>
          /\ \/ round' = round + 1 /\ UNCHANGED worker
             \/ /\ worker' = "threw" /\ UNCHANGED round
                /\ \/ \E p \in Objects : object[p] # evaluator
                   \/ \E l \in Operands : list[l][round + 1].context # evaluator
      BY <1>8, <2>5 DEF LocalRound
    <3>2. \A l \in Operands : list[l][round + 1].context \in contexts
      <4>. SUFFICES ASSUME NEW l \in Operands
                    PROVE  list[l][round + 1].context \in contexts
        OBVIOUS
      <4>1. round + 1 \in 1..Len(list[l])
        BY <2>2, <2>3, <2>5
      <4>. QED BY <2>3, <4>1 DEF IInv, ContextInv
    <3>3. \A p \in Objects : object[p] \in contexts
      BY <1>3, <2>1
    <3>4. worker' = "threw" => \E c, d \in contexts : c # d
      BY <1>8, <2>1, <3>1, <3>2, <3>3 DEF LocalRound
    <3>5. worker' \in {"running", "threw"} /\ round' \in Nat
      BY <1>8, <2>2, <3>1 DEF LocalRound
    <3>. QED BY <1>1, <1>2, <2>1, <3>1, <3>4, <3>5
             DEF IInv, listVars, TypeOK, WorkerInv, CrashInv,
                 partVars, flagVars, contextVars, workerVars, Entry
  <2>. QED BY <2>4, <2>5
<1>. QED BY <1>5, <1>6, <1>7, <1>8

-----------------------------------------------------------------------------
(* The theorems *)

\* IInv holds in every reachable state.
THEOREM Invariance == Spec => []IInv
<1>1. Init => IInv
  <2>. SUFFICES ASSUME Init PROVE IInv
    OBVIOUS
  <2>1. "parms" \in Parts
    BY PartNames
  <2>2. [l \in Lists |-> <<>>] \in [Lists -> Seq(Entry)]
    OBVIOUS
  <2>3. TypeOK
    <3>1. object \in [Objects -> contexts \cup {Null}]
      BY DEF Init
    <3>2. list \in [Lists -> Seq(Entry)]
      BY <2>2 DEF Init
    <3>3. messages \in 0..MaxMessages
      BY BoundsAssumption DEF Init
    <3>. QED BY <3>1, <3>2, <3>3 DEF Init, TypeOK
  <2>4. FullInv
    BY <2>1 DEF Init, FullInv
  <2>5. WorkerInv /\ CrashInv
    BY DEF Init, WorkerInv, CrashInv
  <2>6. \A l \in Lists : list[l] = <<>> /\ Len(list[l]) = 0
    BY DEF Init
  <2>7. ContextInv
    BY <2>6 DEF Init, ContextInv
  <2>8. ListInv
    BY <2>6 DEF Init, ListInv, InStep
  <2>. QED BY <2>3, <2>4, <2>5, <2>7, <2>8 DEF IInv
<1>2. IInv /\ [Next]_vars => IInv'
  <2>. SUFFICES ASSUME IInv, [Next]_vars PROVE IInv'
    OBVIOUS
  <2>1. CASE UNCHANGED vars
    <3>1. UNCHANGED <<partVars, request, messages, workerVars, crash>>
      BY <2>1 DEF vars
    <3>2. TypeOK' /\ FullInv' /\ WorkerInv'
      BY <3>1 DEF IInv, TypeOK, FullInv, WorkerInv, Entry,
                  partVars, listVars, flagVars, contextVars, workerVars
    <3>3. ContextInv' /\ ListInv' /\ CrashInv'
      BY <3>1 DEF IInv, ContextInv, ListInv, InStep, CrashInv,
                  partVars, listVars, flagVars, contextVars, workerVars
    <3>. QED BY <3>2, <3>3 DEF IInv
  <2>2. CASE Next
    BY <2>2, RequestStep, SettingsStep, ParmsStep, ObjectStep, ListStep, WorkerStep
       DEF Next
  <2>. QED BY <2>1, <2>2
<1>. QED BY <1>1, <1>2, PTL DEF Spec

\* The variables keep their types.
THEOREM TypeCorrect == Spec => []TypeOK
<1>1. IInv => TypeOK
  BY DEF IInv
<1>. QED BY <1>1, Invariance, PTL

\* An index of the worker is out of range only if more rounds were asked for than
\* any accepted message of some operand had entries, for lists of any lengths.
THEOREM IndicesInRange == Spec => []NoReadPastEnd
<1>1. IInv => NoReadPastEnd
  BY DEF IInv, CrashInv, NoReadPastEnd
<1>. QED BY <1>1, Invariance, PTL

\* The worker pairs the entries of one round, in every round for which the first
\* message of each list, accepted or not, short or not, left an entry.
THEOREM RoundsInOrder == Spec => []OperandsInOrder
<1>1. IInv => OperandsInOrder
  <2>. SUFFICES ASSUME IInv, NEW l \in Operands, round < first[l]
                PROVE  list[l][round + 1].place = round + 1
    BY DEF OperandsInOrder
  <2>1. l \in Lists
    BY PartsAssumption
  <2>2. round + 1 \in 1..first[l]
    BY <2>1 DEF IInv, TypeOK
  <2>. QED BY <2>1, <2>2 DEF IInv, ListInv, InStep
<1>. QED BY <1>1, Invariance, PTL

\* A worker that throws over its operands was sent different parameters.
THEOREM OneContext == Spec => []ContextsMixOnlyOnNewParms
<1>1. IInv => ContextsMixOnlyOnNewParms
  BY DEF IInv, WorkerInv, ContextsMixOnlyOnNewParms
<1>. QED BY <1>1, Invariance, PTL

\* What the Qt thread writes to a started task had been accepted before.
THEOREM LateWritesAreRepeats == Spec => []OnlyResentPartsRace
<1>1. IInv => OnlyResentPartsRace
  BY DEF IInv, TypeOK, WorkerInv, OnlyResentPartsRace
<1>. QED BY <1>1, Invariance, PTL

-----------------------------------------------------------------------------
(* The contract of a task *)

\* Accepting a part is setting its flag, if the part may be accepted.
LEMMA AcceptIsSetFlag ==
    ASSUME NEW p \in Parts, Accept(p), UNCHANGED worker,
           p \in Settings \cup {"parms"} \/ working_context_set
    PROVE  Flags!FlagsNext
<1>1. Flags!SetFlag(p)
  BY DEF Accept, Flags!SetFlag, working_context_set
<1> QED BY <1>1 DEF Flags!FlagsNext

\* What is loaded into the task, and where, does not show outside.
THEOREM Refinement == Spec => ImplementsFlags
<1>1. Init => Flags!FlagsInit
  BY DEF Init, Flags!FlagsInit
<1>2. ASSUME IInv, [Next]_vars
      PROVE  [Flags!FlagsNext]_(Flags!flagVars)
  <2> USE DEF Flags!flagVars, flagVars
  <2>1. CASE set_alg_parms \/ set_environment_variables
    <3>1. \E p \in Settings : Accept(p) /\ UNCHANGED worker
      BY <2>1 DEF set_alg_parms, set_environment_variables, Served, workerVars, Settings
    <3> QED BY <3>1, AcceptIsSetFlag DEF Parts
  <2>2. CASE set_parms
    BY <2>2, AcceptIsSetFlag DEF set_parms, Served, workerVars, Parts
  <2>3. ASSUME NEW p \in Objects, set_object(p)
        PROVE  [Flags!FlagsNext]_(Flags!flagVars)
    BY <2>3, AcceptIsSetFlag DEF set_object, Served, workerVars, Parts
  <2>4. ASSUME NEW l \in Lists, set_list(l)
        PROVE  [Flags!FlagsNext]_(Flags!flagVars)
    <3>1. UNCHANGED worker
      BY <2>4 DEF set_list, Served, workerVars
    <3>2. UNCHANGED flagVars \/ (working_context_set /\ Accept(l))
      <4>1. CASE working_context_set /\ (Accept(l) \/ UNCHANGED <<flagVars, longest>>)
        BY <4>1
      <4>2. CASE UNCHANGED <<flagVars, listVars>>
        BY <4>2
      <4> QED BY <2>4, <4>1, <4>2, Zenon DEF set_list
    <3> QED BY <3>1, <3>2, AcceptIsSetFlag DEF Parts
  <2>5. CASE Start
    <3>1. Flags!Start
      BY <2>5 DEF Start, Flags!Start, partVars
    <3> QED BY <3>1 DEF Flags!FlagsNext
  <2>6. CASE BeginGlobalRound \/ LocalRound \/ AskRecrypt
    <3>1. UNCHANGED flagVars /\ worker # "none" /\ worker' # "none"
      BY <2>6 DEF BeginGlobalRound, LocalRound, AskRecrypt, partVars, workerVars
    <3> QED BY <3>1
  <2>7. CASE UseNullContext \/ RacingWrite \/ (\E p \in Parts : Receive(p)) \/ UNCHANGED vars
    <3>1. UNCHANGED <<flagVars, worker>>
      BY <2>7 DEF UseNullContext, RacingWrite, Receive, vars, partVars, workerVars
    <3> QED BY <3>1
  <2> QED
    BY <1>2, <2>1, <2>2, <2>3, <2>4, <2>5, <2>6, <2>7 DEF Next
<1> QED BY <1>1, <1>2, Invariance, PTL DEF Spec, ImplementsFlags, Flags!FlagsSpec
=============================================================================
