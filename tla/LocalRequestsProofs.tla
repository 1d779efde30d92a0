------------------------- MODULE LocalRequestsProofs -------------------------
(***************************************************************************)
(* However many aggregations nest their fetches, each is encrypted under   *)
(* the key that was sent for it.                                           *)
(*                                                                         *)
(* The argument is that the stack belongs to the requests one to one: a    *)
(* request waits in one place of the stack only, and that place holds what *)
(* the agent sent for it.                                                  *)
(***************************************************************************)
EXTENDS LocalRequests, SequenceTheorems, TLAPS

\* No two fetches are for the same request.
OneFetchEach ==
    \A j, k \in DOMAIN calls : calls[j].request = calls[k].request => j = k

\* A fetch knows its request: where it was made for, and what it was sent.
FetchesInv ==
    \A k \in DOMAIN calls :
        LET c == calls[k] IN
          /\ outcome[c.request] = "none"
          /\ source[c.request] = c.source
          /\ sent[c.request] = IF c.reply = "none" THEN Null ELSE c.reply

\* Nothing was asked or sent for a request that has not been handed over.
FreshInv ==
    \A r \in Requests :
        outcome[r] = "none" /\ r \notin Waiting => source[r] = "none" /\ sent[r] = Null

IInv == TypeOK /\ OneFetchEach /\ FetchesInv /\ FreshInv /\ SumUnderFetchedKey

-----------------------------------------------------------------------------
LEMMA InitIInv == Init => IInv
  <1> SUFFICES ASSUME Init PROVE IInv
    OBVIOUS
  <1>1. DOMAIN calls = {}
    BY DEF Init
  <1>2. TypeOK
    BY NumbersAssumption DEF Init, TypeOK, Replies, Null
  <1>3. OneFetchEach /\ FetchesInv
    BY <1>1 DEF OneFetchEach, FetchesInv
  <1>4. FreshInv /\ SumUnderFetchedKey
    BY DEF Init, FreshInv, SumUnderFetchedKey
  <1> QED
    BY <1>2, <1>3, <1>4 DEF IInv

\* Where the names of requests end up on the stack.
LEMMA StackTop ==
    ASSUME NEW CT, NEW s \in Seq(CT), s # <<>>
    PROVE  /\ Len(s) \in DOMAIN s /\ s[Len(s)] \in CT
           /\ SubSeq(s, 1, Len(s) - 1) \in Seq(CT)
           /\ DOMAIN SubSeq(s, 1, Len(s) - 1) = 1 .. Len(s) - 1
           /\ \A k \in 1 .. Len(s) - 1 :
                  k \in DOMAIN s /\ k # Len(s) /\ SubSeq(s, 1, Len(s) - 1)[k] = s[k]
  <1>0. Len(s) \in Nat \ {0}
    BY EmptySeq, Zenon
  <1>1. Len(s) \in Nat /\ Len(s) # 0 /\ DOMAIN s = 1 .. Len(s)
    BY <1>0, LenProperties
  <1>2. Len(s) \in DOMAIN s /\ s[Len(s)] \in CT
    BY <1>1, ElementOfSeq
  <1>3. /\ SubSeq(s, 1, Len(s) - 1) \in Seq(CT)
        /\ DOMAIN SubSeq(s, 1, Len(s) - 1) = 1 .. Len(s) - 1
        /\ \A k \in 1 .. Len(s) - 1 : SubSeq(s, 1, Len(s) - 1)[k] = s[k]
    BY <1>1, SMTT(30)
  <1>4. \A k \in 1 .. Len(s) - 1 : k \in DOMAIN s /\ k # Len(s)
    <2>1. ASSUME NEW n \in Nat, NEW k \in 1 .. n - 1
          PROVE  k \in 1 .. n /\ k # n
      OBVIOUS
    <2> QED
      BY <1>1, <2>1
  <1> QED
    BY <1>2, <1>3, <1>4

\* Something is thrown: nothing waits any more, and nobody is answered.
LEMMA TerminateStep ==
    ASSUME IInv, NEW r \in Requests, outcome[r] = "none", Terminate(r),
           source' \in [Requests -> Sources \cup {"none"}],
           \A q \in Requests : q # r => source'[q] = source[q],
           known' \in [Services -> Services \cup {Null, Empty, Unusable}],
           orphans' \in Nat, faults' \in 0..MaxFaults, UNCHANGED sent
    PROVE  IInv'
  <1> USE DEF IInv, TypeOK, Terminate
  <1>1. calls' = <<>> /\ DOMAIN calls' = {} /\ Waiting' = {}
    BY DEF Waiting
  <1>2. outcome' \in [Requests -> {"none", "answered", "refused", "dropped", "lost"}]
    OBVIOUS
  <1>3. calls' \in Seq([request : Requests, source : Sources,
                        id : Services \cup {Null}, reply : Replies])
    BY <1>1
  <1>4. TypeOK'
    BY <1>1, <1>2, <1>3
  <1>5. OneFetchEach' /\ FetchesInv'
    BY <1>1 DEF OneFetchEach, FetchesInv
  <1>6. FreshInv'
    BY <1>1 DEF FreshInv
  <1>7. SumUnderFetchedKey'
    BY DEF SumUnderFetchedKey
  <1> QED
    BY <1>4, <1>5, <1>6, <1>7

\* A request that never waited, and is not for a foreign source, is answered.
LEMMA AnsweredAtOnce ==
    ASSUME IInv, NEW r \in Requests, Handled(r),
           NEW o \in {"answered", "refused", "dropped"}, Answered(r, o),
           usedKey' \in [Requests -> Services \cup {"none", "own"}],
           \A q \in Requests : q # r => usedKey'[q] = usedKey[q],
           UNCHANGED <<calls, tableVars, source, sent>>
    PROVE  IInv'
  <1> USE DEF IInv, TypeOK, Answered, Handled, tableVars
  <1>1. TypeOK'
    OBVIOUS
  <1>2. OneFetchEach'
    BY DEF OneFetchEach
  <1>3. FetchesInv'
    <2>1. \A k \in DOMAIN calls : calls[k].request # r
      BY DEF Waiting
    <2> QED
      BY <2>1 DEF FetchesInv
  <1>4. FreshInv'
    BY DEF FreshInv, Waiting
  <1>5. SumUnderFetchedKey'
    BY DEF SumUnderFetchedKey, FreshInv
  <1> QED
    BY <1>1, <1>2, <1>3, <1>4, <1>5

LEMMA EncryptStep ==
    ASSUME IInv, NEW r \in Requests, handle_local_encrypt(r)
    PROVE  IInv'
  <1>1. CASE \E o \in {"answered", "dropped"} : Answered(r, o) /\ UNCHANGED <<calls, usedKey>>
    BY <1>1, AnsweredAtOnce DEF handle_local_encrypt, IInv, TypeOK
  <1>2. CASE Terminate(r)
    BY <1>2, TerminateStep DEF handle_local_encrypt, Handled, tableVars, IInv, TypeOK
  <1> QED
    BY <1>1, <1>2 DEF handle_local_encrypt

LEMMA DecryptStep ==
    ASSUME IInv, NEW r \in Requests, handle_local_decrypt(r)
    PROVE  IInv'
  <1>1. CASE \E o \in {"answered", "refused"} : Answered(r, o) /\ UNCHANGED <<calls, usedKey>>
    BY <1>1, AnsweredAtOnce DEF handle_local_decrypt, IInv, TypeOK
  <1>2. CASE Terminate(r)
    BY <1>2, TerminateStep DEF handle_local_decrypt, Handled, tableVars, IInv, TypeOK
  <1> QED
    BY <1>1, <1>2 DEF handle_local_decrypt

\* A fetch goes on top of the stack.
LEMMA CallStep ==
    ASSUME IInv, NEW r \in Requests, NEW src \in Sources, Handled(r),
           source' = [source EXCEPT ![r] = src],
           calls' = Append(calls, Call(r, src)),
           UNCHANGED <<up, outcome, usedKey, tableVars, sent>>
    PROVE  IInv'
  <1> USE DEF IInv, TypeOK, Handled, tableVars
  <1> DEFINE CT == [request : Requests, source : Sources,
                    id : Services \cup {Null}, reply : Replies]
  <1>1. Call(r, src) \in CT /\ Call(r, src).request = r
        /\ Call(r, src).source = src /\ Call(r, src).reply = "none"
    BY DEF Call, getPrivacyService, Replies
  <1> HIDE DEF CT
  <1>2. /\ calls \in Seq(CT) /\ calls' \in Seq(CT)
        /\ Len(calls') = Len(calls) + 1
        /\ DOMAIN calls = 1 .. Len(calls) /\ DOMAIN calls' = 1 .. Len(calls) + 1
        /\ Len(calls) \in Nat
        /\ \A k \in DOMAIN calls : calls'[k] = calls[k]
        /\ calls'[Len(calls) + 1] = Call(r, src)
    <2>1. calls \in Seq(CT)
      BY DEF CT
    <2> QED
      BY <1>1, <2>1, AppendProperties, LenProperties
  <1>3. \A k \in DOMAIN calls' : k \in DOMAIN calls \/ k = Len(calls) + 1
    BY <1>2
  <1>4. \A k \in DOMAIN calls : calls[k].request # r
    BY DEF Waiting
  <1>5. TypeOK'
    BY <1>2 DEF CT
  <1>6. OneFetchEach'
    BY <1>1, <1>2, <1>3, <1>4 DEF OneFetchEach
  <1>7. FetchesInv'
    <2> SUFFICES ASSUME NEW k \in DOMAIN calls'
                 PROVE  LET c == calls'[k] IN
                          /\ outcome'[c.request] = "none"
                          /\ source'[c.request] = c.source
                          /\ sent'[c.request] = IF c.reply = "none" THEN Null ELSE c.reply
      BY DEF FetchesInv
    <2>1. CASE k \in DOMAIN calls
      <3>1. calls[k] \in CT
        BY <1>2, <2>1, ElementOfSeq
      <3> QED
        BY <1>2, <1>4, <2>1, <3>1 DEF FetchesInv, CT
    <2>2. CASE k = Len(calls) + 1
      BY <1>1, <1>2, <2>2 DEF FreshInv
    <2> QED
      BY <1>3, <2>1, <2>2
  <1>8. Waiting' = Waiting \cup {r}
    BY <1>1, <1>2, <1>3 DEF Waiting
  <1>9. FreshInv'
    BY <1>8 DEF FreshInv
  <1>10. SumUnderFetchedKey'
    BY DEF SumUnderFetchedKey
  <1> QED
    BY <1>5, <1>6, <1>7, <1>9, <1>10

LEMMA AggregateStep ==
    ASSUME IInv, NEW r \in Requests, handle_local_aggregate(r)
    PROVE  IInv'
  <1>0. Handled(r) /\ UNCHANGED <<tableVars, sent>>
    BY DEF handle_local_aggregate
  <1>1. ASSUME Answered(r, "refused"), UNCHANGED <<calls, source, usedKey>>
        PROVE  IInv'
    BY <1>0, <1>1, AnsweredAtOnce DEF IInv, TypeOK
  <1>2. ASSUME Terminate(r), UNCHANGED source
        PROVE  IInv'
    BY <1>0, <1>2, TerminateStep DEF Handled, tableVars, IInv, TypeOK
  <1>3. ASSUME sum(r, Empty, calls), UNCHANGED source
        PROVE  IInv'
    <2>1. CASE Terminate(r)
      BY <1>2, <1>3, <2>1
    <2>2. CASE /\ usedKey' = [usedKey EXCEPT ![r] = "own"]
               /\ Answered(r, "answered") /\ calls' = calls
      <3>1. /\ usedKey' \in [Requests -> Services \cup {"none", "own"}]
            /\ \A q \in Requests : q # r => usedKey'[q] = usedKey[q]
        BY <2>2 DEF IInv, TypeOK
      <3> QED
        BY <1>0, <1>3, <2>2, <3>1, AnsweredAtOnce
    <2> QED
      BY <1>3, <2>1, <2>2 DEF sum, isEmpty
  <1>4. ASSUME NEW src \in Sources,
               source' = [source EXCEPT ![r] = src],
               LET key == get_public_key(getPrivacyService(src)) IN
                 IF isEmpty(key)
                   THEN /\ calls' = Append(calls, Call(r, src))
                        /\ UNCHANGED <<up, outcome, usedKey>>
                   ELSE sum(r, key, calls)
        PROVE  IInv'
    <2>1. isEmpty(get_public_key(getPrivacyService(src)))
      BY ServicesAssumption DEF isEmpty, get_public_key, getPrivacyService
    <2> QED
      BY <1>0, <1>4, <2>1, CallStep
  <1> QED
    BY <1>1, <1>2, <1>3, <1>4 DEF handle_local_aggregate

LEMMA ReplyStep ==
    ASSUME IInv, NEW k \in DOMAIN calls, AgentReplies(k)
    PROVE  IInv'
  <1> USE DEF IInv, TypeOK, tableVars
  <1> DEFINE CT == [request : Requests, source : Sources,
                    id : Services \cup {Null}, reply : Replies]
  <1>1. PICK a \in Replies \ {"none"} :
            /\ calls' = [calls EXCEPT ![k].reply = a]
            /\ sent' = [sent EXCEPT ![calls[k].request] = a]
    <2>1. PICK a \in Services \cup {Unusable, Null, "nothing", "refused"} :
              /\ calls' = [calls EXCEPT ![k].reply = a]
              /\ sent' = [sent EXCEPT ![calls[k].request] = a]
      BY ServicesAssumption DEF AgentReplies, KeysFor
    <2>2. a \in Replies \ {"none"}
      BY ServicesAssumption DEF Replies, Unusable, Null
    <2> QED
      BY <2>1, <2>2
  <1>2. UNCHANGED <<up, tableVars, outcome, source, usedKey>>
    BY DEF AgentReplies
  <1>3. calls \in Seq(CT) /\ \A j \in DOMAIN calls : calls[j] \in CT
    <2>1. calls \in Seq(CT)
      OBVIOUS
    <2> HIDE DEF CT
    <2>2. DOMAIN calls = 1 .. Len(calls)
      BY <2>1, LenProperties
    <2> QED
      BY <2>1, <2>2, ElementOfSeq
  <1>4. DOMAIN calls' = DOMAIN calls /\ Len(calls') = Len(calls)
        /\ calls' \in Seq(CT)
    <2>1. [calls[k] EXCEPT !.reply = a] \in CT
      BY <1>1, <1>3
    <2>2. calls' = [calls EXCEPT ![k] = [calls[k] EXCEPT !.reply = a]]
      BY <1>1
    <2> HIDE DEF CT
    <2> QED
      BY <1>3, <2>1, <2>2, ExceptSeq, LenProperties
  <1>5. \A j \in DOMAIN calls : /\ calls'[j].request = calls[j].request
                                /\ calls'[j].source = calls[j].source
                                /\ calls'[j].reply = IF j = k THEN a ELSE calls[j].reply
    BY <1>1, <1>3
  <1>6. Waiting' = Waiting
    <2>1. Waiting' = {calls'[j].request : j \in DOMAIN calls}
      BY <1>4 DEF Waiting
    <2> DEFINE new(j) == calls'[j].request
    <2>2. \A j \in DOMAIN calls : new(j) = calls[j].request
      BY <1>5
    <2> HIDE DEF new
    <2>3. {new(j) : j \in DOMAIN calls} = {calls[j].request : j \in DOMAIN calls}
      BY <2>2
    <2> QED
      BY <2>1, <2>3 DEF Waiting, new
  <1>7. TypeOK'
    BY <1>1, <1>2, <1>3, <1>4, <1>6 DEF AgentReplies
  <1>8. OneFetchEach'
    BY <1>4, <1>5 DEF OneFetchEach
  <1>9. FetchesInv'
    BY <1>1, <1>2, <1>3, <1>4, <1>5 DEF FetchesInv, OneFetchEach
  <1>10. \A q \in Requests : q # calls[k].request => sent'[q] = sent[q]
    BY <1>1
  <1>11. calls[k].request \in Waiting /\ outcome[calls[k].request] = "none"
    BY DEF Waiting, FetchesInv
  <1>12. FreshInv'
    BY <1>2, <1>6, <1>10, <1>11 DEF FreshInv
  <1>13. SumUnderFetchedKey'
    BY <1>2, <1>10, <1>11 DEF SumUnderFetchedKey
  <1> QED
    BY <1>7, <1>8, <1>9, <1>12, <1>13

\* Whatever becomes of the insertion, the table keeps its type.
LEMMA InsertTyped ==
    ASSUME IInv, NEW id \in Services \cup {Null},
           NEW key \in Services \cup {Null, Empty, Unusable}, insert_public_key(id, key)
    PROVE  /\ known' \in [Services -> Services \cup {Null, Empty, Unusable}]
           /\ orphans' \in Nat /\ faults' \in 0..MaxFaults
  BY NumbersAssumption DEF IInv, TypeOK, insert_public_key, tableVars

LEMMA ReturnStep ==
    ASSUME IInv, Return
    PROVE  IInv'
  <1> USE DEF IInv, TypeOK
  <1> DEFINE CT == [request : Requests, source : Sources,
                    id : Services \cup {Null}, reply : Replies]
             n == Len(calls)
             c == calls[n]
             key == receivedKey(c)
             rest == SubSeq(calls, 1, n - 1)
  <1>1. /\ calls # <<>> /\ insert_public_key(c.id, key)
        /\ sum(c.request, key, rest) /\ UNCHANGED <<source, sent>>
    BY DEF Return
  <1>2. /\ n \in DOMAIN calls /\ c \in CT /\ rest \in Seq(CT)
        /\ DOMAIN rest = 1 .. n - 1
        /\ \A k \in 1 .. n - 1 : k \in DOMAIN calls /\ k # n /\ rest[k] = calls[k]
    <2>1. calls \in Seq(CT)
      OBVIOUS
    <2> HIDE DEF CT
    <2> QED
      BY <1>1, <2>1, StackTop
  <1>3. key \in Services \cup {Null, Empty, Unusable}
    BY DEF receivedKey
  <1>4. /\ known' \in [Services -> Services \cup {Null, Empty, Unusable}]
        /\ orphans' \in Nat /\ faults' \in 0..MaxFaults
    BY <1>1, <1>2, <1>3, InsertTyped
  <1>5. /\ c.request \in Requests /\ outcome[c.request] = "none"
        /\ source[c.request] = c.source
        /\ sent[c.request] = IF c.reply = "none" THEN Null ELSE c.reply
    BY <1>2 DEF FetchesInv
  <1>6. CASE Terminate(c.request)
    BY <1>1, <1>4, <1>5, <1>6, TerminateStep
  <1>7. CASE /\ key # Unusable
             /\ usedKey' = [usedKey EXCEPT ![c.request] = IF isEmpty(key) THEN "own" ELSE key]
             /\ Answered(c.request, "answered")
             /\ calls' = rest
    <2>1. up /\ up'
      BY <1>1, <1>7 DEF Answered
    <2>2. outcome' = [outcome EXCEPT ![c.request] = "answered"]
      BY <1>7 DEF Answered
    <2>3. TypeOK'
      BY <1>1, <1>2, <1>3, <1>4, <1>5, <1>7, <2>1, <2>2 DEF isEmpty
    <2>4. OneFetchEach'
      BY <1>2, <1>7 DEF OneFetchEach
    <2>5. \A k \in 1 .. n - 1 : calls[k].request # c.request
      BY <1>2 DEF OneFetchEach
    <2>6. FetchesInv'
      <3> SUFFICES ASSUME NEW k \in 1 .. n - 1
                   PROVE  LET d == calls[k] IN
                            /\ outcome'[d.request] = "none"
                            /\ source[d.request] = d.source
                            /\ sent[d.request] = IF d.reply = "none" THEN Null ELSE d.reply
        BY <1>1, <1>2, <1>7 DEF FetchesInv
      <3>1. k \in DOMAIN calls
        BY <1>2
      <3> QED
        BY <2>2, <2>5, <3>1 DEF FetchesInv
    <2>7. Waiting = Waiting' \cup {c.request}
      <3>1. \A k \in DOMAIN calls : k = n \/ k \in 1 .. n - 1
        BY LenProperties
      <3> QED
        BY <1>2, <1>7, <3>1 DEF Waiting
    <2>8. FreshInv'
      BY <1>1, <2>2, <2>7 DEF FreshInv
    <2>9. ASSUME NEW q \in Requests, outcome'[q] = "answered", source'[q] # "none"
          PROVE  usedKey'[q] = IF sent'[q] \in Services THEN sent'[q] ELSE "own"
      <3>1. CASE q # c.request
        BY <1>1, <1>7, <2>2, <2>9, <3>1 DEF SumUnderFetchedKey
      <3>2. CASE q = c.request
        <4>1. usedKey'[q] = IF isEmpty(key) THEN "own" ELSE key
          BY <1>7, <3>2
        <4>2. CASE c.reply \in Services
          BY <1>1, <1>5, <3>2, <4>1, <4>2, ServicesAssumption DEF receivedKey, isEmpty
        <4>3. CASE c.reply \notin Services
          <5>1. isEmpty(key)
            BY <1>7, <4>3 DEF receivedKey, isEmpty
          <5>2. sent'[q] \notin Services
            BY <1>1, <1>5, <3>2, <4>3, ServicesAssumption
          <5> QED
            BY <4>1, <5>1, <5>2
        <4> QED
          BY <4>2, <4>3
      <3> QED
        BY <3>1, <3>2
    <2>10. SumUnderFetchedKey'
      BY <2>9 DEF SumUnderFetchedKey
    <2> QED
      BY <2>3, <2>4, <2>6, <2>8, <2>10
  <1> QED
    BY <1>1, <1>6, <1>7 DEF sum

LEMMA RestartStep ==
    ASSUME IInv, Restart
    PROVE  IInv'
  BY DEF IInv, TypeOK, Restart, OneFetchEach, FetchesInv, FreshInv, Waiting,
         SumUnderFetchedKey, tableVars

LEMMA NextIInv ==
    ASSUME IInv, [Next]_vars
    PROVE  IInv'
  <1>1. ASSUME NEW r \in Requests, handle_local_encrypt(r) PROVE IInv'
    BY <1>1, EncryptStep
  <1>2. ASSUME NEW r \in Requests, handle_local_decrypt(r) PROVE IInv'
    BY <1>2, DecryptStep
  <1>3. ASSUME NEW r \in Requests, handle_local_aggregate(r) PROVE IInv'
    BY <1>3, AggregateStep
  <1>4. ASSUME NEW k \in DOMAIN calls, AgentReplies(k) PROVE IInv'
    BY <1>4, ReplyStep
  <1>5. CASE Return
    BY <1>5, ReturnStep
  <1>6. CASE Restart
    BY <1>6, RestartStep
  <1>7. CASE UNCHANGED vars
    BY <1>7 DEF vars, tableVars, IInv, TypeOK, OneFetchEach, FetchesInv, FreshInv,
                Waiting, SumUnderFetchedKey
  <1> QED
    BY <1>1, <1>2, <1>3, <1>4, <1>5, <1>6, <1>7 DEF Next

THEOREM Invariance == Spec => []IInv
  BY InitIInv, NextIInv, PTL DEF Spec

\* The variables keep their types, for any number of requests, sources,
\* services and failures.
THEOREM TypeCorrect == Spec => []TypeOK
  <1>1. IInv => TypeOK
    BY DEF IInv
  <1> QED
    BY <1>1, Invariance, PTL

\* Every sum for a foreign source is under the key sent for its own request, or
\* the service's own key, however deeply the fetches nest.
THEOREM KeyOfOwnRequest == Spec => []SumUnderFetchedKey
  <1>1. IInv => SumUnderFetchedKey
    BY DEF IInv
  <1> QED
    BY <1>1, Invariance, PTL

-----------------------------------------------------------------------------
(* Refinement of NestedRequests *)

Fetches == [request : Requests, source : Sources, id : Services \cup {Null}, reply : Replies]

\* The requests whose fetches are on a stack: what `stack` stands for.
StackOf(s) == [k \in DOMAIN s |-> s[k].request]

LEMMA StackOfTyped ==
    ASSUME NEW s \in Seq(Fetches)
    PROVE  /\ StackOf(s) \in Seq(Requests) /\ Len(StackOf(s)) = Len(s)
           /\ Len(s) \in Nat /\ DOMAIN s = 1 .. Len(s)
           /\ \A k \in 1 .. Len(s) : s[k] \in Fetches /\ StackOf(s)[k] = s[k].request
  <1>1. Len(s) \in Nat /\ DOMAIN s = 1 .. Len(s) /\ \A k \in 1 .. Len(s) : s[k] \in Fetches
    BY LenProperties, ElementOfSeq
  <1>2. StackOf(s) = [k \in 1 .. Len(s) |-> s[k].request]
    BY <1>1 DEF StackOf
  <1>3. \A k \in 1 .. Len(s) : s[k].request \in Requests
    BY <1>1 DEF Fetches
  <1>4. StackOf(s) \in [1 .. Len(s) -> Requests]
    BY <1>2, <1>3
  <1>5. StackOf(s) \in Seq(Requests)
    BY <1>1, <1>4, SeqDef
  <1>6. Len(StackOf(s)) = Len(s)
    BY <1>1, <1>4, <1>5, LenProperties
  <1> QED
    BY <1>1, <1>2, <1>5, <1>6

\* A new fetch is put on top.
LEMMA StackOfAppend ==
    ASSUME NEW s \in Seq(Fetches), NEW c \in Fetches
    PROVE  StackOf(Append(s, c)) = Append(StackOf(s), c.request)
  <1> DEFINE t == Append(s, c)
             a == StackOf(t)
             b == StackOf(s)
             n == Len(s)
  <1>1. /\ t \in Seq(Fetches) /\ Len(t) = n + 1 /\ t[n + 1] = c
        /\ \A k \in 1 .. n : t[k] = s[k]
    OBVIOUS
  <1>2. /\ a \in Seq(Requests) /\ Len(a) = n + 1 /\ n \in Nat
        /\ \A k \in 1 .. (n + 1) : a[k] = t[k].request
    BY <1>1, StackOfTyped
  <1>3. b \in Seq(Requests) /\ Len(b) = n /\ \A k \in 1 .. n : b[k] = s[k].request
    BY StackOfTyped
  <1>4. c.request \in Requests
    BY DEF Fetches
  <1>5. a[n + 1] = c.request
    BY <1>1, <1>2
  <1>6. \A k \in 1 .. n : a[k] = b[k]
    BY <1>1, <1>2, <1>3
  <1> HIDE DEF a, b, n
  <1> DEFINE d == Append(b, c.request)
  <1>7. /\ d \in Seq(Requests) /\ Len(d) = n + 1 /\ d[n + 1] = c.request
        /\ \A k \in 1 .. n : d[k] = b[k]
    BY <1>3, <1>4
  <1>8. \A k \in 1 .. (n + 1) : a[k] = d[k]
    BY <1>2, <1>5, <1>6, <1>7
  <1> HIDE DEF d
  <1>9. a = d
    BY <1>2, <1>7, <1>8, SeqEqual
  <1> QED
    BY <1>9 DEF a, b, d

\* The innermost fetch is taken off.
LEMMA StackOfRest ==
    ASSUME NEW s \in Seq(Fetches), s # <<>>
    PROVE  StackOf(SubSeq(s, 1, Len(s) - 1)) = SubSeq(StackOf(s), 1, Len(StackOf(s)) - 1)
  <1> DEFINE n == Len(s) - 1
             t == SubSeq(s, 1, n)
             a == StackOf(t)
             b == StackOf(s)
             d == SubSeq(b, 1, n)
  <1>1. n \in Nat /\ n + 1 = Len(s)
    BY EmptySeq, StackOfTyped
  <1>2. b \in Seq(Requests) /\ Len(b) = n + 1 /\ \A k \in 1 .. n + 1 : b[k] = s[k].request
    BY <1>1, StackOfTyped
  <1>3. t \in Seq(Fetches) /\ DOMAIN t = 1 .. n /\ \A k \in 1 .. n : t[k] = s[k]
    BY StackTop
  <1>4. b # <<>>
    BY <1>1, <1>2
  <1>5. d \in Seq(Requests) /\ DOMAIN d = 1 .. n /\ \A k \in 1 .. n : d[k] = b[k]
    <2>1. Len(b) - 1 = n
      BY <1>1, <1>2
    <2> HIDE DEF b, n
    <2> QED
      BY <1>2, <1>4, <2>1, StackTop
  <1> HIDE DEF n, t, b, d
  <1>6. Len(t) = n /\ Len(d) = n
    BY <1>1, <1>3, <1>5, LenProperties
  <1>7. a \in Seq(Requests) /\ Len(a) = n /\ \A k \in 1 .. n : a[k] = t[k].request
    BY <1>3, <1>6, StackOfTyped
  <1>8. \A k \in 1 .. n : a[k] = d[k]
    BY <1>1, <1>2, <1>3, <1>5, <1>7
  <1> HIDE DEF a
  <1>9. a = d
    BY <1>5, <1>6, <1>7, <1>8, SeqEqual
  <1> QED
    BY <1>2, <1>9, <1>1 DEF a, b, d, n, t

\* The stack as NestedRequests has it.
LEMMA NestedState ==
    ASSUME IInv
    PROVE  /\ calls \in Seq(Fetches)
           /\ Nested!InProgress = Waiting
           /\ \A q \in Waiting : q \in Requests /\ outcome[q] = "none"
           /\ calls # <<>> => /\ [k \in DOMAIN calls |-> calls[k].request] # <<>>
                              /\ Nested!innermost = calls[Len(calls)].request
                              /\ calls[Len(calls)] \in Fetches
                              /\ calls[Len(calls)].request \in Waiting
  <1>1. calls \in Seq(Fetches)
    BY DEF IInv, TypeOK, Fetches
  <1>2. /\ StackOf(calls) \in Seq(Requests) /\ Len(StackOf(calls)) = Len(calls)
        /\ Len(calls) \in Nat /\ DOMAIN calls = 1 .. Len(calls)
        /\ \A k \in 1 .. Len(calls) : calls[k] \in Fetches /\ StackOf(calls)[k] = calls[k].request
    BY <1>1, StackOfTyped
  <1>3. Nested!InProgress = {StackOf(calls)[k] : k \in DOMAIN StackOf(calls)}
    BY DEF Nested!InProgress, StackOf
  <1>4. DOMAIN StackOf(calls) = DOMAIN calls
    BY DEF StackOf
  <1>5. Nested!InProgress = Waiting
    BY <1>2, <1>3, <1>4 DEF Waiting
  <1>6. ASSUME NEW q \in Waiting PROVE q \in Requests /\ outcome[q] = "none"
    <2>1. PICK k \in DOMAIN calls : q = calls[k].request
      BY DEF Waiting
    <2> QED
      BY <1>2, <2>1 DEF Fetches, IInv, FetchesInv
  <1>7. ASSUME calls # <<>>
        PROVE  /\ StackOf(calls) # <<>> /\ Nested!innermost = calls[Len(calls)].request
               /\ calls[Len(calls)] \in Fetches
               /\ calls[Len(calls)].request \in Waiting
    <2>1. Len(calls) \in DOMAIN calls
      BY <1>1, <1>7, StackTop
    <2>2. Nested!innermost = StackOf(calls)[Len(StackOf(calls))]
      BY DEF Nested!innermost, StackOf
    <2>3. StackOf(calls) # <<>>
      BY <1>2, <2>1
    <2> QED
      BY <1>2, <2>1, <2>2, <2>3 DEF Waiting
  <1> QED
    BY <1>1, <1>5, <1>6, <1>7 DEF StackOf

\* What is thrown in the handler of a new or of the innermost request.
LEMMA NestedTerminate ==
    ASSUME IInv, NEW r \in Requests, Terminate(r),
           Handled(r) \/ (calls # <<>> /\ r = calls[Len(calls)].request)
    PROVE  Nested!NestedNext
  <1>1. outcome[r] = "none"
    BY NestedState DEF Handled
  <1>2. outcome' = [q \in Requests |->
                       IF q \in Nested!InProgress \cup {r} /\ outcome[q] = "none"
                       THEN "lost" ELSE outcome[q]]
    <2>1. \A q \in Requests : q \in Waiting \cup {r} <=>
                                 q \in Nested!InProgress \cup {r} /\ outcome[q] = "none"
      BY <1>1, NestedState
    <2> QED
      BY <2>1 DEF Terminate
  <1>3. [k \in DOMAIN calls |-> calls[k].request]' = <<>>
    BY DEF Terminate
  <1>4. \/ Nested!New(r)
        \/ [k \in DOMAIN calls |-> calls[k].request] # <<>> /\ r = Nested!innermost
    BY NestedState DEF Handled, Nested!New
  <1>5. Nested!Terminate(r)
    BY <1>2, <1>3, <1>4 DEF Nested!Terminate
  <1> QED
    BY <1>5 DEF Nested!NestedNext

\* A new request that is answered at once.
LEMMA NestedAtOnce ==
    ASSUME IInv, NEW r \in Requests, Handled(r),
           NEW o \in {"answered", "refused", "dropped"}, Answered(r, o), calls' = calls
    PROVE  Nested!NestedNext
  <1>1. Nested!New(r)
    BY NestedState DEF Handled, Nested!New
  <1>2. Nested!AtOnce(r)
    BY <1>1 DEF Nested!AtOnce, Answered
  <1> QED
    BY <1>2 DEF Nested!NestedNext

LEMMA NestedStep ==
    ASSUME IInv, [Next]_vars
    PROVE  [Nested!NestedNext]_(Nested!nestedVars)
  <1>1. ASSUME NEW r \in Requests, handle_local_encrypt(r) PROVE Nested!NestedNext
    BY <1>1, NestedAtOnce, NestedTerminate DEF handle_local_encrypt
  <1>2. ASSUME NEW r \in Requests, handle_local_decrypt(r) PROVE Nested!NestedNext
    BY <1>2, NestedAtOnce, NestedTerminate DEF handle_local_decrypt
  <1>3. ASSUME NEW r \in Requests, handle_local_aggregate(r) PROVE Nested!NestedNext
    <2>1. Handled(r)
      BY <1>3 DEF handle_local_aggregate
    <2>2. ASSUME NEW key, sum(r, key, calls) PROVE Nested!NestedNext
      BY <2>1, <2>2, NestedAtOnce, NestedTerminate DEF sum
    <2>3. ASSUME NEW src \in Sources, calls' = Append(calls, Call(r, src)), outcome' = outcome
          PROVE  Nested!NestedNext
      <3>1. Call(r, src) \in Fetches /\ Call(r, src).request = r
        BY DEF Call, getPrivacyService, Fetches, Replies
      <3>2. StackOf(calls') = Append(StackOf(calls), r)
        BY <2>3, <3>1, NestedState, StackOfAppend
      <3>3. Nested!New(r)
        BY <2>1, NestedState DEF Handled, Nested!New
      <3>4. Nested!Begin(r)
        BY <2>3, <3>2, <3>3 DEF Nested!Begin, StackOf
      <3> QED
        BY <3>4 DEF Nested!NestedNext
    <2>4. CASE Answered(r, "refused") /\ calls' = calls
      BY <2>1, <2>4, NestedAtOnce
    <2>5. CASE Terminate(r)
      BY <2>1, <2>5, NestedTerminate
    <2> QED
      BY <1>3, <2>2, <2>3, <2>4, <2>5 DEF handle_local_aggregate
  <1>4. ASSUME NEW k \in DOMAIN calls, AgentReplies(k) PROVE UNCHANGED Nested!nestedVars
    <2>1. PICK a : calls' = [calls EXCEPT ![k].reply = a]
      BY <1>4 DEF AgentReplies
    <2>2. calls \in Seq(Fetches) /\ DOMAIN calls' = DOMAIN calls
      BY <2>1, NestedState
    <2>3. \A j \in DOMAIN calls : calls'[j].request = calls[j].request
      <3>1. \A j \in DOMAIN calls : calls[j] \in Fetches
        BY <2>2, StackOfTyped
      <3> QED
        BY <2>1, <3>1 DEF Fetches
    <2>4. StackOf(calls') = StackOf(calls)
      BY <2>2, <2>3 DEF StackOf
    <2> QED
      BY <1>4, <2>4 DEF AgentReplies, Nested!nestedVars, StackOf
  <1>5. CASE Return
    <2> DEFINE c == calls[Len(calls)]
               key == receivedKey(c)
    <2>1. calls # <<>> /\ sum(c.request, key, SubSeq(calls, 1, Len(calls) - 1))
      BY <1>5 DEF Return
    <2>2. c.request \in Requests /\ outcome[c.request] = "none"
      BY <2>1, NestedState
    <2>3. CASE Terminate(c.request)
      BY <2>1, <2>2, <2>3, NestedTerminate
    <2>4. CASE Answered(c.request, "answered") /\ calls' = SubSeq(calls, 1, Len(calls) - 1)
      <3>1. StackOf(calls') = SubSeq(StackOf(calls), 1, Len(StackOf(calls)) - 1)
        BY <2>1, <2>4, NestedState, StackOfRest
      <3>2. Nested!innermost = c.request /\ StackOf(calls) # <<>>
        BY <2>1, NestedState DEF StackOf
      <3>3. Nested!Answer
        BY <2>2, <2>4, <3>1, <3>2 DEF Nested!Answer, Answered, StackOf
      <3> QED
        BY <3>3 DEF Nested!NestedNext
    <2> QED
      BY <2>1, <2>3, <2>4 DEF sum
  <1>6. CASE Restart \/ UNCHANGED vars
    BY <1>6 DEF Restart, vars, tableVars, Nested!nestedVars
  <1> QED
    BY <1>1, <1>2, <1>3, <1>4, <1>5, <1>6 DEF Next

\* Each request has one outcome, the innermost fetch ends first, and what is thrown
\* loses exactly the requests that wait, for any number of requests and services.
THEOREM Refinement == Spec => ImplementsNested
  <1>1. Init => Nested!NestedInit
    <2> SUFFICES ASSUME Init PROVE Nested!NestedInit
      OBVIOUS
    <2>1. DOMAIN calls = {}
      BY DEF Init
    <2>2. [k \in DOMAIN calls |-> calls[k].request] = <<>>
      BY <2>1
    <2> QED
      BY <2>2 DEF Init, Nested!NestedInit
  <1> QED
    BY <1>1, NestedStep, Invariance, PTL DEF Spec, ImplementsNested, Nested!NestedSpec

-----------------------------------------------------------------------------
(* What follows from the two divergences that the runs show *)

\* getPrivacyService finds nothing, and so no key is ever stored under its service:
\* every aggregation for a foreign source fetches, however often it was done before.
NoKeyKept ==
    /\ \A s \in Services : known[s] = Null
    /\ \A k \in DOMAIN calls : calls[k].id = Null

LEMMA NoKeyKeptStep ==
    ASSUME IInv, NoKeyKept, [Next]_vars
    PROVE  NoKeyKept'
  <1>1. CASE calls' \in {calls, <<>>} /\ known' = known
    BY <1>1 DEF NoKeyKept
  <1>2. ASSUME NEW r \in Requests,
               handle_local_encrypt(r) \/ handle_local_decrypt(r) \/ handle_local_aggregate(r)
        PROVE  NoKeyKept'
    <2>1. known' = known
      BY <1>2 DEF handle_local_encrypt, handle_local_decrypt, handle_local_aggregate, tableVars
    <2>2. \/ calls' \in {calls, <<>>}
          \/ \E src \in Sources : calls' = Append(calls, Call(r, src))
      BY <1>2 DEF handle_local_encrypt, handle_local_decrypt, handle_local_aggregate, sum,
                  Answered, Terminate
    <2>3. ASSUME NEW src \in Sources, calls' = Append(calls, Call(r, src))
          PROVE  NoKeyKept'
      <3> DEFINE new == Call(r, src)
      <3>1. new \in Fetches /\ new.id = Null
        BY DEF Call, getPrivacyService, Fetches, Replies
      <3>2. calls \in Seq(Fetches) /\ calls' = Append(calls, new)
        BY <2>3, NestedState
      <3> HIDE DEF new
      <3>3. \A k \in DOMAIN calls' : calls'[k] = new \/ (k \in DOMAIN calls /\ calls'[k] = calls[k])
        BY <3>1, <3>2
      <3> QED
        BY <2>1, <3>1, <3>3 DEF NoKeyKept
    <2> QED
      BY <1>1, <2>1, <2>2, <2>3
  <1>3. ASSUME NEW k \in DOMAIN calls, AgentReplies(k) PROVE NoKeyKept'
    <2>1. PICK a : calls' = [calls EXCEPT ![k].reply = a]
      BY <1>3 DEF AgentReplies
    <2>2. known' = known /\ \A j \in DOMAIN calls : calls[j] \in Fetches
      BY <1>3, NestedState, StackOfTyped DEF AgentReplies, tableVars
    <2> QED
      BY <2>1, <2>2 DEF NoKeyKept, Fetches
  <1>4. CASE Return
    <2> DEFINE n == Len(calls)
               c == calls[n]
               rest == SubSeq(calls, 1, n - 1)
    <2>1. /\ calls # <<>> /\ calls \in Seq(Fetches)
          /\ insert_public_key(c.id, receivedKey(c)) /\ sum(c.request, receivedKey(c), rest)
      BY <1>4, NestedState DEF Return
    <2>2. /\ n \in DOMAIN calls /\ DOMAIN rest = 1 .. n - 1
          /\ \A k \in 1 .. n - 1 : k \in DOMAIN calls /\ rest[k] = calls[k]
      BY <2>1, StackTop
    <2>3. known' = known
      BY <2>1, <2>2, ServicesAssumption DEF NoKeyKept, insert_public_key, tableVars
    <2>4. calls' \in {rest, <<>>}
      BY <2>1 DEF sum, Terminate
    <2> HIDE DEF rest, n
    <2>5. \A k \in DOMAIN calls' : k \in DOMAIN calls /\ calls'[k] = calls[k]
      <3>1. CASE calls' = <<>>
        <4>1. DOMAIN calls' = {}
          BY <3>1
        <4> QED
          BY <4>1
      <3> QED
        BY <2>2, <2>4, <3>1
    <2> QED
      BY <2>3, <2>5 DEF NoKeyKept
  <1>5. CASE Restart \/ UNCHANGED vars
    BY <1>1, <1>5 DEF Restart, vars, tableVars
  <1> QED
    BY <1>2, <1>3, <1>4, <1>5 DEF Next

\* No key is ever kept: the table that is to save the fetches saves none.
THEOREM TableStaysEmpty == Spec => []NoKeyKept
  <1>1. Init => NoKeyKept
    BY DEF Init, NoKeyKept
  <1> QED
    BY <1>1, NoKeyKeptStep, Invariance, PTL DEF Spec

\* The agent is never reached, and so no sum is encrypted under a foreign key.
NoKeySent ==
    /\ \A k \in DOMAIN calls : calls[k].reply \in {"none", "refused"}
    /\ \A r \in Requests : usedKey[r] \in {"none", "own"}

\* Under the key that a fetch without a usable reply yields, the sum is the own key's.
LEMMA SumWithoutKey ==
    ASSUME IInv, NoKeySent, NEW r \in Requests, NEW key, isEmpty(key), NEW rest, sum(r, key, rest)
    PROVE  /\ \A q \in Requests : usedKey'[q] \in {"none", "own"}
           /\ calls' \in {rest, <<>>}
  BY DEF sum, Terminate, NoKeySent, IInv, TypeOK

LEMMA NoKeySentStep ==
    ASSUME IInv, NoKeyKept, NoKeySent, ListenPort # m_agentPort, [Next]_vars
    PROVE  NoKeySent'
  <1>1. CASE calls' \in {calls, <<>>} /\ usedKey' = usedKey
    BY <1>1 DEF NoKeySent
  <1>2. ASSUME NEW r \in Requests, handle_local_encrypt(r) \/ handle_local_decrypt(r)
        PROVE  NoKeySent'
    BY <1>1, <1>2 DEF handle_local_encrypt, handle_local_decrypt, Terminate
  <1>3. ASSUME NEW r \in Requests, handle_local_aggregate(r) PROVE NoKeySent'
    <2>1. ASSUME sum(r, Empty, calls) PROVE NoKeySent'
      <3>1. isEmpty(Empty)
        BY DEF isEmpty
      <3>2. (\A q \in Requests : usedKey'[q] \in {"none", "own"}) /\ calls' \in {calls, <<>>}
        BY <2>1, <3>1, SumWithoutKey
      <3>3. DOMAIN <<>> = {}
        OBVIOUS
      <3> QED
        BY <3>2, <3>3 DEF NoKeySent
    <2>2. ASSUME NEW src \in Sources, calls' = Append(calls, Call(r, src)), usedKey' = usedKey
          PROVE  NoKeySent'
      <3> DEFINE new == Call(r, src)
      <3>1. new \in Fetches /\ new.reply = "none"
        BY DEF Call, getPrivacyService, Fetches, Replies
      <3>2. calls \in Seq(Fetches) /\ calls' = Append(calls, new)
        BY <2>2, NestedState
      <3> HIDE DEF new
      <3>3. \A k \in DOMAIN calls' : calls'[k] = new \/ (k \in DOMAIN calls /\ calls'[k] = calls[k])
        BY <3>1, <3>2
      <3> QED
        BY <2>2, <3>1, <3>3 DEF NoKeySent
    <2>3. \A src \in Sources : isEmpty(get_public_key(getPrivacyService(src)))
      BY ServicesAssumption DEF isEmpty, get_public_key, getPrivacyService
    <2>4. CASE calls' \in {calls, <<>>} /\ usedKey' = usedKey
      BY <1>1, <2>4 DEF NoKeySent
    <2> QED
      BY <1>3, <2>1, <2>2, <2>3, <2>4 DEF handle_local_aggregate, Terminate
  <1>4. ASSUME NEW k \in DOMAIN calls, AgentReplies(k) PROVE NoKeySent'
    <2>1. calls' = [calls EXCEPT ![k].reply = "refused"] /\ usedKey' = usedKey
      BY <1>4 DEF AgentReplies
    <2>2. \A j \in DOMAIN calls : calls[j] \in Fetches
      BY NestedState, StackOfTyped
    <2> QED
      BY <2>1, <2>2 DEF NoKeySent, Fetches
  <1>5. CASE Return
    <2> DEFINE n == Len(calls)
               c == calls[n]
               rest == SubSeq(calls, 1, n - 1)
    <2>1. /\ calls # <<>> /\ calls \in Seq(Fetches)
          /\ sum(c.request, receivedKey(c), rest)
      BY <1>5, NestedState DEF Return
    <2>2. /\ n \in DOMAIN calls /\ DOMAIN rest = 1 .. n - 1
          /\ \A k \in 1 .. n - 1 : k \in DOMAIN calls /\ rest[k] = calls[k]
      BY <2>1, StackTop
    <2>3. isEmpty(receivedKey(c)) /\ c.request \in Requests
      BY <2>1, <2>2, NestedState, ServicesAssumption DEF NoKeySent, receivedKey, isEmpty, Unusable, Null
    <2>4. (\A q \in Requests : usedKey'[q] \in {"none", "own"}) /\ calls' \in {rest, <<>>}
      BY <2>1, <2>3, SumWithoutKey
    <2> HIDE DEF rest, n
    <2>5. \A k \in DOMAIN calls' : k \in DOMAIN calls /\ calls'[k] = calls[k]
      <3>1. CASE calls' = <<>>
        <4>1. DOMAIN calls' = {}
          BY <3>1
        <4> QED
          BY <4>1
      <3> QED
        BY <2>2, <2>4, <3>1
    <2> QED
      BY <2>4, <2>5 DEF NoKeySent
  <1>6. CASE Restart \/ UNCHANGED vars
    BY <1>1, <1>6 DEF Restart, vars
  <1> QED
    BY <1>2, <1>3, <1>4, <1>5, <1>6 DEF Next

\* An agent that listens on any port but the one to which the uint8_t cuts 9997 is
\* never reached: every sum, for whatever source, is under the service's own key.
THEOREM UnreachedAgentMeansOwnKey ==
    ASSUME ListenPort # m_agentPort
    PROVE  Spec => [](\A r \in Requests : usedKey[r] \in {"none", "own"})
  <1>1. Init => NoKeySent
    BY DEF Init, NoKeySent
  <1>2. IInv /\ NoKeyKept /\ NoKeySent /\ [Next]_vars => NoKeySent'
    BY NoKeySentStep
  <1>3. NoKeySent => \A r \in Requests : usedKey[r] \in {"none", "own"}
    BY DEF NoKeySent
  <1> QED
    BY <1>1, <1>2, <1>3, TableStaysEmpty, Invariance, PTL DEF Spec
=============================================================================
