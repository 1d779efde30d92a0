------------------------ MODULE AdapterBridgeProofs ------------------------
(***************************************************************************)
(* What AdapterBridge guarantees of the thing description and of replies,  *)
(* for every number of adapters and requests and any timeout; and how long *)
(* a call can wait, for any length of the day.                             *)
(*                                                                         *)
(* The first argument is about the connections of the slot: there are none *)
(* while a call waits, and there are only as many as initialize made.  The *)
(* second is about the only call that looks at the clock, the innermost    *)
(* one: a round that begins too late is begun only after midnight.         *)
(***************************************************************************)
EXTENDS AdapterBridge, FiniteSetTheorems, SequenceTheorems, TLAPS

\* No slot is connected while a call waits, and so no reply was stolen.
CallInv ==
    /\ calls # <<>> => up /\ connections = 0
    /\ \A k \in DOMAIN calls : calls[k].reply # "stolen"

\* Objects are listed only when the request for them finishes.
DescriptionInv ==
    /\ ~up => asked = {} /\ told = {} /\ \A a \in Adapters : td[a] = 0
    /\ \A a \in asked : td[a] = 0
    /\ \A a \in Adapters : td[a] <= 1
    /\ connections > 0 => \A a \in told : td[a] = 1

IInv == TypeOK /\ CallInv /\ DescriptionInv

-----------------------------------------------------------------------------
\* The number of adapters is a number.
LEMMA AdapterCount == Cardinality(Adapters) \in Nat
  BY AdaptersAssumption, FS_CardinalityType

\* A new call has the type of calls, and its reply has not come.
LEMMA CallTyped ==
    ASSUME TypeOK, NEW c \in Clients, NEW again \in BOOLEAN
    PROVE  Call(c, again) \in CallType /\ Call(c, again).reply # "stolen"
  BY DEF Call, CallType, TypeOK

\* Nothing is asked, told or listed before the start.
LEMMA InitIInv == Init => IInv
<1>. SUFFICES ASSUME Init PROVE IInv
  OBVIOUS
<1>1. now \in Nat
  BY TimeAssumption DEF Init
<1>2. calls \in Seq(CallType) /\ DOMAIN calls = {}
  BY EmptySeq DEF Init
<1>3. TypeOK
  <2>1. td \in [Adapters -> Nat] /\ answer \in [Clients -> {"none", "reply", "error", "lost"}]
    BY DEF Init
  <2>2. connections \in 0..Cardinality(Adapters)
    BY AdapterCount DEF Init
  <2>3. up \in BOOLEAN /\ asked \subseteq Adapters /\ told \subseteq Adapters \ asked
    BY DEF Init
  <2>. QED  BY <1>1, <1>2, <2>1, <2>2, <2>3 DEF TypeOK
<1>4. CallInv /\ DescriptionInv
  BY <1>2 DEF Init, CallInv, DescriptionInv
<1>. QED  BY <1>3, <1>4 DEF IInv

\* The start makes the connections while no call waits.
LEMMA GenerateStep == IInv /\ GenerateThingDescription => IInv'
<1>. SUFFICES ASSUME IInv, GenerateThingDescription PROVE IInv'
  OBVIOUS
<1>1. /\ ~up /\ up' = TRUE /\ asked' = Adapters
      /\ connections' = Cardinality(Adapters)
      /\ UNCHANGED <<told, td, calls, now, answer>>
  BY DEF GenerateThingDescription
<1>2. calls = <<>> /\ told = {} /\ \A a \in Adapters : td[a] = 0
  BY <1>1 DEF IInv, CallInv, DescriptionInv
<1>3. TypeOK'
  BY <1>1, <1>2, AdapterCount DEF IInv, TypeOK
<1>4. CallInv' /\ DescriptionInv'
  BY <1>1, <1>2 DEF CallInv, DescriptionInv
<1>. QED  BY <1>3, <1>4 DEF IInv

\* After the end of the process nothing is asked, told, listed or waiting.
LEMMA TerminateStep ==
    ASSUME IInv, NEW s, Terminate(s)
    PROVE  IInv'
<1>1. /\ up' = FALSE /\ connections' = 0 /\ asked' = {} /\ told' = {} /\ calls' = <<>>
      /\ td' = [a \in Adapters |-> 0] /\ now' = now
  BY DEF Terminate
<1>2. calls' \in Seq(CallType) /\ DOMAIN calls' = {}
  BY <1>1, EmptySeq
<1>3. answer' \in [Clients -> {"none", "reply", "error", "lost"}]
  BY DEF Terminate, IInv, TypeOK
<1>4. TypeOK'
  <2>1. td' \in [Adapters -> Nat] /\ connections' \in 0..Cardinality(Adapters)
    BY <1>1, AdapterCount
  <2>2. up' \in BOOLEAN /\ asked' \subseteq Adapters /\ told' \subseteq Adapters \ asked'
    BY <1>1
  <2>. QED  BY <1>1, <1>2, <1>3, <2>1, <2>2 DEF IInv, TypeOK
<1>5. CallInv' /\ DescriptionInv'
  BY <1>1, <1>2 DEF CallInv, DescriptionInv
<1>. QED  BY <1>4, <1>5 DEF IInv

\* A request for a thing description finishes: it was not counted before.
LEMMA DescriptionStep ==
    ASSUME IInv, NEW a \in Adapters, getAdapterTDFinished(a)
    PROVE  IInv'
<1>1. /\ a \in asked /\ asked' = asked \ {a}
      /\ up /\ UNCHANGED <<up, connections, calls, now, answer>>
      /\ \/ told' = told \cup {a} /\ td' = [td EXCEPT ![a] = @ + Appended(connections)]
         \/ UNCHANGED <<told, td>>
  BY DEF getAdapterTDFinished, InEvents
<1>2. td \in [Adapters -> Nat] /\ connections \in Nat /\ td[a] = 0
  BY <1>1, AdapterCount DEF IInv, TypeOK, DescriptionInv
<1>3. /\ Appended(connections) \in {0, 1}
      /\ connections > 0 => Appended(connections) = 1
  BY <1>2 DEF Appended
<1>4. CASE told' = told \cup {a} /\ td' = [td EXCEPT ![a] = @ + Appended(connections)]
  <2>1. /\ td' \in [Adapters -> Nat] /\ td'[a] \in {0, 1}
        /\ connections > 0 => td'[a] = 1
        /\ \A b \in Adapters \ {a} : td'[b] = td[b]
    BY <1>2, <1>3, <1>4
  <2>2. TypeOK'
    BY <1>1, <1>4, <2>1 DEF IInv, TypeOK
  <2>3. DescriptionInv'
    BY <1>1, <1>2, <1>4, <2>1 DEF IInv, DescriptionInv, TypeOK
  <2>. QED  BY <1>1, <2>2, <2>3 DEF IInv, CallInv
<1>5. CASE UNCHANGED <<told, td>>
  BY <1>1, <1>5 DEF IInv, TypeOK, CallInv, DescriptionInv
<1>. QED  BY <1>1, <1>4, <1>5

\* A new call removes the connections.
LEMMA ForwardStep ==
    ASSUME IInv, up, NEW c \in Clients, Forward(c)
    PROVE  IInv'
<1>1. PICK again \in BOOLEAN : calls' = Append(Outer, Call(c, again))
  BY DEF Forward
<1>2. /\ up /\ connections' = 0
      /\ UNCHANGED <<up, asked, told, td, now, answer>>
  BY DEF Forward, tdVars
<1>3. calls \in Seq(CallType)
  BY DEF IInv, TypeOK
<1>4. /\ Outer \in Seq(CallType) /\ Len(Outer) = Len(calls)
      /\ \A k \in DOMAIN Outer : Outer[k].reply # "stolen"
  <2>1. \A k \in 1..Len(calls) : calls[k] \in CallType /\ calls[k].reply # "stolen"
    BY <1>3 DEF IInv, CallInv
  <2>2. \A k \in 1..Len(calls) :
           /\ [calls[k] EXCEPT !.nested = TRUE] \in CallType
           /\ [calls[k] EXCEPT !.nested = TRUE].reply = calls[k].reply
    BY <2>1 DEF CallType
  <2>3. Outer = [k \in 1..Len(calls) |-> [calls[k] EXCEPT !.nested = TRUE]]
    BY <1>3 DEF Outer
  <2>4. Len(calls) \in Nat
    BY <1>3, LenProperties
  <2>5. Outer \in [1..Len(calls) -> CallType]
    BY <2>2, <2>3
  <2>6. Outer \in Seq(CallType)
    BY <2>4, <2>5, SeqDef
  <2>7. DOMAIN Outer = 1..Len(calls) /\ DOMAIN Outer = 1..Len(Outer)
    BY <2>3, <2>6, LenProperties
  <2>8. Len(Outer) = Len(calls)
    BY <2>4, <2>6, <2>7, LenProperties
  <2>9. \A k \in DOMAIN Outer : Outer[k].reply # "stolen"
    BY <2>1, <2>2, <2>3, <2>7
  <2>. QED  BY <2>6, <2>8, <2>9
<1>5. Call(c, again) \in CallType /\ Call(c, again).reply # "stolen"
  BY CallTyped DEF IInv
<1>. DEFINE new == Call(c, again)
            outer == Outer
<1>6. /\ calls' \in Seq(CallType) /\ calls' # <<>>
      /\ \A k \in DOMAIN calls' : calls'[k].reply # "stolen"
  <2>. HIDE DEF new, outer
  <2>1. calls' = Append(outer, new)
    BY <1>1 DEF outer, new
  <2>2. outer \in Seq(CallType) /\ new \in CallType /\ new.reply # "stolen"
    BY <1>4, <1>5 DEF outer, new
  <2>3. \A k \in 1..Len(outer) : outer[k].reply # "stolen"
    BY <1>4, <2>2 DEF outer
  <2>4. /\ calls' \in Seq(CallType) /\ Len(calls') = Len(outer) + 1
        /\ calls'[Len(outer) + 1] = new
        /\ \A k \in 1..Len(outer) : calls'[k] = outer[k]
    BY <2>1, <2>2
  <2>5. \A k \in 1..Len(calls') : calls'[k].reply # "stolen"
    BY <2>2, <2>3, <2>4
  <2>. QED  BY <2>2, <2>4, <2>5
<1>7. TypeOK'
  BY <1>2, <1>6, AdapterCount DEF IInv, TypeOK
<1>8. CallInv' /\ DescriptionInv'
  BY <1>2, <1>6 DEF IInv, CallInv, DescriptionInv
<1>. QED  BY <1>7, <1>8 DEF IInv

\* A call that changes in place keeps the stack well formed.
LEMMA CallReplaced ==
    ASSUME NEW s \in Seq(CallType), NEW k \in 1..Len(s), NEW r \in CallType,
           r.reply # "stolen", \A j \in 1..Len(s) : s[j].reply # "stolen",
           NEW t, t = [s EXCEPT ![k] = r]
    PROVE  /\ t \in Seq(CallType) /\ t # <<>>
           /\ \A j \in DOMAIN t : t[j].reply # "stolen"
<1>1. t \in Seq(CallType) /\ Len(t) = Len(s)
  OBVIOUS
<1>2. \A j \in 1..Len(s) : t[j] = IF j = k THEN r ELSE s[j]
  OBVIOUS
<1>. QED  BY <1>1, <1>2

\* What a step on the stack has to keep when nothing but calls, connections,
\* the time and the answers change.
LEMMA StackStep ==
    ASSUME IInv, up, connections = 0, connections' = 0,
           UNCHANGED <<up, asked, told, td>>,
           now' \in Nat, answer' \in [Clients -> {"none", "reply", "error", "lost"}],
           calls' \in Seq(CallType),
           \A k \in DOMAIN calls' : calls'[k].reply # "stolen"
    PROVE  IInv'
<1>1. TypeOK'
  BY AdapterCount DEF IInv, TypeOK
<1>2. CallInv' /\ DescriptionInv'
  BY DEF IInv, CallInv, DescriptionInv
<1>. QED  BY <1>1, <1>2 DEF IInv

\* The state while a call waits.
LEMMA Waiting ==
    ASSUME IInv, calls # <<>>
    PROVE  /\ up /\ connections = 0
           /\ calls \in Seq(CallType) /\ Len(calls) \in 1..Len(calls)
           /\ \A k \in 1..Len(calls) : calls[k] \in CallType
                                       /\ calls[k].reply # "stolen"
           /\ now \in Nat /\ answer \in [Clients -> {"none", "reply", "error", "lost"}]
  BY DEF IInv, TypeOK, CallInv

\* A reply comes while no slot is connected.
LEMMA ReplyStep ==
    ASSUME IInv, NEW k \in DOMAIN calls, Reply(k)
    PROVE  IInv'
<1>1. calls \in Seq(CallType) /\ k \in 1..Len(calls)
  BY DEF IInv, TypeOK
<1>2. calls # <<>>
  BY <1>1
<1>3. PICK r \in {"json", "empty"} :
        calls' = [calls EXCEPT ![k].reply =
                      IF r = "json" /\ connections > 0 THEN "stolen" ELSE r]
  BY DEF Reply
<1>. DEFINE new == [calls[k] EXCEPT !.reply = r]
<1>4. calls' = [calls EXCEPT ![k] = new]
  BY <1>2, <1>3, Waiting
<1>5. new \in CallType /\ new.reply # "stolen"
  BY <1>1, <1>2, Waiting DEF CallType
<1>. HIDE DEF new
<1>6. calls' \in Seq(CallType) /\ \A j \in DOMAIN calls' : calls'[j].reply # "stolen"
  BY <1>1, <1>2, <1>4, <1>5, Waiting, CallReplaced
<1>7. /\ connections' = connections /\ now' = now /\ answer' = answer
      /\ UNCHANGED <<up, asked, told, td>>
  BY DEF Reply, tdVars
<1>. QED  BY <1>2, <1>6, <1>7, Waiting, StackStep

\* Entering the loop and leaving processEvents.
LEMMA LoopStep == IInv /\ (EnterLoop \/ EndOfTurn) => IInv'
<1>. SUFFICES ASSUME IInv, EnterLoop \/ EndOfTurn PROVE IInv'
  OBVIOUS
<1>1. /\ calls # <<>>
      /\ UNCHANGED <<up, connections, asked, told, td, answer>>
  BY DEF EnterLoop, EndOfTurn, tdVars
<1>2. PICK w \in {"check", "events"} : calls' = [calls EXCEPT ![Len(calls)].at = w]
  BY DEF EnterLoop, EndOfTurn
<1>3. now' \in Nat
  <2>1. now \in Nat /\ MaxTurn \in Nat
    BY TimeAssumption DEF IInv, TypeOK
  <2>. QED  BY <2>1 DEF EnterLoop, EndOfTurn
<1>. DEFINE new == [calls[Len(calls)] EXCEPT !.at = w]
<1>4. calls' = [calls EXCEPT ![Len(calls)] = new]
  BY <1>2
<1>5. new \in CallType /\ new.reply # "stolen"
  BY <1>1, Waiting DEF CallType
<1>. HIDE DEF new
<1>6. calls' \in Seq(CallType) /\ \A j \in DOMAIN calls' : calls'[j].reply # "stolen"
  BY <1>1, <1>4, <1>5, Waiting, CallReplaced
<1>. QED  BY <1>1, <1>3, <1>6, Waiting, StackStep

\* A call returns, or is followed by the second call of a read.
LEMMA ProceedStep == IInv /\ calls # <<>> /\ Proceed => IInv'
<1>. SUFFICES ASSUME IInv, calls # <<>>, Proceed PROVE IInv'
  OBVIOUS
<1>1. calls # <<>> /\ UNCHANGED <<up, asked, told, td, now>>
  BY DEF Proceed, tdVars
<1>2. top \in CallType
  BY <1>1, Waiting DEF top
<1>3. top.client \in Clients
  BY <1>2 DEF CallType
<1>4. answer' \in [Clients -> {"none", "reply", "error", "lost"}]
  <2>1. /\ answer' = [answer EXCEPT ![top.client] = IF @ = "none" THEN Outcome ELSE @]
        /\ Outcome \in {"reply", "error"}
    BY DEF Proceed, Answered, Outcome
  <2>2. answer \in [Clients -> {"none", "reply", "error", "lost"}]
    BY <1>1, Waiting
  <2>. QED  BY <1>3, <2>1, <2>2
<1>5. CASE top.again
  <2>1. calls' = [calls EXCEPT ![Len(calls)] = Call(top.client, FALSE)]
        /\ connections' = 0
    BY <1>5 DEF Proceed
  <2>2. Call(top.client, FALSE) \in CallType /\ Call(top.client, FALSE).reply # "stolen"
    BY <1>3, CallTyped DEF IInv
  <2>3. calls' \in Seq(CallType) /\ \A j \in DOMAIN calls' : calls'[j].reply # "stolen"
    BY <1>1, <2>1, <2>2, Waiting, CallReplaced
  <2>. QED  BY <1>1, <1>4, <2>1, <2>3, Waiting, StackStep
<1>6. CASE ~top.again
  <2>1. calls' = SubSeq(calls, 1, Len(calls) - 1) /\ connections' = connections
    BY <1>6 DEF Proceed
  <2>2. /\ calls' \in Seq(CallType) /\ Len(calls') = Len(calls) - 1
        /\ \A j \in 1..(Len(calls) - 1) : calls'[j] = calls[j]
    <3>. DEFINE n == Len(calls) - 1
    <3>1. n \in Int /\ n + 1 = Len(calls) /\ n >= 0
      BY <1>1, Waiting
    <3>2. \A j \in 1..n : calls[j] \in CallType
      BY <1>1, <3>1, Waiting
    <3>. HIDE DEF n
    <3>3. /\ SubSeq(calls, 1, n) \in Seq(CallType)
          /\ Len(SubSeq(calls, 1, n)) = IF 1 <= n THEN n - 1 + 1 ELSE 0
          /\ \A j \in 1..(n - 1 + 1) : SubSeq(calls, 1, n)[j] = calls[1 + j - 1]
      BY <3>1, <3>2, SubSeqProperties
    <3>4. calls' = SubSeq(calls, 1, n)
      BY <2>1 DEF n
    <3>5. Len(calls') = n
      BY <3>1, <3>3, <3>4
    <3>6. \A j \in 1..n : calls'[j] = calls[j]
      BY <3>1, <3>3, <3>4
    <3>. QED  BY <3>3, <3>4, <3>5, <3>6 DEF n
  <2>3. \A j \in DOMAIN calls' : calls'[j].reply # "stolen"
    BY <1>1, <2>2, Waiting
  <2>. QED  BY <1>1, <1>4, <2>1, <2>2, <2>3, Waiting, StackStep
<1>. QED  BY <1>5, <1>6

\* Every step keeps the invariant.
LEMMA NextStep == IInv /\ [Next]_vars => IInv'
<1>. SUFFICES ASSUME IInv, [Next]_vars PROVE IInv'
  OBVIOUS
<1>1. CASE GenerateThingDescription
  BY <1>1, GenerateStep
<1>2. ASSUME NEW a \in Adapters, getAdapterTDFinished(a) PROVE IInv'
  BY <1>2, DescriptionStep
<1>3. ASSUME NEW c \in Clients, Request(c) PROVE IInv'
  BY <1>3, ForwardStep, TerminateStep DEF Request, InEvents
<1>4. ASSUME NEW k \in DOMAIN calls, Reply(k) PROVE IInv'
  BY <1>4, ReplyStep
<1>5. CASE EnterLoop \/ EndOfTurn
  BY <1>5, LoopStep
<1>6. CASE Return
  BY <1>6, ProceedStep, TerminateStep DEF Return
<1>7. CASE OtherRequestThrows
  BY <1>7, TerminateStep DEF OtherRequestThrows
<1>8. CASE Idle
  <2>1. now' \in Nat
    BY <1>8 DEF IInv, TypeOK, Idle
  <2>. QED  BY <1>8, <2>1 DEF Idle, tdVars, IInv, TypeOK, CallInv, DescriptionInv
<1>9. CASE UNCHANGED vars
  BY <1>9 DEF vars, tdVars, IInv, TypeOK, CallInv, DescriptionInv
<1>. QED  BY <1>1, <1>2, <1>3, <1>4, <1>5, <1>6, <1>7, <1>8, <1>9 DEF Next

\* IInv is an invariant.
THEOREM Invariance == Spec => []IInv
  BY InitIInv, NextStep, PTL DEF Spec

\* Every variable keeps its type, for any adapters and any requests.
THEOREM TypeCorrect == Spec => []TypeOK
<1>1. IInv => TypeOK
  BY DEF IInv
<1>. QED  BY <1>1, Invariance, PTL

\* The objects of no adapter are listed twice, and none are lost before the
\* first blocking call.
THEOREM DescriptionExact == Spec => []ThingDescriptionExact
<1>1. IInv => ThingDescriptionExact
  BY DEF IInv, DescriptionInv, ThingDescriptionExact
<1>. QED  BY <1>1, Invariance, PTL

\* No blocking call ever loses its reply to the slot.
THEOREM RepliesArrive == Spec => []ReplyReachesCaller
<1>1. IInv => ReplyReachesCaller
  BY DEF IInv, CallInv, ReplyReachesCaller
<1>. QED  BY <1>1, Invariance, PTL

-----------------------------------------------------------------------------
(* How long a call waits *)

\* Division with remainder.
LEMMA Remainder ==
    ASSUME NEW s \in Nat, NEW d \in Nat \ {0}
    PROVE  s % d \in 0..(d - 1) /\ s \div d \in Int /\ s = d * (s \div d) + (s % d)
  OBVIOUS

\* A remainder is unique.
LEMMA RemainderUnique ==
    ASSUME NEW d \in Nat \ {0}, NEW p \in Int, NEW q \in Int,
           NEW r \in 0..(d - 1), NEW t \in 0..(d - 1), d * p + r = d * q + t
    PROVE  r = t
<1>1. ASSUME NEW a \in Int, NEW b \in Int, a < b, NEW u \in 0..(d - 1), NEW v \in 0..(d - 1)
      PROVE  d * a + u < d * b + v
  <2>1. PICK e \in Nat : b = a + 1 + e
    <3>1. b - a - 1 \in Nat /\ b = a + 1 + (b - a - 1)
      BY <1>1
    <3>. QED  BY <3>1
  <2>2. d * b = d * a + d + d * e /\ d * e \in Nat
    BY <2>1
  <2>. QED  BY <2>2
<1>2. d * p + r \in Int /\ d * q + t \in Int
  OBVIOUS
<1>3. ~(p < q) /\ ~(q < p)
  BY <1>1, <1>2
<1>. QED  BY <1>3

\* Before the end of the day, time goes on as numbers do.
LEMMA SameDay ==
    ASSUME NEW s \in Nat, NEW x \in Nat, NEW d \in Nat \ {0}, (s % d) + x < d
    PROVE  (s + x) % d = (s % d) + x
<1>. DEFINE r == s % d
            t == (s + x) % d
            p == s \div d
            q == (s + x) \div d
<1>1. r \in 0..(d - 1) /\ p \in Int /\ s = d * p + r
  BY Remainder
<1>2. t \in 0..(d - 1) /\ q \in Int /\ s + x = d * q + t
  <2>1. s + x \in Nat
    OBVIOUS
  <2>. QED  BY <2>1, Remainder
<1>3. r + x < d
  OBVIOUS
<1>. HIDE DEF r, t, p, q
<1>4. d * p \in Int /\ d * q \in Int
  BY <1>1, <1>2
<1>5. d * p + (r + x) = d * q + t /\ r + x \in 0..(d - 1)
  BY <1>1, <1>2, <1>3, <1>4
<1>6. r + x = t
  BY <1>1, <1>2, <1>5, RemainderUnique
<1>. QED  BY <1>6 DEF r, t

\* A call in which none is nested, and whose end cannot be stepped over, begins a
\* round of its loop only before its end.
InTime(c, time) ==
    /\ c.start <= time
    /\ ~MaySkip(c) =>
         /\ c.at = "events" => time < c.start + Timeout
         /\ time < c.start + Timeout + MaxTurn

\* Only the innermost call is without a nested one.
TimeInv == \A k \in 1..Len(calls) : ~calls[k].nested => k = Len(calls) /\ InTime(calls[k], now)

\* A condition of the loop that holds before the end of the day holds in time.
LEMMA NotExpired ==
    ASSUME NEW c \in CallType, now \in Nat, InTime(c, now), ~Expired(c), ~MaySkip(c)
    PROVE  now < c.start + Timeout
<1>. DEFINE end == c.start + Timeout
            x == now - end
<1>1. /\ c.start \in Nat /\ Timeout \in Nat \ {0} /\ Day \in Nat \ {0} /\ MaxTurn \in Nat
      /\ end \in Nat
  BY TimeAssumption DEF CallType
<1>2. SUFFICES ASSUME now >= end PROVE FALSE
  BY <1>1
<1>3. x \in Nat /\ x < MaxTurn /\ now = end + x
  BY <1>1, <1>2 DEF InTime
<1>4. end % Day <= Day - MaxTurn /\ end % Day \in 0..(Day - 1)
  <2>1. end % Day \in 0..(Day - 1)
    BY <1>1, Remainder
  <2>2. ~(end % Day > Day - MaxTurn)
    BY DEF MaySkip
  <2>. HIDE DEF end
  <2>. QED  BY <1>1, <2>1, <2>2
<1>. HIDE DEF end, x
<1>5. (end % Day) + x < Day
  BY <1>1, <1>3, <1>4
<1>6. now % Day = (end % Day) + x
  BY <1>1, <1>3, <1>5, SameDay
<1>7. now % Day < end % Day
  BY DEF Expired, end
<1>. QED  BY <1>3, <1>4, <1>6, <1>7

\* A new call is in time.
LEMMA CallInTime ==
    ASSUME now \in Nat, NEW c, NEW again
    PROVE  InTime(Call(c, again), now)
  BY TimeAssumption DEF InTime, Call

LEMMA TimeStep == IInv /\ TimeInv /\ [Next]_vars => TimeInv'
<1>. SUFFICES ASSUME IInv, TimeInv, [Next]_vars PROVE TimeInv'
  OBVIOUS
<1>1. /\ calls \in Seq(CallType) /\ now \in Nat /\ Len(calls) \in Nat
      /\ \A k \in 1..Len(calls) : calls[k] \in CallType
  BY LenProperties DEF IInv, TypeOK
<1>2. CASE calls' = calls /\ now' = now
  BY <1>2 DEF TimeInv, InTime, MaySkip
<1>3. ASSUME NEW c \in Clients, Forward(c) PROVE TimeInv'
  <2>1. PICK again \in BOOLEAN : calls' = Append(Outer, Call(c, again))
    BY <1>3 DEF Forward
  <2>2. now' = now
    BY <1>3 DEF Forward
  <2>3. Outer \in [1..Len(calls) -> CallType] /\ \A k \in 1..Len(calls) : Outer[k].nested
    <3>1. \A k \in 1..Len(calls) : [calls[k] EXCEPT !.nested = TRUE] \in CallType
                                   /\ [calls[k] EXCEPT !.nested = TRUE].nested
      BY <1>1 DEF CallType
    <3>2. Outer = [k \in 1..Len(calls) |-> [calls[k] EXCEPT !.nested = TRUE]]
      BY <1>1 DEF Outer
    <3>. QED  BY <3>1, <3>2
  <2>4. Outer \in Seq(CallType)
    BY <1>1, <2>3, SeqDef
  <2>5. Len(Outer) = Len(calls)
    BY <1>1, <2>3, <2>4, LenProperties
  <2>6. Call(c, again) \in CallType /\ InTime(Call(c, again), now)
    BY <1>1, CallTyped, CallInTime DEF IInv
  <2>. DEFINE outer == Outer
              new == Call(c, again)
  <2>7. /\ Len(calls') = Len(calls) + 1
        /\ calls'[Len(calls) + 1] = new
        /\ \A k \in 1..Len(calls) : calls'[k].nested
    <3>1. outer \in Seq(CallType) /\ Len(outer) = Len(calls) /\ new \in CallType
          /\ calls' = Append(outer, new) /\ \A k \in 1..Len(calls) : outer[k].nested
      BY <2>1, <2>3, <2>4, <2>5, <2>6
    <3>. HIDE DEF outer, new
    <3>. QED  BY <1>1, <3>1
  <2>8. InTime(new, now)
    BY <2>6
  <2>. HIDE DEF new
  <2>9. ASSUME NEW k \in 1..Len(calls'), ~calls'[k].nested
        PROVE  k = Len(calls') /\ calls'[k] = new
    BY <1>1, <2>7, <2>9
  <2>10. InTime(new, now')
    BY <2>2, <2>8
  <2>. QED  BY <2>9, <2>10 DEF TimeInv, InTime, MaySkip
<1>4. ASSUME NEW k \in DOMAIN calls, Reply(k) PROVE TimeInv'
  <2>1. PICK r \in {"json", "empty"} :
          calls' = [calls EXCEPT ![k].reply =
                        IF r = "json" /\ connections > 0 THEN "stolen" ELSE r]
    BY <1>4 DEF Reply
  <2>2. now' = now
    BY <1>4 DEF Reply
  <2>3. Len(calls') = Len(calls)
    BY <1>1, <2>1
  <2>4. ASSUME NEW j \in 1..Len(calls)
        PROVE  /\ calls'[j].nested = calls[j].nested /\ calls'[j].at = calls[j].at
               /\ calls'[j].start = calls[j].start
    <3>1. calls[j] \in CallType
      BY <1>1
    <3>. QED  BY <1>1, <2>1, <3>1 DEF CallType
  <2>. QED  BY <2>2, <2>3, <2>4 DEF TimeInv, InTime, MaySkip
<1>5. CASE EnterLoop
  <2>1. /\ calls # <<>> /\ ~Expired(top) /\ now' = now
        /\ calls' = [calls EXCEPT ![Len(calls)].at = "events"]
    BY <1>5 DEF EnterLoop
  <2>2. Len(calls) \in 1..Len(calls) /\ Len(calls') = Len(calls) /\ top = calls[Len(calls)]
    BY <1>1, <2>1 DEF top
  <2>3. /\ calls'[Len(calls)].nested = top.nested /\ calls'[Len(calls)].start = top.start
        /\ \A j \in 1..(Len(calls) - 1) : calls'[j] = calls[j]
    BY <1>1, <2>1, <2>2 DEF CallType
  <2>4. ~top.nested => InTime(top, now)
    BY <2>2 DEF TimeInv
  <2>5. ~top.nested /\ ~MaySkip(top) => now < top.start + Timeout
    BY <1>1, <2>1, <2>2, <2>4, NotExpired
  <2>6. ~top.nested => InTime(calls'[Len(calls)], now)
    BY <2>3, <2>4, <2>5 DEF InTime, MaySkip
  <2>7. ASSUME NEW j \in 1..Len(calls'), ~calls'[j].nested
        PROVE  j = Len(calls') /\ InTime(calls'[j], now)
    <3>1. CASE j = Len(calls)
      BY <2>2, <2>3, <2>6, <2>7, <3>1
    <3>2. CASE j # Len(calls)
      BY <1>1, <2>2, <2>3, <2>7, <3>2 DEF TimeInv
    <3>. QED  BY <3>1, <3>2
  <2>. QED  BY <2>1, <2>7 DEF TimeInv, InTime, MaySkip
<1>6. CASE EndOfTurn
  <2>1. /\ calls # <<>> /\ top.at = "events"
        /\ calls' = [calls EXCEPT ![Len(calls)].at = "check"]
    BY <1>6 DEF EndOfTurn
  <2>2. PICK d \in 0..MaxTurn : now' = now + d
    BY <1>6 DEF EndOfTurn
  <2>3. Len(calls) \in 1..Len(calls) /\ Len(calls') = Len(calls) /\ top = calls[Len(calls)]
        /\ top \in CallType
    BY <1>1, <2>1 DEF top
  <2>4. /\ calls'[Len(calls)].nested = top.nested /\ calls'[Len(calls)].start = top.start
        /\ calls'[Len(calls)].at = "check"
        /\ \A j \in 1..(Len(calls) - 1) : calls'[j] = calls[j]
    BY <1>1, <2>1, <2>3 DEF CallType
  <2>5. ~top.nested => InTime(top, now)
    BY <2>3 DEF TimeInv
  <2>6. ASSUME ~top.nested PROVE InTime(calls'[Len(calls)], now')
    <3>1. top.start \in Nat /\ Timeout \in Nat /\ MaxTurn \in Nat
      BY <2>3, TimeAssumption DEF CallType
    <3>2. top.start <= now + d
      BY <1>1, <2>2, <2>5, <2>6, <3>1 DEF InTime
    <3>3. ~MaySkip(top) => now + d < top.start + Timeout + MaxTurn
      BY <1>1, <2>1, <2>2, <2>5, <2>6, <3>1 DEF InTime
    <3>. QED  BY <2>2, <2>4, <3>2, <3>3 DEF InTime, MaySkip
  <2>7. ASSUME NEW j \in 1..Len(calls'), ~calls'[j].nested
        PROVE  j = Len(calls') /\ InTime(calls'[j], now')
    <3>1. CASE j = Len(calls)
      BY <2>3, <2>4, <2>6, <2>7, <3>1
    <3>2. CASE j # Len(calls)
      BY <1>1, <2>3, <2>4, <2>7, <3>2 DEF TimeInv
    <3>. QED  BY <3>1, <3>2
  <2>. QED  BY <2>7 DEF TimeInv, InTime, MaySkip
<1>7. ASSUME calls # <<>>, Proceed PROVE TimeInv'
  <2>1. calls # <<>> /\ now' = now
    BY <1>7 DEF Proceed
  <2>2. Len(calls) \in 1..Len(calls)
    BY <1>1, <2>1
  <2>3. ASSUME NEW j \in 1..(Len(calls) - 1) PROVE calls[j].nested
    BY <1>1, <2>2 DEF TimeInv
  <2>4. CASE top.again
    <3>. DEFINE new == Call(top.client, FALSE)
    <3>1. calls' = [calls EXCEPT ![Len(calls)] = new]
      BY <1>7, <2>4 DEF Proceed
    <3>2. InTime(new, now)
      BY <1>1, CallInTime
    <3>. HIDE DEF new
    <3>3. /\ Len(calls') = Len(calls) /\ calls'[Len(calls)] = new
          /\ \A j \in 1..(Len(calls) - 1) : calls'[j].nested
      BY <1>1, <2>2, <2>3, <3>1
    <3>4. ASSUME NEW j \in 1..Len(calls'), ~calls'[j].nested
          PROVE  j = Len(calls') /\ calls'[j] = new
      BY <1>1, <3>3, <3>4
    <3>5. InTime(new, now')
      BY <2>1, <3>2
    <3>. QED  BY <3>4, <3>5 DEF TimeInv, InTime, MaySkip
  <2>5. CASE ~top.again
    <3>. DEFINE n == Len(calls) - 1
    <3>1. n \in Nat /\ \A j \in 1..n : calls[j] \in CallType
      BY <1>1, <2>2
    <3>2. calls' = SubSeq(calls, 1, n)
      BY <1>7, <2>5 DEF Proceed
    <3>. HIDE DEF n
    <3>3. Len(calls') = n /\ \A j \in 1..n : calls'[j] = calls[j]
      <4>1. /\ Len(SubSeq(calls, 1, n)) = IF 1 <= n THEN n - 1 + 1 ELSE 0
            /\ \A j \in 1..(n - 1 + 1) : SubSeq(calls, 1, n)[j] = calls[1 + j - 1]
        BY <3>1, SubSeqProperties
      <4>. QED  BY <3>1, <3>2, <4>1
    <3>4. \A j \in 1..Len(calls') : calls'[j].nested
      BY <2>3, <3>3 DEF n
    <3>. QED  BY <3>4 DEF TimeInv
  <2>. QED  BY <2>4, <2>5
<1>8. ASSUME Idle \/ \E s : Terminate(s) PROVE TimeInv'
  <2>1. calls' = <<>>
    BY <1>8 DEF Idle, Terminate
  <2>2. Len(calls') = 0
    BY <2>1
  <2>. QED  BY <2>2 DEF TimeInv
<1>9. CASE UNCHANGED vars \/ GenerateThingDescription
           \/ \E a \in Adapters : getAdapterTDFinished(a)
  BY <1>2, <1>9 DEF vars, GenerateThingDescription, getAdapterTDFinished
<1>. QED  BY <1>3, <1>4, <1>5, <1>6, <1>7, <1>8, <1>9
          DEF Next, Request, Return, OtherRequestThrows

\* A wait without nested calls ends in time unless its end can be stepped over at
\* midnight, for every timeout, day, and longest round of the loop.
THEOREM WaitsEndInTime == Spec => []OnlyMidnightProlongs
<1>1. Init => TimeInv
  <2>. SUFFICES ASSUME Init PROVE TimeInv
    OBVIOUS
  <2>1. Len(calls) = 0
    BY DEF Init
  <2>. QED  BY <2>1 DEF TimeInv
<1>2. IInv /\ TimeInv => OnlyMidnightProlongs
  <2>. SUFFICES ASSUME IInv, TimeInv, NEW k \in DOMAIN calls, ~calls[k].nested,
                       now >= calls[k].start + Timeout + MaxTurn, ~MaySkip(calls[k])
                PROVE  FALSE
    BY DEF OnlyMidnightProlongs
  <2>3. calls \in Seq(CallType) /\ now \in Nat
    BY DEF IInv, TypeOK
  <2>4. k \in 1..Len(calls)
    BY <2>3, LenProperties
  <2>5. calls[k] \in CallType
    BY <2>3, <2>4, ElementOfSeq
  <2>1. k \in 1..Len(calls) /\ calls[k].start \in Nat /\ now \in Nat
    BY <2>3, <2>4, <2>5 DEF CallType
  <2>2. now < calls[k].start + Timeout + MaxTurn
    BY <2>1 DEF TimeInv, InTime
  <2>. QED  BY <2>1, <2>2, TimeAssumption
<1>. QED  BY <1>1, <1>2, TimeStep, Invariance, PTL DEF Spec

\* No call begins in the future.
StartInv == \A k \in 1..Len(calls) : calls[k].start <= now

LEMMA StartStep == IInv /\ StartInv /\ [Next]_vars => StartInv'
<1>. SUFFICES ASSUME IInv, StartInv, [Next]_vars PROVE StartInv'
  OBVIOUS
<1>1. /\ calls \in Seq(CallType) /\ now \in Nat /\ Len(calls) \in Nat
      /\ \A k \in 1..Len(calls) : calls[k] \in CallType
  BY LenProperties DEF IInv, TypeOK
<1>2. CASE calls' = calls /\ now' = now
  BY <1>2 DEF StartInv
<1>3. ASSUME NEW c \in Clients, Forward(c) PROVE StartInv'
  <2>1. PICK again \in BOOLEAN : calls' = Append(Outer, Call(c, again))
    BY <1>3 DEF Forward
  <2>2. now' = now
    BY <1>3 DEF Forward
  <2>3. Outer \in [1..Len(calls) -> CallType]
        /\ \A k \in 1..Len(calls) : Outer[k].start = calls[k].start
    <3>1. \A k \in 1..Len(calls) : [calls[k] EXCEPT !.nested = TRUE] \in CallType
                     /\ [calls[k] EXCEPT !.nested = TRUE].start = calls[k].start
      BY <1>1 DEF CallType
    <3>2. Outer = [k \in 1..Len(calls) |-> [calls[k] EXCEPT !.nested = TRUE]]
      BY <1>1 DEF Outer
    <3>. QED  BY <3>1, <3>2
  <2>4. Outer \in Seq(CallType)
    BY <1>1, <2>3, SeqDef
  <2>5. Len(Outer) = Len(calls)
    BY <1>1, <2>3, <2>4, LenProperties
  <2>. DEFINE outer == Outer
              new == Call(c, again)
  <2>6. new \in CallType /\ new.start = now
    BY <1>1, CallTyped DEF IInv, Call
  <2>7. outer \in Seq(CallType) /\ Len(outer) = Len(calls) /\ calls' = Append(outer, new)
        /\ \A k \in 1..Len(calls) : outer[k].start <= now
    BY <2>1, <2>3, <2>4, <2>5 DEF StartInv
  <2>. HIDE DEF outer, new
  <2>8. ASSUME NEW k \in 1..Len(calls') PROVE calls'[k].start <= now
    BY <1>1, <2>6, <2>7
  <2>. QED  BY <2>2, <2>8 DEF StartInv
<1>4. ASSUME NEW k \in DOMAIN calls, Reply(k) PROVE StartInv'
  <2>1. PICK r \in {"json", "empty"} :
          calls' = [calls EXCEPT ![k].reply =
                        IF r = "json" /\ connections > 0 THEN "stolen" ELSE r]
    BY <1>4 DEF Reply
  <2>2. now' = now /\ Len(calls') = Len(calls)
    BY <1>1, <1>4, <2>1 DEF Reply
  <2>3. ASSUME NEW j \in 1..Len(calls) PROVE calls'[j].start = calls[j].start
    <3>1. calls[j] \in CallType
      BY <1>1
    <3>. QED  BY <1>1, <2>1, <3>1 DEF CallType
  <2>. QED  BY <2>2, <2>3 DEF StartInv
<1>5. CASE EnterLoop \/ EndOfTurn
  <2>1. PICK at \in {"events", "check"} : calls' = [calls EXCEPT ![Len(calls)].at = at]
    BY <1>5 DEF EnterLoop, EndOfTurn
  <2>2. now' \in Nat /\ now <= now'
    <3>1. now' = now \/ \E d \in 0..MaxTurn : now' = now + d
      BY <1>5 DEF EnterLoop, EndOfTurn
    <3>. QED  BY <1>1, <3>1, TimeAssumption
  <2>3. Len(calls') = Len(calls)
    BY <1>1, <2>1
  <2>4. ASSUME NEW j \in 1..Len(calls) PROVE calls'[j].start = calls[j].start
    <3>1. calls[j] \in CallType
      BY <1>1
    <3>. QED  BY <1>1, <2>1, <3>1 DEF CallType
  <2>5. ASSUME NEW j \in 1..Len(calls) PROVE calls'[j].start <= now'
    <3>1. calls[j].start \in Nat /\ calls[j].start <= now
      BY <1>1, <2>5 DEF StartInv, CallType
    <3>. QED  BY <1>1, <2>2, <2>4, <3>1
  <2>. QED  BY <2>3, <2>5 DEF StartInv
<1>6. ASSUME calls # <<>>, Proceed PROVE StartInv'
  <2>1. calls # <<>> /\ now' = now
    BY <1>6 DEF Proceed
  <2>2. Len(calls) \in 1..Len(calls)
    BY <1>1, <2>1
  <2>3. CASE top.again
    <3>. DEFINE new == Call(top.client, FALSE)
    <3>1. calls' = [calls EXCEPT ![Len(calls)] = new] /\ new.start <= now
      BY <1>1, <1>6, <2>3 DEF Proceed, Call
    <3>. HIDE DEF new
    <3>2. ASSUME NEW j \in 1..Len(calls') PROVE calls'[j].start <= now
      BY <1>1, <3>1 DEF StartInv
    <3>. QED  BY <2>1, <3>2 DEF StartInv
  <2>4. CASE ~top.again
    <3>. DEFINE n == Len(calls) - 1
    <3>1. n \in Nat /\ n <= Len(calls) /\ \A j \in 1..n : calls[j] \in CallType
      BY <1>1, <2>2
    <3>2. calls' = SubSeq(calls, 1, n)
      BY <1>6, <2>4 DEF Proceed
    <3>. HIDE DEF n
    <3>3. Len(calls') = n /\ \A j \in 1..n : calls'[j] = calls[j]
      <4>1. /\ Len(SubSeq(calls, 1, n)) = IF 1 <= n THEN n - 1 + 1 ELSE 0
            /\ \A j \in 1..(n - 1 + 1) : SubSeq(calls, 1, n)[j] = calls[1 + j - 1]
        BY <3>1, SubSeqProperties
      <4>. QED  BY <3>1, <3>2, <4>1
    <3>4. ASSUME NEW j \in 1..Len(calls') PROVE calls'[j].start <= now
      BY <1>1, <3>1, <3>3 DEF StartInv
    <3>. QED  BY <2>1, <3>4 DEF StartInv
  <2>. QED  BY <2>3, <2>4
<1>7. ASSUME Idle \/ \E s : Terminate(s) PROVE StartInv'
  <2>1. Len(calls') = 0
    BY <1>7 DEF Idle, Terminate
  <2>. QED  BY <2>1 DEF StartInv
<1>8. CASE UNCHANGED vars \/ GenerateThingDescription
           \/ \E a \in Adapters : getAdapterTDFinished(a)
  BY <1>2, <1>8 DEF vars, GenerateThingDescription, getAdapterTDFinished
<1>. QED  BY <1>3, <1>4, <1>5, <1>6, <1>7, <1>8
          DEF Next, Request, Return, OtherRequestThrows

\* A wait that ends on the day on which it began does not end early.
LEMMA NotEarly ==
    ASSUME NEW c \in CallType, now \in Nat, c.start <= now, Expired(c),
           (c.start % Day) + Timeout < Day
    PROVE  now >= c.start + Timeout
<1>. DEFINE x == now - c.start
<1>1. c.start \in Nat /\ Timeout \in Nat \ {0} /\ Day \in Nat \ {0}
  BY TimeAssumption DEF CallType
<1>2. SUFFICES ASSUME now < c.start + Timeout PROVE FALSE
  BY <1>1
<1>3. x \in Nat /\ x < Timeout /\ now = c.start + x
  BY <1>1, <1>2
<1>4. c.start % Day \in 0..(Day - 1)
  BY <1>1, Remainder
<1>. HIDE DEF x
<1>5. (c.start % Day) + x < Day
  BY <1>1, <1>3, <1>4
<1>6. now % Day = (c.start % Day) + x
  BY <1>1, <1>3, <1>5, SameDay
<1>7. (c.start + Timeout) % Day = (c.start % Day) + Timeout
  BY <1>1, SameDay
<1>8. ~(now % Day < (c.start + Timeout) % Day)
  BY DEF Expired
<1>. QED  BY <1>1, <1>3, <1>4, <1>6, <1>7, <1>8

\* No error before the adapter's reply or the end of the wait, unless the wait
\* would end after midnight, for every timeout, day, and nesting of the calls.
THEOREM ErrorsAreNotEarly == Spec => OnlyMidnightShortens
<1>1. Init => StartInv
  <2>. SUFFICES ASSUME Init PROVE StartInv
    OBVIOUS
  <2>1. Len(calls) = 0
    BY DEF Init
  <2>. QED  BY <2>1 DEF StartInv
<1>. DEFINE Told == \A c \in Clients : answer[c] = "none" /\ answer'[c] = "error" =>
          \/ top.reply = "empty"
          \/ now >= top.start + Timeout
          \/ (top.start % Day) + Timeout >= Day
<1>2. ASSUME IInv, StartInv, Next, NEW c \in Clients, answer[c] = "none", answer'[c] = "error"
      PROVE  \/ top.reply = "empty"
             \/ now >= top.start + Timeout
             \/ (top.start % Day) + Timeout >= Day
  <2>. SUFFICES ASSUME top.reply # "empty"
                PROVE  \/ now >= top.start + Timeout
                       \/ (top.start % Day) + Timeout >= Day
    OBVIOUS
  <2>1. Return /\ Proceed
    <3>1. ~\E s : Terminate(s)
      BY <1>2 DEF Terminate
    <3>. QED  BY <1>2, <3>1
              DEF Next, GenerateThingDescription, getAdapterTDFinished, Request, Forward,
                  OtherRequestThrows, Reply, EnterLoop, EndOfTurn, Return, Idle
  <2>2. calls \in Seq(CallType) /\ calls # <<>> /\ now \in Nat
    BY <1>2, <2>1 DEF IInv, TypeOK, Return
  <2>3. Len(calls) \in 1..Len(calls) /\ top = calls[Len(calls)] /\ top \in CallType
    BY <2>2 DEF top
  <2>4. top.reply \in {"none", "json", "empty", "stolen"} /\ top.reply # "stolen"
    BY <1>2, <2>2, <2>3 DEF CallType, IInv, CallInv
  <2>5. top.reply # "json"
    <3>. DEFINE client == top.client
                reply == top.reply
    <3>1. answer' = [answer EXCEPT ![client] =
                        IF answer[client] = "none"
                          THEN IF reply = "json" THEN "reply" ELSE "error"
                          ELSE answer[client]]
      BY <2>1 DEF Proceed, Answered, Outcome
    <3>2. answer \in [Clients -> {"none", "reply", "error", "lost"}]
      BY <1>2 DEF IInv, TypeOK
    <3>. HIDE DEF client, reply
    <3>3. reply # "json"
      BY <1>2, <3>1, <3>2
    <3>. QED  BY <3>3 DEF reply
  <2>6. Expired(top)
    <3>1. top.reply # "none" \/ Expired(top)
      BY <2>1 DEF Return
    <3>. QED  BY <1>2, <2>4, <2>5, <3>1
  <2>7. top.start <= now
    BY <1>2, <2>3 DEF StartInv
  <2>8. CASE (top.start % Day) + Timeout < Day
    BY <2>2, <2>3, <2>6, <2>7, <2>8, NotEarly
  <2>9. CASE ~((top.start % Day) + Timeout < Day)
    <3>1. top.start \in Nat /\ Timeout \in Nat /\ Day \in Nat \ {0}
      BY <2>3, TimeAssumption DEF CallType
    <3>2. top.start % Day \in 0..(Day - 1)
      BY <3>1, Remainder
    <3>. QED  BY <2>9, <3>1, <3>2
  <2>. QED  BY <2>8, <2>9
<1>3. IInv /\ StartInv /\ [Next]_vars => [Told]_vars
  BY <1>2
<1>4. OnlyMidnightShortens <=> [][Told]_vars
  BY DEF OnlyMidnightShortens
<1>. QED  BY <1>1, <1>3, <1>4, StartStep, Invariance, PTL DEF Spec

-----------------------------------------------------------------------------
(* Refinement of NestedRequests *)

\* The clients of the calls on a stack: what `stack` stands for.
StackOf(s) == [k \in DOMAIN s |-> s[k].client]

LEMMA StackOfTyped ==
    ASSUME NEW s \in Seq(CallType)
    PROVE  /\ StackOf(s) \in Seq(Clients) /\ Len(StackOf(s)) = Len(s)
           /\ Len(s) \in Nat
           /\ \A k \in 1..Len(s) : s[k] \in CallType /\ StackOf(s)[k] = s[k].client
<1>1. Len(s) \in Nat /\ DOMAIN s = 1..Len(s) /\ \A k \in 1..Len(s) : s[k] \in CallType
  BY LenProperties, ElementOfSeq
<1>2. StackOf(s) = [k \in 1..Len(s) |-> s[k].client]
  BY <1>1 DEF StackOf
<1>3. \A k \in 1..Len(s) : s[k].client \in Clients
  BY <1>1 DEF CallType
<1>4. StackOf(s) \in [1..Len(s) -> Clients]
  BY <1>2, <1>3
<1>5. StackOf(s) \in Seq(Clients)
  BY <1>1, <1>4, SeqDef
<1>6. Len(StackOf(s)) = Len(s)
  BY <1>1, <1>4, <1>5, LenProperties
<1>. QED  BY <1>1, <1>2, <1>5, <1>6

\* Calls that change in place keep their clients.
LEMMA StackOfSame ==
    ASSUME NEW s \in Seq(CallType), NEW t \in Seq(CallType), Len(t) = Len(s),
           \A k \in 1..Len(s) : t[k].client = s[k].client
    PROVE  StackOf(t) = StackOf(s)
<1>. DEFINE a == StackOf(s)
            b == StackOf(t)
<1>1. /\ a \in Seq(Clients) /\ b \in Seq(Clients) /\ Len(a) = Len(b)
      /\ \A k \in 1..Len(a) : a[k] = b[k]
  BY StackOfTyped
<1>. HIDE DEF a, b
<1>2. a = b
  BY <1>1, SeqEqual
<1>. QED  BY <1>2 DEF a, b

\* A call that is replaced by one of the same client.
LEMMA StackOfReplaced ==
    ASSUME NEW s \in Seq(CallType), NEW k \in 1..Len(s), NEW c \in CallType,
           c.client = s[k].client, NEW t, t = [s EXCEPT ![k] = c]
    PROVE  StackOf(t) = StackOf(s)
<1>1. /\ t \in Seq(CallType) /\ Len(t) = Len(s)
      /\ \A j \in 1..Len(s) : t[j] = IF j = k THEN c ELSE s[j]
  BY ExceptSeq
<1>2. \A j \in 1..Len(s) : t[j].client = s[j].client
  BY <1>1
<1>. QED  BY <1>1, <1>2, StackOfSame

\* A new call is put on top.
LEMMA StackOfAppend ==
    ASSUME NEW s \in Seq(CallType), NEW c \in CallType
    PROVE  StackOf(Append(s, c)) = Append(StackOf(s), c.client)
<1>. DEFINE t == Append(s, c)
            a == StackOf(t)
            b == StackOf(s)
            n == Len(s)
<1>1. /\ t \in Seq(CallType) /\ Len(t) = n + 1 /\ t[n + 1] = c
      /\ \A k \in 1..n : t[k] = s[k]
  OBVIOUS
<1>2. /\ a \in Seq(Clients) /\ Len(a) = n + 1 /\ n \in Nat
      /\ \A k \in 1..(n + 1) : a[k] = t[k].client
  BY <1>1, StackOfTyped
<1>3. b \in Seq(Clients) /\ Len(b) = n /\ \A k \in 1..n : b[k] = s[k].client
  BY StackOfTyped
<1>4. c.client \in Clients
  BY DEF CallType
<1>5. a[n + 1] = c.client
  BY <1>1, <1>2
<1>6. \A k \in 1..n : a[k] = b[k]
  BY <1>1, <1>2, <1>3
<1>. HIDE DEF a, b, n
<1>. DEFINE d == Append(b, c.client)
<1>7. /\ d \in Seq(Clients) /\ Len(d) = n + 1 /\ d[n + 1] = c.client
      /\ \A k \in 1..n : d[k] = b[k]
  BY <1>3, <1>4
<1>8. \A k \in 1..(n + 1) : a[k] = d[k]
  BY <1>2, <1>5, <1>6, <1>7
<1>. HIDE DEF d
<1>9. a = d
  BY <1>2, <1>7, <1>8, SeqEqual
<1>. QED  BY <1>9 DEF a, b, d

\* The innermost call is taken off.
LEMMA StackOfRest ==
    ASSUME NEW s \in Seq(CallType), s # <<>>
    PROVE  /\ SubSeq(s, 1, Len(s) - 1) \in Seq(CallType)
           /\ StackOf(SubSeq(s, 1, Len(s) - 1)) = SubSeq(StackOf(s), 1, Len(StackOf(s)) - 1)
<1>. DEFINE n == Len(s) - 1
            t == SubSeq(s, 1, n)
            a == StackOf(t)
            b == StackOf(s)
            d == SubSeq(b, 1, n)
<1>1. n \in Nat /\ n + 1 = Len(s) /\ \A k \in 1..Len(s) : s[k] \in CallType
  BY EmptySeq, StackOfTyped
<1>2. b \in Seq(Clients) /\ Len(b) = n + 1 /\ \A k \in 1..(n + 1) : b[k] = s[k].client /\ b[k] \in Clients
  <2>1. \A k \in 1..Len(s) : s[k].client \in Clients
    BY <1>1 DEF CallType
  <2>. QED  BY <1>1, <2>1, StackOfTyped
<1>. HIDE DEF n, b
<1>3. t \in Seq(CallType) /\ Len(t) = n /\ \A k \in 1..n : t[k] = s[k]
  <2>1. \A k \in 1..n : s[k] \in CallType
    BY <1>1
  <2>2. /\ t \in Seq(CallType) /\ Len(t) = IF 1 <= n THEN n - 1 + 1 ELSE 0
        /\ \A k \in 1..(n - 1 + 1) : t[k] = s[1 + k - 1]
    BY <1>1, <2>1, SubSeqProperties
  <2>. QED  BY <1>1, <2>2
<1>4. d \in Seq(Clients) /\ Len(d) = n /\ \A k \in 1..n : d[k] = b[k]
  <2>1. \A k \in 1..n : b[k] \in Clients
    BY <1>1, <1>2
  <2>2. /\ d \in Seq(Clients) /\ Len(d) = IF 1 <= n THEN n - 1 + 1 ELSE 0
        /\ \A k \in 1..(n - 1 + 1) : d[k] = b[1 + k - 1]
    BY <1>1, <2>1, SubSeqProperties
  <2>. QED  BY <1>1, <2>2
<1>. HIDE DEF t, d
<1>5. a \in Seq(Clients) /\ Len(a) = n /\ \A k \in 1..n : a[k] = t[k].client
  BY <1>3, StackOfTyped
<1>6. \A k \in 1..n : a[k] = d[k]
  BY <1>1, <1>2, <1>3, <1>4, <1>5
<1>. HIDE DEF a
<1>7. a = d
  BY <1>4, <1>5, <1>6, SeqEqual
<1>. QED  BY <1>1, <1>2, <1>3, <1>7 DEF a, b, d, n, t

\* Steps that concern neither the clients on the stack nor the answers.
LEMMA NestedStutters ==
    ASSUME StackOf(calls') = StackOf(calls), answer' = answer
    PROVE  UNCHANGED Nested!nestedVars
  BY DEF Nested!nestedVars, StackOf

\* What ends the process loses the requests in progress.
LEMMA NestedTerminates ==
    ASSUME IInv, NEW c \in Clients, Terminate({c}),
           Nested!New(c) \/ (StackOf(calls) # <<>> /\ c = Nested!innermost)
    PROVE  Nested!Terminate(c)
<1>1. calls' = <<>> /\ DOMAIN calls' = {}
  BY DEF Terminate
<1>2. StackOf(calls') = <<>>
  BY <1>1 DEF StackOf
<1>3. Nested!InProgress = {calls[k].client : k \in DOMAIN calls}
  BY DEF Nested!InProgress
<1>4. answer' = [d \in Clients |->
                    IF d \in Nested!InProgress \cup {c} /\ answer[d] = "none"
                      THEN "lost" ELSE answer[d]]
  BY <1>3 DEF Terminate
<1>. QED  BY <1>2, <1>4 DEF Nested!Terminate, StackOf

\* Every step of the bridge is a step of NestedRequests, or changes nothing of it.
LEMMA NestedStep ==
    ASSUME IInv, [Next]_vars
    PROVE  [Nested!NestedNext]_(Nested!nestedVars)
<1>1. calls \in Seq(CallType) /\ answer \in [Clients -> {"none", "reply", "error", "lost"}]
  BY DEF IInv, TypeOK
<1>2. CASE calls' = calls /\ answer' = answer
  BY <1>2, NestedStutters
<1>3. ASSUME NEW c \in Clients, Request(c), Forward(c) PROVE Nested!NestedNext
  <2>1. PICK again \in BOOLEAN : calls' = Append(Outer, Call(c, again))
    BY <1>3 DEF Forward
  <2>2. /\ answer' = answer /\ answer[c] = "none"
        /\ \A k \in DOMAIN calls : calls[k].client # c
    BY <1>3 DEF Request, Forward
  <2>. DEFINE new == Call(c, again)
              outer == Outer
  <2>3. new \in CallType /\ new.client = c
    BY CallTyped DEF IInv, Call
  <2>4. outer \in Seq(CallType) /\ StackOf(outer) = StackOf(calls)
    <3>1. Len(calls) \in Nat /\ DOMAIN calls = 1..Len(calls)
          /\ \A k \in 1..Len(calls) : calls[k] \in CallType
      BY <1>1, LenProperties, ElementOfSeq
    <3>2. outer = [k \in 1..Len(calls) |-> [calls[k] EXCEPT !.nested = TRUE]]
      BY <3>1 DEF Outer
    <3>3. \A k \in 1..Len(calls) :
             /\ [calls[k] EXCEPT !.nested = TRUE] \in CallType
             /\ [calls[k] EXCEPT !.nested = TRUE].client = calls[k].client
      BY <3>1 DEF CallType
    <3>. HIDE DEF outer
    <3>4. outer \in [1..Len(calls) -> CallType]
      BY <3>2, <3>3
    <3>5. outer \in Seq(CallType)
      BY <3>1, <3>4, SeqDef
    <3>6. Len(outer) = Len(calls)
      BY <3>1, <3>4, <3>5, LenProperties
    <3>7. \A k \in 1..Len(calls) : outer[k].client = calls[k].client
      BY <3>2, <3>3
    <3>. QED  BY <1>1, <3>5, <3>6, <3>7, StackOfSame
  <2>5. calls' = Append(outer, new)
    BY <2>1
  <2>. HIDE DEF new, outer
  <2>6. StackOf(calls') = Append(StackOf(calls), c)
    BY <2>3, <2>4, <2>5, StackOfAppend
  <2>7. Nested!New(c)
    BY <2>2 DEF Nested!New, Nested!InProgress
  <2>8. Nested!Begin(c)
    BY <2>2, <2>6, <2>7 DEF Nested!Begin, StackOf
  <2>. QED  BY <2>8 DEF Nested!NestedNext
<1>4. ASSUME NEW k \in DOMAIN calls, Reply(k) PROVE UNCHANGED Nested!nestedVars
  <2>1. k \in 1..Len(calls) /\ calls # <<>>
    BY <1>1
  <2>2. PICK r \in {"json", "empty"} :
        calls' = [calls EXCEPT ![k].reply =
                      IF r = "json" /\ connections > 0 THEN "stolen" ELSE r]
    BY <1>4 DEF Reply
  <2>3. connections = 0
    BY <2>1, Waiting
  <2>. DEFINE new == [calls[k] EXCEPT !.reply = r]
  <2>4. calls' = [calls EXCEPT ![k] = new] /\ new \in CallType /\ new.client = calls[k].client
    <3>1. calls[k] \in CallType
      BY <1>1, <2>1, ElementOfSeq
    <3>. QED  BY <2>2, <2>3, <3>1 DEF CallType
  <2>. HIDE DEF new
  <2>5. StackOf(calls') = StackOf(calls)
    BY <1>1, <2>1, <2>4, StackOfReplaced
  <2>. QED  BY <1>4, <2>5, NestedStutters DEF Reply
<1>5. ASSUME EnterLoop \/ EndOfTurn PROVE UNCHANGED Nested!nestedVars
  <2>1. calls # <<>> /\ answer' = answer
    BY <1>5 DEF EnterLoop, EndOfTurn
  <2>2. Len(calls) \in 1..Len(calls) /\ calls[Len(calls)] \in CallType
    BY <2>1, Waiting
  <2>3. PICK at \in {"check", "events"} : calls' = [calls EXCEPT ![Len(calls)].at = at]
    BY <1>5 DEF EnterLoop, EndOfTurn
  <2>. DEFINE new == [calls[Len(calls)] EXCEPT !.at = at]
  <2>4. /\ calls' = [calls EXCEPT ![Len(calls)] = new]
        /\ new \in CallType /\ new.client = calls[Len(calls)].client
    BY <2>2, <2>3 DEF CallType
  <2>. HIDE DEF new
  <2>5. StackOf(calls') = StackOf(calls)
    BY <1>1, <2>2, <2>4, StackOfReplaced
  <2>. QED  BY <2>1, <2>5, NestedStutters
<1>6. ASSUME calls # <<>>, Proceed
      PROVE  Nested!NestedNext \/ UNCHANGED Nested!nestedVars
  <2>1. calls # <<>>
    BY <1>6
  <2>2. Len(calls) \in 1..Len(calls) /\ top = calls[Len(calls)] /\ top \in CallType
    BY <2>1, Waiting DEF top
  <2>. DEFINE stack == StackOf(calls)
              client == top.client
              o == Outcome
  <2>3. client \in Clients /\ o \in {"reply", "error"}
    BY <2>2 DEF CallType, Outcome
  <2>4. stack \in Seq(Clients) /\ Len(stack) = Len(calls) /\ stack[Len(stack)] = client
    BY <1>1, <2>2, StackOfTyped
  <2>5. Nested!innermost = client /\ stack # <<>>
    <3>1. stack # <<>>
      BY <2>2, <2>4
    <3>. QED  BY <2>4, <3>1 DEF Nested!innermost, StackOf
  <2>6. IF top.again THEN StackOf(calls') = stack
        ELSE StackOf(calls') = SubSeq(stack, 1, Len(stack) - 1)
    <3>1. CASE top.again
      <4>. DEFINE new == Call(client, FALSE)
      <4>1. calls' = [calls EXCEPT ![Len(calls)] = new]
        BY <1>6, <3>1 DEF Proceed
      <4>2. new \in CallType /\ new.client = client
        BY <2>3, CallTyped DEF IInv, Call
      <4>. HIDE DEF new
      <4>3. StackOf(calls') = stack
        BY <1>1, <2>2, <4>1, <4>2, StackOfReplaced
      <4>. QED  BY <3>1, <4>3
    <3>2. CASE ~top.again
      <4>1. calls' = SubSeq(calls, 1, Len(calls) - 1)
        BY <1>6, <3>2 DEF Proceed
      <4>. QED  BY <1>1, <2>1, <3>2, <4>1, StackOfRest
    <3>. QED  BY <3>1, <3>2
  <2>7. answer' = [answer EXCEPT ![client] =
                      IF answer[client] = "none" THEN o ELSE answer[client]]
    BY <1>6 DEF Proceed, Answered
  <2>. HIDE DEF o, client
  <2>8. CASE answer[client] = "none"
    <3>1. answer' = [answer EXCEPT ![client] = o]
      BY <2>7, <2>8
    <3>2. StackOf(calls') \in {stack, SubSeq(stack, 1, Len(stack) - 1)}
      BY <2>6
    <3>3. Nested!Answer
      BY <2>3, <2>5, <2>8, <3>1, <3>2 DEF Nested!Answer, StackOf
    <3>. QED  BY <3>3 DEF Nested!NestedNext
  <2>9. CASE answer[client] # "none"
    <3>1. answer' = answer
      BY <1>1, <2>3, <2>7, <2>9
    <3>2. CASE top.again
      BY <2>6, <3>1, <3>2, NestedStutters
    <3>3. CASE ~top.again
      <4>1. Nested!Leave
        BY <2>5, <2>6, <2>9, <3>1, <3>3 DEF Nested!Leave, StackOf
      <4>. QED  BY <4>1 DEF Nested!NestedNext
    <3>. QED  BY <3>2, <3>3
  <2>. QED  BY <2>8, <2>9
<1>7. CASE GenerateThingDescription \/ Idle \/ UNCHANGED vars
           \/ \E a \in Adapters : getAdapterTDFinished(a)
  <2>1. calls' = calls /\ answer' = answer
    BY <1>7 DEF GenerateThingDescription, Idle, vars, getAdapterTDFinished
  <2>. QED  BY <1>2, <2>1
<1>8. ASSUME NEW c \in Clients, Request(c), Terminate({c}) PROVE Nested!NestedNext
  <2>1. Nested!New(c)
    BY <1>8 DEF Request, Nested!New, Nested!InProgress
  <2>. QED  BY <1>8, <2>1, NestedTerminates DEF Nested!NestedNext
<1>9. ASSUME Terminate({}), calls # <<>> PROVE Nested!NestedNext
  <2>1. top \in CallType /\ Len(calls) \in 1..Len(calls) /\ top = calls[Len(calls)]
    BY <1>9, Waiting DEF top
  <2>2. PICK c \in Clients : c = top.client
    BY <2>1 DEF CallType
  <2>3. Terminate({c})
    <3>1. \E k \in DOMAIN calls : calls[k].client = c
      BY <1>1, <2>1, <2>2, LenProperties
    <3>. QED  BY <1>9, <3>1 DEF Terminate
  <2>4. StackOf(calls) # <<>> /\ c = Nested!innermost
    <3>1. /\ StackOf(calls) \in Seq(Clients) /\ Len(StackOf(calls)) = Len(calls)
          /\ StackOf(calls)[Len(calls)] = c
      BY <1>1, <2>1, <2>2, StackOfTyped
    <3>2. StackOf(calls) # <<>>
      BY <2>1, <3>1
    <3>. QED  BY <3>1, <3>2 DEF Nested!innermost, StackOf
  <2>5. Nested!Terminate(c)
    BY <2>3, <2>4, NestedTerminates
  <2>. QED  BY <2>5 DEF Nested!NestedNext
<1>10. CASE Terminate({}) /\ calls = <<>>
  <2>1. DOMAIN calls = {}
    BY <1>10
  <2>2. calls' = calls /\ answer' = answer
    BY <1>1, <1>10, <2>1 DEF Terminate
  <2>. QED  BY <1>2, <2>2
<1>. QED  BY <1>3, <1>4, <1>5, <1>6, <1>7, <1>8, <1>9, <1>10
          DEF Next, Request, Return, OtherRequestThrows

\* Requests that wait inside the waits of others are answered as NestedRequests
\* promises, for any number of clients and adapters and any course of the time.
THEOREM Refinement == Spec => ImplementsNested
<1>1. Init => Nested!NestedInit
  <2>. SUFFICES ASSUME Init PROVE Nested!NestedInit
    OBVIOUS
  <2>1. DOMAIN calls = {}
    BY DEF Init
  <2>2. [k \in DOMAIN calls |-> calls[k].client] = <<>>
    BY <2>1
  <2>. QED  BY <2>2 DEF Init, Nested!NestedInit
<1>. QED  BY <1>1, NestedStep, Invariance, PTL DEF Spec, ImplementsNested, Nested!NestedSpec

\* No client has two calls on the stack.
Distinct(s) == \A j, k \in 1..Len(s) : s[j] = s[k] => j = k
OneCallEach == Distinct(StackOf(calls))

LEMMA OneCallEachStep ==
    ASSUME IInv, IInv', OneCallEach, [Next]_vars
    PROVE  OneCallEach'
<1>. DEFINE s == StackOf(calls)
            t == StackOf(calls')
<1>1. calls \in Seq(CallType) /\ calls' \in Seq(CallType)
  BY DEF IInv, TypeOK
<1>2. s \in Seq(Clients) /\ t \in Seq(Clients) /\ Distinct(s)
  BY <1>1, StackOfTyped DEF OneCallEach
<1>3. \/ t = s \/ t = <<>>
      \/ s # <<>> /\ t = SubSeq(s, 1, Len(s) - 1)
      \/ \E c \in Clients : t = Append(s, c) /\ \A k \in DOMAIN s : s[k] # c
  BY NestedStep DEF Nested!NestedNext, Nested!nestedVars, Nested!Begin, Nested!AtOnce,
     Nested!Answer, Nested!Leave, Nested!Terminate, Nested!New, Nested!InProgress, StackOf
<1>. SUFFICES Distinct(t)
  BY DEF OneCallEach
<1>. HIDE DEF s, t
<1>4. CASE t = s \/ t = <<>>
  <2>1. Distinct(<<>>)
    BY DEF Distinct
  <2>. QED  BY <1>2, <1>4, <2>1 DEF Distinct
<1>5. CASE s # <<>> /\ t = SubSeq(s, 1, Len(s) - 1)
  <2>. DEFINE n == Len(s) - 1
  <2>1. n \in Nat /\ n + 1 = Len(s) /\ \A k \in 1..Len(s) : s[k] \in Clients
    BY <1>2, <1>5, EmptySeq, ElementOfSeq
  <2>2. t = SubSeq(s, 1, n)
    BY <1>5
  <2>. HIDE DEF n
  <2>3. Len(t) = n /\ \A k \in 1..n : t[k] = s[k]
    <3>1. /\ Len(t) = IF 1 <= n THEN n - 1 + 1 ELSE 0
          /\ \A k \in 1..(n - 1 + 1) : t[k] = s[1 + k - 1]
      BY <2>1, <2>2, SubSeqProperties
    <3>. QED  BY <2>1, <3>1
  <2>. QED  BY <1>2, <2>1, <2>3 DEF Distinct
<1>6. ASSUME NEW c \in Clients, t = Append(s, c), \A k \in DOMAIN s : s[k] # c
      PROVE  Distinct(t)
  <2>1. Len(s) \in Nat /\ DOMAIN s = 1..Len(s)
    BY <1>2, LenProperties
  <2>2. Len(t) = Len(s) + 1 /\ t[Len(s) + 1] = c /\ \A k \in 1..Len(s) : t[k] = s[k]
    BY <1>2, <1>6
  <2>. QED  BY <1>2, <1>6, <2>1, <2>2 DEF Distinct
<1>. QED  BY <1>3, <1>4, <1>5, <1>6

\* There are at most as many calls as clients: the fairness of FairSpec is for every
\* call that can wait, and FairSpec assumes an answer of no other.
THEOREM EveryCallHasItsAnswer ==
    ASSUME IsFiniteSet(Clients)
    PROVE  Spec => [](DOMAIN calls \subseteq 1..Cardinality(Clients))
<1>1. Init => OneCallEach
  <2>. SUFFICES ASSUME Init PROVE OneCallEach
    OBVIOUS
  <2>1. StackOf(calls) = <<>>
    <3>1. DOMAIN calls = {}
      BY DEF Init
    <3>. QED  BY <3>1 DEF StackOf
  <2>. QED  BY <2>1 DEF OneCallEach, Distinct
<1>2. ASSUME IInv, OneCallEach PROVE DOMAIN calls \subseteq 1..Cardinality(Clients)
  <2>. DEFINE s == StackOf(calls)
              n == Len(calls)
              m == Cardinality(Clients)
  <2>1. /\ calls \in Seq(CallType) /\ s \in Seq(Clients) /\ Len(s) = n /\ n \in Nat
        /\ DOMAIN calls = 1..n /\ Distinct(s)
    BY <1>2, StackOfTyped, LenProperties DEF IInv, TypeOK, OneCallEach
  <2>2. m \in Nat
    BY FS_CardinalityType
  <2>3. s \in [1..n -> Clients]
    BY <2>1, LenProperties
  <2>. HIDE DEF s, n, m
  <2>4. IsFiniteSet(1..n) /\ Cardinality(1..n) = n
    BY <2>1, FS_Interval
  <2>5. n <= m
    <3>. SUFFICES ASSUME m < n PROVE FALSE
      BY <2>1, <2>2
    <3>1. PICK j, k \in 1..n : j # k /\ s[j] = s[k]
      BY <2>3, <2>4, FS_PigeonHole DEF m
    <3>. QED  BY <2>1, <3>1 DEF Distinct
  <2>. QED  BY <2>1, <2>2, <2>5 DEF m
<1>. QED  BY <1>1, <1>2, OneCallEachStep, Invariance, PTL DEF Spec
=============================================================================
