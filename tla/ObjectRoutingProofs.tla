------------------------ MODULE ObjectRoutingProofs ------------------------
(***************************************************************************)
(* What ObjectRouting guarantees, for all names, of any length, and any    *)
(* number of adapters: an oid that was composed from names of the regular  *)
(* kind is taken apart into these names, whatever colons the name of the   *)
(* adapter has, and so every regular object is reached.                    *)
(***************************************************************************)
EXTENDS ObjectRouting, SequenceTheorems, WellFoundedInduction, TLAPS

\* A nonempty set of natural numbers has a minimum.
LEMMA MinOfSet ==
    ASSUME NEW T \in SUBSET Nat, T # {}
    PROVE  \E t \in T : \A y \in T : t <= y
<1>. DEFINE R == OpToRel(<, Nat)
<1>1. PICK t \in T : \A y \in T : <<y, t>> \notin R
  <2>. HIDE DEF R
  <2>. QED  BY NatLessThanWellFounded, WFMin DEF R
<1>2. \A y \in T : ~(y < t)
  BY <1>1 DEF OpToRel
<1>. QED  BY <1>2

\* A nonempty set of numbers up to n has a maximum.
LEMMA MaxOfSet ==
    ASSUME NEW n \in Nat, NEW S \in SUBSET (0..n), S # {}
    PROVE  Max(S) \in S /\ \A y \in S : Max(S) >= y
<1>. DEFINE T == {n - s : s \in S}
<1>1. T \in SUBSET Nat /\ T # {}
  <2>1. \A s \in S : n - s \in Nat
    OBVIOUS
  <2>2. T # {}
    OBVIOUS
  <2>. QED  BY <2>1, <2>2
<1>2. PICK t \in T : \A y \in T : t <= y
  <2>. HIDE DEF T
  <2>. QED  BY <1>1, MinOfSet
<1>3. PICK s \in S : t = n - s
  BY <1>2
<1>4. \A y \in S : s >= y
  <2>. SUFFICES ASSUME NEW y \in S PROVE s >= y
    OBVIOUS
  <2>1. n - y \in T
    OBVIOUS
  <2>2. n - s <= n - y
    BY <1>2, <1>3, <2>1
  <2>. QED  BY <2>2
<1>. QED  BY <1>4 DEF Max

-----------------------------------------------------------------------------
(* Names *)

\* What an oid is made of.
LEMMA ComposedElements ==
    ASSUME NEW a \in Names, NEW o \in Names
    PROVE  LET c == Composed(a, o) IN
             /\ c \in Names
             /\ Len(c) = Len(a) + Len(o) + 2
             /\ \A i \in 1..Len(a) : c[i] = a[i]
             /\ c[Len(a) + 1] = Colon
             /\ \A i \in 1..Len(o) : c[Len(a) + 1 + i] = o[i]
             /\ c[Len(c)] = Enc
<1>. DEFINE l == a \o <<Colon>>
            m == l \o o
            e == <<Enc>>
            c == m \o e
<1>1. <<Colon>> \in Names /\ Len(<<Colon>>) = 1 /\ <<Colon>>[1] = Colon
  BY DEF Names, Tokens
<1>2. e \in Names /\ Len(e) = 1 /\ e[1] = Enc
  BY DEF Names, Tokens
<1>3. Len(a) \in Nat /\ Len(o) \in Nat
  BY LenProperties DEF Names
<1>4. /\ l \in Names /\ Len(l) = Len(a) + 1
      /\ \A i \in 1..Len(a) : l[i] = a[i]
      /\ l[Len(a) + 1] = Colon
  BY <1>1, <1>3, ConcatProperties DEF Names
<1>. HIDE DEF l, e
<1>5. /\ m \in Names /\ Len(m) = Len(a) + 1 + Len(o)
      /\ \A i \in 1..(Len(a) + 1) : m[i] = l[i]
      /\ \A i \in 1..Len(o) : m[Len(a) + 1 + i] = o[i]
  <2>1. /\ m \in Names /\ Len(m) = Len(l) + Len(o)
        /\ \A i \in 1..(Len(l) + Len(o)) : m[i] = IF i <= Len(l) THEN l[i] ELSE o[i - Len(l)]
    BY <1>4, ConcatProperties DEF Names
  <2>. HIDE DEF m
  <2>2. ASSUME NEW i \in 1..(Len(a) + 1) PROVE m[i] = l[i]
    BY <1>3, <1>4, <2>1
  <2>3. ASSUME NEW i \in 1..Len(o) PROVE m[Len(a) + 1 + i] = o[i]
    <3>1. Len(a) + 1 + i \in 1..(Len(l) + Len(o)) /\ ~(Len(a) + 1 + i <= Len(l))
      BY <1>3, <1>4
    <3>2. Len(a) + 1 + i - Len(l) = i
      BY <1>3, <1>4
    <3>. QED  BY <2>1, <3>1, <3>2
  <2>. QED  BY <1>3, <1>4, <2>1, <2>2, <2>3
<1>. HIDE DEF m
<1>6. /\ c \in Names /\ Len(c) = Len(a) + Len(o) + 2
      /\ \A i \in 1..(Len(a) + 1 + Len(o)) : c[i] = m[i]
      /\ c[Len(c)] = Enc
  <2>1. /\ c \in Names /\ Len(c) = Len(m) + Len(e)
        /\ \A i \in 1..(Len(m) + Len(e)) : c[i] = IF i <= Len(m) THEN m[i] ELSE e[i - Len(m)]
    <3>1. m \in Seq(Tokens) /\ e \in Seq(Tokens)
      BY <1>2, <1>5 DEF Names
    <3>. QED  BY <3>1, ConcatProperties DEF c, Names
  <2>. HIDE DEF c
  <2>2. ASSUME NEW i \in 1..(Len(a) + 1 + Len(o)) PROVE c[i] = m[i]
    BY <1>2, <1>3, <1>5, <2>1
  <2>3. c[Len(c)] = Enc
    <3>1. Len(c) \in 1..(Len(m) + Len(e)) /\ ~(Len(c) <= Len(m)) /\ Len(c) - Len(m) = 1
      BY <1>2, <1>3, <1>5, <2>1
    <3>. QED  BY <1>2, <2>1, <3>1
  <2>. QED  BY <1>2, <1>3, <1>5, <2>1, <2>2, <2>3
<1>7. Composed(a, o) = c
  BY DEF Composed, l, m, e
<1>. HIDE DEF c
<1>8. /\ \A i \in 1..Len(a) : c[i] = a[i]
      /\ c[Len(a) + 1] = Colon
  BY <1>3, <1>4, <1>5, <1>6
<1>9. ASSUME NEW i \in 1..Len(o) PROVE c[Len(a) + 1 + i] = o[i]
  <2>1. Len(a) + 1 + i \in 1..(Len(a) + 1 + Len(o))
    BY <1>3
  <2>. QED  BY <1>5, <1>6, <2>1
<1>. QED  BY <1>6, <1>7, <1>8, <1>9

\* The two groups of a match are names.
LEMMA GroupsAreNames ==
    ASSUME NEW oid \in Names, hasMatch(oid)
    PROVE  /\ Separator(oid) \in Separators(oid)
           /\ AdapterOf(oid) \in Names /\ ObjectOf(oid) \in Names
<1>1. Len(oid) \in Nat /\ \A i \in 1..Len(oid) : oid[i] \in Tokens
  BY LenProperties DEF Names
<1>2. Separator(oid) \in Separators(oid)
  <2>1. Separators(oid) \in SUBSET (0..Len(oid))
    BY <1>1 DEF Separators
  <2>. QED  BY <1>1, <2>1, MaxOfSet DEF hasMatch, Separator
<1>. DEFINE E == {k \in 1..Len(oid) : oid[k] = Enc}
<1>3. EndOfObject(oid) \in 1..Len(oid)
  <2>1. E \in SUBSET (0..Len(oid)) /\ E # {}
    BY <1>1, <1>2 DEF Separators
  <2>2. Max(E) \in E
    <3>. HIDE DEF E
    <3>. QED  BY <1>1, <2>1, MaxOfSet
  <2>. QED  BY <2>2 DEF EndOfObject
<1>4. Separator(oid) \in 2..Len(oid)
  BY <1>2 DEF Separators
<1>5. AdapterOf(oid) \in Names
  BY <1>1, <1>4, SubSeqProperties DEF AdapterOf, Names
<1>6. ObjectOf(oid) \in Names
  BY <1>1, <1>3, <1>4, SubSeqProperties DEF ObjectOf, Names
<1>. QED  BY <1>2, <1>5, <1>6

\* An oid is taken apart into the names it was composed from, if the name of the
\* object has no colon and neither name is empty: Composed against the pattern
\* (.+):(.+)_enc.
THEOREM RoundTrip ==
    ASSUME NEW a \in Names, NEW o \in Names,
           a # NoName, o # NoName, \A k \in DOMAIN o : o[k] # Colon
    PROVE  LET c == Composed(a, o) IN
             hasMatch(c) /\ AdapterOf(c) = a /\ ObjectOf(c) = o
<1>. DEFINE c == Composed(a, o)
            s == Len(a) + 1
<1>1. /\ Len(a) \in Nat \ {0} /\ Len(o) \in Nat \ {0}
      /\ DOMAIN o = 1..Len(o)
  BY LenProperties, EmptySeq DEF Names, NoName
<1>2. /\ c \in Names
      /\ Len(c) = Len(a) + Len(o) + 2
      /\ \A i \in 1..Len(a) : c[i] = a[i]
      /\ c[s] = Colon
      /\ \A i \in 1..Len(o) : c[s + i] = o[i]
      /\ c[Len(c)] = Enc
  BY ComposedElements
<1>. HIDE DEF c
<1>3. s \in Separators(c)
  <2>1. s \in 2..Len(c) /\ Len(c) \in (s + 2)..Len(c)
    BY <1>1, <1>2
  <2>. QED  BY <1>2, <2>1 DEF Separators
<1>4. \A j \in Separators(c) : s >= j
  <2>. SUFFICES ASSUME NEW j \in Separators(c), j > s PROVE FALSE
    BY <1>1, <1>2 DEF Separators
  <2>1. j \in 2..Len(c) /\ c[j] = Colon /\ j + 2 <= Len(c)
    BY <1>1, <1>2 DEF Separators
  <2>2. (j - s) \in 1..Len(o) /\ s + (j - s) = j
    BY <1>1, <1>2, <2>1
  <2>3. c[j] = o[j - s]
    BY <1>2, <2>2
  <2>. QED  BY <1>1, <2>1, <2>2, <2>3
<1>5. Separator(c) = s
  <2>1. \A j \in Separators(c) : j \in Nat
    BY <1>1, <1>2 DEF Separators
  <2>2. Max(Separators(c)) \in Separators(c) /\ \A y \in Separators(c) : Max(Separators(c)) >= y
    BY <1>3, <1>4 DEF Max
  <2>. QED  BY <1>3, <1>4, <2>1, <2>2 DEF Separator
<1>. DEFINE E == {k \in 1..Len(c) : c[k] = Enc}
<1>6. EndOfObject(c) = Len(c)
  <2>1. Len(c) \in E /\ \A k \in E : Len(c) >= k /\ k \in Nat
    BY <1>1, <1>2
  <2>2. Max(E) \in E /\ \A y \in E : Max(E) >= y
    <3>. HIDE DEF E
    <3>. QED  BY <2>1 DEF Max
  <2>3. Max(E) = Len(c)
    <3>. HIDE DEF E
    <3>. QED  BY <2>1, <2>2
  <2>. QED  BY <2>3 DEF EndOfObject
<1>7. AdapterOf(c) = a
  <2>. DEFINE t == SubSeq(c, 1, Len(a))
  <2>1. \A i \in 1..Len(a) : c[i] \in Tokens
    BY <1>2, LenProperties DEF Names
  <2>2. t \in Seq(Tokens) /\ Len(t) = Len(a) /\ \A i \in 1..Len(a) : t[i] = a[i]
    BY <1>1, <1>2, <2>1, SubSeqProperties
  <2>3. t = a
    <3>. HIDE DEF t
    <3>. QED  BY <2>2, SeqEqual DEF Names
  <2>. QED  BY <1>1, <1>5, <2>3 DEF AdapterOf
<1>8. ObjectOf(c) = o
  <2>. DEFINE t == SubSeq(c, s + 1, Len(c) - 1)
  <2>1. \A i \in (s + 1)..(Len(c) - 1) : c[i] \in Tokens
    BY <1>1, <1>2, LenProperties DEF Names
  <2>2. t \in Seq(Tokens) /\ Len(t) = Len(o) /\ \A i \in 1..Len(o) : t[i] = c[s + i]
    BY <1>1, <1>2, <2>1, SubSeqProperties
  <2>3. t = o
    <3>. HIDE DEF t
    <3>. QED  BY <1>2, <2>2, SeqEqual DEF Names
  <2>. QED  BY <1>5, <1>6, <2>3 DEF ObjectOf
<1>9. hasMatch(c)
  BY <1>3 DEF hasMatch
<1>. QED  BY <1>7, <1>8, <1>9 DEF c

-----------------------------------------------------------------------------
(* The inductive invariant *)

\* The oid of a listed object is composed from the names the adapter gave.
ListInv == \A e \in td : e.oid = Composed(e.claimed, e.object)

\* Nothing is listed unless the configuration was read.
EndpointInv ==
    /\ m_endpoints \in {NoEndpoints, Endpoints}
    /\ asked # {} \/ td # {} => m_endpoints = Endpoints

\* A request for an adapter's object went where its oid says.
AnswerInv ==
    answer.oid # m_ownServiceOid /\ Forwarded(answer.oid) =>
        /\ answer.adapter = m_endpoints[AdapterOf(answer.oid)]
        /\ answer.object = ObjectOf(answer.oid)

IInv == TypeOK /\ ListInv /\ EndpointInv /\ AnswerInv

\* Oids are names.
LEMMA OidsAreNames == Oids \subseteq Names
  BY ComposedElements, NamesAssumption DEF Oids

\* The endpoint of an id that the configuration has is an entry with this id.
LEMMA EndpointsTyped ==
    ASSUME config \in [Adapters -> AdapterIds]
    PROVE  /\ DOMAIN Endpoints \subseteq AdapterIds
           /\ Endpoints \in [DOMAIN Endpoints -> Adapters]
           /\ \A id \in DOMAIN Endpoints : config[Endpoints[id]] = id
<1>. DEFINE S(id) == {n \in Adapters : config[n] = id}
<1>1. DOMAIN Endpoints = {config[n] : n \in Adapters}
  BY DEF Endpoints
<1>2. ASSUME NEW id \in DOMAIN Endpoints
      PROVE  Endpoints[id] \in Adapters /\ config[Endpoints[id]] = id
  <2>1. S(id) \in SUBSET (0..NumAdapters) /\ S(id) # {}
    BY <1>1, NumberAssumption DEF Adapters
  <2>2. Max(S(id)) \in S(id)
    <3>. HIDE DEF S
    <3>. QED  BY <2>1, MaxOfSet, NumberAssumption
  <2>3. Endpoints[id] = Max(S(id))
    BY <1>1 DEF Endpoints
  <2>. QED  BY <2>2, <2>3
<1>3. Endpoints = [id \in DOMAIN Endpoints |-> Endpoints[id]]
  BY DEF Endpoints
<1>. QED  BY <1>1, <1>2, <1>3

\* No request has been made.
LEMMA NoAnswerTyped ==
    /\ NoAnswer \in [oid : Names, pid : OwnPids \cup {"other", "none"}, result : Results,
                     adapter : Adapters \cup {0}, object : Names]
    /\ ~hasMatch(NoAnswer.oid)
<1>1. NoName \in Names
  BY EmptySeq DEF NoName, Names
<1>2. Len(NoName) = 0
  BY DEF NoName
<1>3. ~hasMatch(NoName)
  BY <1>2 DEF hasMatch, Separators
<1>. QED  BY <1>1, <1>3 DEF NoAnswer, Results

LEMMA InitIInv == Init => IInv
<1>. SUFFICES ASSUME Init PROVE IInv
  OBVIOUS
<1>1. TypeOK
  BY NoAnswerTyped DEF Init, TypeOK, NoEndpoints
<1>2. AnswerInv
  BY NoAnswerTyped DEF Init, AnswerInv, Forwarded
<1>. QED  BY <1>1, <1>2 DEF Init, IInv, ListInv, EndpointInv

LEMMA InitializeStep == IInv /\ initialize => IInv'
<1>. SUFFICES ASSUME IInv, initialize PROVE IInv'
  OBVIOUS
<1>1. Endpoints' = Endpoints /\ config' = config
  BY DEF initialize, Endpoints
<1>2. m_endpoints' \in {NoEndpoints, Endpoints} /\ (asked' # {} => m_endpoints' = Endpoints)
  BY DEF initialize
<1>3. TypeOK'
  <2>1. config' \in [Adapters -> AdapterIds]
    BY <1>1 DEF IInv, TypeOK
  <2>2. DOMAIN m_endpoints' \subseteq AdapterIds /\ m_endpoints' \in [DOMAIN m_endpoints' -> Adapters]
    <3>1. CASE m_endpoints' = NoEndpoints
      BY <3>1 DEF NoEndpoints
    <3>2. CASE m_endpoints' = Endpoints
      BY <3>2, EndpointsTyped DEF IInv, TypeOK
    <3>. QED  BY <1>2, <3>1, <3>2
  <2>3. asked' \subseteq Adapters /\ m_ownServiceOid' \in {NoName, OwnOid}
    BY DEF initialize
  <2>. QED  BY <2>1, <2>2, <2>3, NoAnswerTyped DEF initialize, TypeOK
<1>4. ListInv' /\ EndpointInv'
  BY <1>1, <1>2 DEF initialize, ListInv, EndpointInv
<1>5. AnswerInv'
  BY NoAnswerTyped DEF initialize, AnswerInv, Forwarded
<1>. QED  BY <1>3, <1>4, <1>5 DEF IInv

LEMMA ListStep ==
    ASSUME IInv, NEW n \in Adapters, getAdapterTDFinished(n)
    PROVE  IInv'
<1>1. PICK claimed \in AdapterIds, objects \in Lists :
        td' = td \cup {[oid |-> Composed(claimed, o), adapter |-> n,
                        claimed |-> claimed, object |-> o] : o \in objects}
  BY DEF getAdapterTDFinished
<1>2. UNCHANGED <<up, config, m_endpoints, m_ownServiceOid, answer>> /\ asked' = asked \ {n}
      /\ n \in asked
  BY DEF getAdapterTDFinished
<1>3. \A o \in objects : o \in ObjectIds /\ Composed(claimed, o) \in Names
  BY ComposedElements, NamesAssumption DEF Lists
<1>4. td' \subseteq [oid : Names, adapter : Adapters, claimed : AdapterIds, object : ObjectIds]
  BY <1>1, <1>3 DEF IInv, TypeOK
<1>5. TypeOK'
  BY <1>2, <1>4 DEF IInv, TypeOK
<1>6. ListInv'
  BY <1>1 DEF IInv, ListInv
<1>7. EndpointInv'
  BY <1>2 DEF IInv, EndpointInv, Endpoints
<1>8. AnswerInv'
  BY <1>2 DEF IInv, AnswerInv, Forwarded
<1>. QED  BY <1>5, <1>6, <1>7, <1>8 DEF IInv

\* What is recorded of a request keeps the invariant if it is right.
LEMMA AnswerStep ==
    ASSUME IInv, UNCHANGED <<config, m_endpoints, m_ownServiceOid, asked, td>>,
           up' \in BOOLEAN,
           answer' \in [oid : Names, pid : OwnPids \cup {"other", "none"}, result : Results,
                        adapter : Adapters \cup {0}, object : Names],
           AnswerInv'
    PROVE  IInv'
<1>1. TypeOK'
  BY DEF IInv, TypeOK
<1>2. ListInv' /\ EndpointInv'
  BY DEF IInv, ListInv, EndpointInv, Endpoints
<1>. QED  BY <1>1, <1>2 DEF IInv

LEMMA AnsweredStep ==
    ASSUME IInv, UNCHANGED <<config, m_endpoints, m_ownServiceOid, asked, td>>,
           NEW oid \in Oids, NEW pid \in Pids(oid), NEW result \in Results,
           Answered(oid, pid, result),
           oid = m_ownServiceOid \/ ~Forwarded(oid)
    PROVE  IInv'
<1>1. answer' = [oid |-> oid, pid |-> pid, result |-> result, adapter |-> 0, object |-> NoName]
  BY DEF Answered, NoAnswer
<1>2. answer' \in [oid : Names, pid : OwnPids \cup {"other", "none"}, result : Results,
                   adapter : Adapters \cup {0}, object : Names]
  BY <1>1, OidsAreNames, EmptySeq DEF Pids, OwnPids, NoName, Names
<1>3. AnswerInv'
  BY <1>1 DEF AnswerInv, Forwarded
<1>4. up' \in BOOLEAN
  BY DEF Answered, IInv, TypeOK
<1>. QED  BY <1>2, <1>3, <1>4, AnswerStep

LEMMA TerminateStep ==
    ASSUME IInv, UNCHANGED <<config, m_endpoints, m_ownServiceOid, asked, td>>, Terminate
    PROVE  IInv'
<1>1. AnswerInv'
  BY NoAnswerTyped DEF Terminate, AnswerInv, Forwarded
<1>. QED  BY <1>1, AnswerStep, NoAnswerTyped DEF Terminate

LEMMA ForwardStep ==
    ASSUME IInv, UNCHANGED <<config, m_endpoints, m_ownServiceOid, asked, td>>,
           NEW oid \in Oids, NEW pid \in Pids(oid), Forward(oid, pid)
    PROVE  IInv'
<1>1. CASE ~hasMatch(oid) /\ Answered(oid, pid, "invalid oid")
  BY <1>1, AnsweredStep DEF Results, Forwarded
<1>2. CASE hasMatch(oid) /\ AdapterOf(oid) \notin DOMAIN m_endpoints /\ Answered(oid, pid, "empty")
  BY <1>2, AnsweredStep DEF Results, Forwarded
<1>3. CASE /\ Forwarded(oid) /\ UNCHANGED up
           /\ answer' = [oid |-> oid, pid |-> pid, result |-> "forwarded",
                         adapter |-> m_endpoints[AdapterOf(oid)], object |-> ObjectOf(oid)]
  <2>1. oid \in Names /\ ObjectOf(oid) \in Names /\ m_endpoints[AdapterOf(oid)] \in Adapters
    BY <1>3, OidsAreNames, GroupsAreNames DEF Forwarded, IInv, TypeOK
  <2>2. answer' \in [oid : Names, pid : OwnPids \cup {"other", "none"}, result : Results,
                     adapter : Adapters \cup {0}, object : Names]
    BY <1>3, <2>1 DEF Pids, OwnPids, Results
  <2>3. AnswerInv'
    BY <1>3 DEF AnswerInv, Forwarded
  <2>4. up' \in BOOLEAN
    BY <1>3 DEF IInv, TypeOK
  <2>. QED  BY <2>2, <2>3, <2>4, AnswerStep
<1>. QED  BY <1>1, <1>2, <1>3 DEF Forward

LEMMA ReadStep ==
    ASSUME IInv, NEW oid \in Oids, NEW pid \in Pids(oid), readProperty(oid, pid)
    PROVE  IInv'
<1>1. UNCHANGED <<config, m_endpoints, m_ownServiceOid, asked, td>>
  BY DEF readProperty
<1>2. \/ oid = m_ownServiceOid /\ \E result \in Results : Answered(oid, pid, result)
      \/ Terminate
      \/ Forward(oid, pid)
  BY DEF readProperty, Results
<1>. QED  BY <1>1, <1>2, AnsweredStep, TerminateStep, ForwardStep

LEMMA WriteStep ==
    ASSUME IInv, NEW oid \in Oids, NEW pid \in Pids(oid), writeProperty(oid, pid)
    PROVE  IInv'
<1>1. UNCHANGED <<config, m_endpoints, m_ownServiceOid, asked, td>>
  BY DEF writeProperty
<1>2. \/ oid = m_ownServiceOid /\ \E result \in Results : Answered(oid, pid, result)
      \/ Terminate
      \/ Forward(oid, pid)
  BY DEF writeProperty, Results
<1>. QED  BY <1>1, <1>2, AnsweredStep, TerminateStep, ForwardStep

\* The invariant of all properties below.
THEOREM Invariance == Spec => []IInv
<1>1. IInv /\ [Next]_vars => IInv'
  <2>. SUFFICES ASSUME IInv, [Next]_vars PROVE IInv'
    OBVIOUS
  <2>1. CASE UNCHANGED vars
    <3>1. UNCHANGED <<config, m_endpoints, m_ownServiceOid, asked, td, answer, up>>
      BY <2>1 DEF vars
    <3>2. AnswerInv'
      BY <3>1 DEF IInv, AnswerInv, Forwarded
    <3>. QED  BY <3>1, <3>2, AnswerStep DEF IInv, TypeOK
  <2>2. CASE Next
    BY <2>2, InitializeStep, ListStep, ReadStep, WriteStep DEF Next
  <2>. QED  BY <2>1, <2>2
<1>. QED  BY InitIInv, <1>1, PTL DEF Spec

\* The variables of the routing keep their types.
THEOREM TypeCorrect == Spec => []TypeOK
<1>1. IInv => TypeOK
  BY DEF IInv
<1>. QED  BY <1>1, Invariance, PTL

\* The oid of a regular object leads back to its names.
LEMMA RegularNames ==
    ASSUME IInv, NEW e \in td, Regular(e)
    PROVE  hasMatch(e.oid) /\ AdapterOf(e.oid) = e.claimed /\ ObjectOf(e.oid) = e.object
<1>1. e.claimed \in Names /\ e.object \in Names /\ e.oid = Composed(e.claimed, e.object)
  BY NamesAssumption DEF IInv, TypeOK, ListInv
<1>. QED  BY <1>1, RoundTrip DEF Regular, AsConfigured

\* However other adapters and objects are named, a request for a regular object
\* goes to this object of this adapter.
THEOREM RegularObjectsReached == Spec => []RoutedToItsObject
<1>1. IInv => RoutedToItsObject
  <2>. SUFFICES ASSUME IInv, NEW e \in td, Regular(e),
                       answer.oid = e.oid, e.oid # m_ownServiceOid
                PROVE  answer.adapter = e.adapter /\ answer.object = e.object
    BY DEF RoutedToItsObject
  <2>1. hasMatch(e.oid) /\ AdapterOf(e.oid) = e.claimed /\ ObjectOf(e.oid) = e.object
    BY RegularNames
  <2>2. e.adapter \in Adapters /\ config[e.adapter] = e.claimed
    BY DEF IInv, TypeOK, Regular, AsConfigured
  <2>3. m_endpoints = Endpoints
    BY DEF IInv, EndpointInv
  <2>4. e.claimed \in DOMAIN Endpoints
    BY <2>2 DEF Endpoints
  <2>5. Endpoints[e.claimed] = e.adapter
    <3>1. Endpoints[e.claimed] \in Adapters /\ config[Endpoints[e.claimed]] = e.claimed
      BY <2>4, EndpointsTyped DEF IInv, TypeOK
    <3>. QED  BY <3>1 DEF Regular, AsConfigured
  <2>. QED  BY <2>1, <2>3, <2>4, <2>5 DEF IInv, AnswerInv, Forwarded
<1>. QED  BY <1>1, Invariance, PTL

\* No two regular objects are listed under one oid.
THEOREM RegularObjectsApart == Spec => []RegularOidsDiffer
<1>1. IInv => RegularOidsDiffer
  <2>. SUFFICES ASSUME IInv, NEW e \in td, NEW f \in td, Regular(e), Regular(f), e.oid = f.oid
                PROVE  e = f
    BY DEF RegularOidsDiffer
  <2>1. e.claimed = f.claimed /\ e.object = f.object
    BY RegularNames
  <2>2. e.adapter = f.adapter
    BY <2>1 DEF IInv, TypeOK, Regular, AsConfigured
  <2>3. {e, f} \subseteq [oid : Names, adapter : Adapters, claimed : AdapterIds, object : ObjectIds]
    BY DEF IInv, TypeOK
  <2>. QED  BY <2>1, <2>2, <2>3
<1>. QED  BY <1>1, Invariance, PTL
=============================================================================
