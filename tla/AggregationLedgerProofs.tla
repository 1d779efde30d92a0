----------------------- MODULE AggregationLedgerProofs -----------------------
(***************************************************************************)
(* That all shares have been received can be relied on in every book,      *)
(* whatever was called in which order and whatever failed.                 *)
(*                                                                         *)
(* The argument goes row by row: who was inserted in this round has a row, *)
(* and a row that says "received" was written after the insertion.  Stale  *)
(* rows of a round that could not be cleared belong to nobody who was      *)
(* inserted; inserting replaces them.                                      *)
(*                                                                         *)
(* For the sums: in a book of which no statement has failed, each row has  *)
(* what its participant sent, as it is printed.  Sums are compared term by *)
(* term, by induction over the subsets of the participants.                *)
(***************************************************************************)
EXTENDS AggregationLedger, FiniteSetTheorems, WellFoundedInduction, TLAPS

\* What the row of somebody who was inserted says.
RowsInv ==
    \A b \in Books : \A p \in inserted[b] :
        /\ rows[b][p].received # "absent"
        /\ rows[b][p].received = "yes" => sent[b][p].done

IInv == TypeOK /\ RowsInv /\ AllReceivedMeansAllSent

-----------------------------------------------------------------------------
(* Sums.  A fold over a function is defined by recursion over the subsets  *)
(* of its domain; all of the folds here take the elements in one order.    *)

Any(s) == CHOOSE x \in s : TRUE

\* it[s] is the sum of f over s.
Adds(it, f, S) ==
    it = [s \in SUBSET S |-> IF s = {} THEN 0 ELSE f[Any(s)] + it[s \ {Any(s)}]]

\* What holds of the empty set and is not lost when Any element is added holds of
\* every finite set; G is the set of those of which it holds.
LEMMA SubsetInduction ==
    ASSUME NEW S, IsFiniteSet(S), NEW G, {} \in G,
           \A T \in SUBSET S : T # {} /\ T \ {Any(T)} \in G => T \in G
    PROVE  S \in G
  <1> SUFFICES ASSUME S \notin G PROVE FALSE
    OBVIOUS
  <1> DEFINE B == {T \in SUBSET S : T \notin G}
  <1>1. B \subseteq FiniteSubsetsOf(S) /\ B # {}
    BY FS_FiniteSubsetsOfFinite
  <1>2. PICK T \in B : \A U \in B : ~(<<U, T>> \in StrictSubsetOrdering(S))
    <2> HIDE DEF B
    <2>1. IsWellFoundedOn(StrictSubsetOrdering(S), FiniteSubsetsOf(S))
      BY FS_StrictSubsetOrderingWellFounded
    <2> QED BY <1>1, <2>1, WFMin
  <1>3. T # {} /\ T \in SUBSET S /\ T \notin G
    OBVIOUS
  <1>4. Any(T) \in T
    BY <1>3 DEF Any
  <1> DEFINE U == T \ {Any(T)}
  <1>5. U \in SUBSET S /\ U \subseteq T /\ U # T
    BY <1>3, <1>4
  <1>6. U \notin G
    BY <1>3
  <1>7. U \in B
    BY <1>5, <1>6
  <1>8. <<U, T>> \in StrictSubsetOrdering(S)
    BY <1>3, <1>5 DEF StrictSubsetOrdering
  <1> QED BY <1>2, <1>7, <1>8

\* Induction over numbers, G being the set of those for which it holds.
LEMMA NumberInduction ==
    ASSUME NEW G, 0 \in G, \A n \in Nat : n \in G => n + 1 \in G
    PROVE  Nat \subseteq G
  <1> SUFFICES ASSUME ~(Nat \subseteq G) PROVE FALSE
    OBVIOUS
  <1> DEFINE B == Nat \ G
  <1>1. PICK n \in B : \A m \in B : ~(<<m, n>> \in OpToRel(<, Nat))
    <2> HIDE DEF B
    <2>1. B \subseteq Nat /\ B # {}
      BY DEF B
    <2> QED BY <2>1, NatLessThanWellFounded, WFMin
  <1>2. n \in Nat /\ n # 0 /\ n \notin G
    OBVIOUS
  <1>3. n - 1 \in Nat /\ n - 1 < n /\ (n - 1) + 1 = n
    BY <1>2
  <1>4. n - 1 \notin G
    BY <1>2, <1>3
  <1>5. <<n - 1, n>> \in OpToRel(<, Nat)
    BY <1>2, <1>3 DEF OpToRel
  <1> QED BY <1>1, <1>3, <1>4, <1>5

\* There is a function that adds up, for the sums of every subset are given by
\* those of the smaller ones.
LEMMA AdderExists ==
    ASSUME NEW S, IsFiniteSet(S), NEW f, \A x \in S : f[x] \in Int
    PROVE  \E it : Adds(it, f, S)
  <1> DEFINE Small(n) == {s \in SUBSET S : Cardinality(s) <= n}
             Good(n, it) == /\ it \in [Small(n) -> Int]
                            /\ \A s \in Small(n) : it[s] = IF s = {} THEN 0 ELSE f[Any(s)] + it[s \ {Any(s)}]
             G == {n \in Nat : \E it : Good(n, it)}
  <1>1. \A s \in SUBSET S : IsFiniteSet(s) /\ Cardinality(s) \in Nat
    BY FS_Subset, FS_CardinalityType
  <1>2. \A s \in SUBSET S : s # {} =>
           /\ Any(s) \in s /\ Any(s) \in S /\ s \ {Any(s)} \in SUBSET S
           /\ Cardinality(s \ {Any(s)}) = Cardinality(s) - 1
    <2> TAKE s \in SUBSET S
    <2> HAVE s # {}
    <2>1. Any(s) \in s
      BY DEF Any
    <2> QED BY <1>1, <2>1, FS_RemoveElement
  <1>3. Small(0) = {{}}
    BY <1>1, FS_EmptySet
  <1>4. 0 \in G
    <2>1. Good(0, [s \in Small(0) |-> 0])
      BY <1>3
    <2> QED BY <2>1
  <1>5. ASSUME NEW n \in Nat, n \in G PROVE n + 1 \in G
    <2>1. PICK it : Good(n, it)
      BY <1>5
    <2> DEFINE next == [s \in Small(n + 1) |->
                   IF s = {} THEN 0 ELSE f[Any(s)] + it[s \ {Any(s)}]]
    <2>2. \A s \in Small(n + 1) : s # {} => s \ {Any(s)} \in Small(n)
      BY <1>1, <1>2
    <2>3. next \in [Small(n + 1) -> Int]
      BY <1>2, <2>1, <2>2
    <2>4. \A s \in Small(n) : s \in Small(n + 1) /\ next[s] = it[s]
      BY <1>1, <2>1
    <2>5. Good(n + 1, next)
      <3> HIDE DEF next
      <3>1. \A s \in Small(n + 1) : next[s] = IF s = {} THEN 0 ELSE f[Any(s)] + it[s \ {Any(s)}]
        BY DEF next
      <3> QED BY <2>2, <2>3, <2>4, <3>1
    <2> HIDE DEF Good, next
    <2> QED BY <2>5
  <1>6. Cardinality(S) \in G
    <2> HIDE DEF G
    <2>1. Nat \subseteq G
      BY <1>4, <1>5, NumberInduction
    <2> QED BY <1>1, <2>1
  <1>7. PICK it : Good(Cardinality(S), it)
    BY <1>6
  <1>8. Small(Cardinality(S)) = SUBSET S
    BY FS_Subset, FS_CardinalityType
  <1>9. Adds(it, f, S)
    <2>1. it \in [SUBSET S -> Int]
      BY <1>7, <1>8
    <2>2. \A s \in SUBSET S : it[s] = IF s = {} THEN 0 ELSE f[Any(s)] + it[s \ {Any(s)}]
      BY <1>7, <1>8
    <2> QED BY <2>1, <2>2 DEF Adds
  <1> QED BY <1>9

\* A fold that adds is such a function.
LEMMA FoldAdds ==
    ASSUME NEW S, IsFiniteSet(S), NEW f \in [S -> Int]
    PROVE  \E it : Adds(it, f, S) /\ Total(f) = it[S]
  <1> DEFINE it == CHOOSE it : Adds(it, f, S)
  <1>1. Adds(it, f, S)
    <2>1. \E g : Adds(g, f, S)
      BY AdderExists
    <2> QED
      BY <2>1
  <1>2. DOMAIN f = S
    OBVIOUS
  <1>3. Total(f) = it[S]
    BY <1>2 DEF Total, FoldFunction, FoldFunctionOnSet, MapThenFoldSet, Adds, Any
  <1> QED
    BY <1>1, <1>3

\* So is the sum of the values in a book.
LEMMA BookAdds ==
    ASSUME TypeOK, NEW b \in Books, IsFiniteSet(Participants)
    PROVE  \E it : /\ Adds(it, [p \in Participants |-> rows[b][p].value], Participants)
                   /\ SumOfBook(b) = it[Participants]
  <1> DEFINE f == [p \in Participants |-> rows[b][p].value]
             Sums(it) == it = [s \in SUBSET Participants |->
                             IF s = {} THEN 0 ELSE rows[b][Any(s)].value + it[s \ {Any(s)}]]
             it == CHOOSE it : Sums(it)
  <1>1. \E g : Adds(g, f, Participants)
    <2>1. \A p \in Participants : f[p] \in Int
      BY DEF TypeOK
    <2> QED
      BY <2>1, AdderExists
  <1>2. \A g : Adds(g, f, Participants) <=> Sums(g)
    <2>1. \A s \in SUBSET Participants : s # {} => f[Any(s)] = rows[b][Any(s)].value
      BY DEF Any
    <2>2. \A g : [s \in SUBSET Participants |-> IF s = {} THEN 0 ELSE f[Any(s)] + g[s \ {Any(s)}]]
                = [s \in SUBSET Participants |->
                     IF s = {} THEN 0 ELSE rows[b][Any(s)].value + g[s \ {Any(s)}]]
      BY <2>1
    <2> HIDE DEF f
    <2> QED
      BY <2>2 DEF Adds
  <1>3. Sums(it)
    BY <1>1, <1>2
  <1>4. DOMAIN rows[b] = Participants
    BY DEF TypeOK
  <1>5. SumOfBook(b) = it[Participants]
    BY <1>4 DEF SumOfBook, FoldFunction, FoldFunctionOnSet, MapThenFoldSet, Any
  <1> QED
    BY <1>2, <1>3, <1>5

\* Sums that are compared term by term.
LEMMA SumsCompare ==
    ASSUME NEW S, IsFiniteSet(S), NEW f, NEW g, NEW h,
           \A x \in S : /\ f[x] \in Int /\ g[x] \in Int /\ h[x] \in Nat
                        /\ 2 * (f[x] - g[x]) \in -h[x] .. h[x],
           NEW fs, Adds(fs, f, S), NEW gs, Adds(gs, g, S), NEW hs, Adds(hs, h, S)
    PROVE  2 * (fs[S] - gs[S]) \in -hs[S] .. hs[S]
  <1> DEFINE Close(T) == /\ fs[T] \in Int /\ gs[T] \in Int /\ hs[T] \in Int
                         /\ 2 * (fs[T] - gs[T]) \in -hs[T] .. hs[T]
             G == {T \in SUBSET S : Close(T)}
  <1>1. {} \in G
    <2>1. fs[{}] = 0 /\ gs[{}] = 0 /\ hs[{}] = 0
      BY DEF Adds
    <2>2. Close({})
      BY <2>1
    <2> QED
      BY <2>2
  <1>2. ASSUME NEW T \in SUBSET S, T # {}, T \ {Any(T)} \in G
        PROVE  T \in G
    <2> DEFINE x == Any(T)
               U == T \ {Any(T)}
    <2>1. x \in S
      BY <1>2 DEF Any
    <2>2. /\ fs[T] = f[x] + fs[U]
          /\ gs[T] = g[x] + gs[U]
          /\ hs[T] = h[x] + hs[U]
      BY <1>2 DEF Adds
    <2>3. Close(U)
      BY <1>2
    <2>4. /\ f[x] \in Int /\ g[x] \in Int /\ h[x] \in Int
          /\ 2 * (f[x] - g[x]) \in -h[x] .. h[x]
      BY <2>1
    <2> HIDE DEF x, U
    <2>5. Close(T)
      BY <2>2, <2>3, <2>4
    <2> QED
      BY <2>5
  <1>3. S \in G
    <2> HIDE DEF G
    <2> QED
      BY <1>1, <1>2, SubsetInduction
  <1> QED
    BY <1>3

\* Sums of integers are integers, and zeros add up to zero.
LEMMA SumInt ==
    ASSUME NEW S, IsFiniteSet(S), NEW f, \A x \in S : f[x] \in Int,
           NEW fs, Adds(fs, f, S)
    PROVE  fs[S] \in Int /\ ((\A x \in S : f[x] = 0) => fs[S] = 0)
  <1> DEFINE Good(T) == fs[T] \in Int /\ ((\A x \in S : f[x] = 0) => fs[T] = 0)
             G == {T \in SUBSET S : Good(T)}
  <1>1. {} \in G
    <2>1. fs[{}] = 0
      BY DEF Adds
    <2> QED
      BY <2>1
  <1>2. ASSUME NEW T \in SUBSET S, T # {}, T \ {Any(T)} \in G
        PROVE  T \in G
    <2>1. Any(T) \in S
      BY <1>2 DEF Any
    <2>2. fs[T] = f[Any(T)] + fs[T \ {Any(T)}]
      BY <1>2 DEF Adds
    <2>3. Good(T \ {Any(T)})
      BY <1>2
    <2>4. Good(T)
      BY <2>1, <2>2, <2>3
    <2> QED
      BY <2>4
  <1>3. S \in G
    <2> HIDE DEF G
    <2> QED
      BY <1>1, <1>2, SubsetInduction
  <1> QED
    BY <1>3

LEMMA SumOfBookInt ==
    ASSUME TypeOK, NEW b \in Books
    PROVE  SumOfBook(b) \in Int
  <1> DEFINE f == [p \in Participants |-> rows[b][p].value]
  <1>1. IsFiniteSet(Participants)
    BY LedgerAssumption
  <1>2. PICK it : Adds(it, f, Participants) /\ SumOfBook(b) = it[Participants]
    BY <1>1, BookAdds
  <1>3. \A p \in Participants : f[p] \in Int
    BY DEF TypeOK
  <1> HIDE DEF f
  <1> QED
    BY <1>1, <1>2, <1>3, SumInt

-----------------------------------------------------------------------------
LEMMA LimitNat == Limit \in Nat /\ Limit > 0
  BY SMT DEF Limit

LEMMA SizeNat ==
    ASSUME NEW v \in Values
    PROVE  v \in Int /\ Size(v) \in Nat
  BY LedgerAssumption DEF Size

\* A set of numbers that is not empty has a least one.
LEMMA LeastNumber ==
    ASSUME NEW S \in SUBSET Nat, S # {}
    PROVE  \E n \in S : \A m \in S : n <= m
  <1>1. PICK n \in S : \A m \in S : ~(<<m, n>> \in OpToRel(<, Nat))
    BY NatLessThanWellFounded, WFMin
  <1>2. ASSUME NEW m \in S, ~(n <= m)
        PROVE  FALSE
    <2>1. m \in Nat /\ n \in Nat /\ m < n
      BY <1>2
    <2>2. <<m, n>> \in OpToRel(<, Nat)
      BY <2>1 DEF OpToRel
    <2> QED
      BY <1>1, <2>2
  <1> QED
    BY <1>2

LEMMA UnitsPositive == 1 \in Units /\ \A u \in Units : u \in Nat /\ u >= 1
  BY LedgerAssumption

\* There is a unit: the least power of ten in which six digits are enough.
LEMMA UnitFits ==
    ASSUME NEW v \in Values
    PROVE  /\ Unit(v) \in Units /\ Unit(v) \in Nat /\ Unit(v) > 0
           /\ Size(v) < Limit * Unit(v)
           /\ Unit(v) > 1 => Size(v) >= Limit * (Unit(v) \div 10)
  <1> DEFINE Enough == {u \in Units : Size(v) < Limit * u}
             Fits(u) == Size(v) < Limit * u /\ (u > 1 => Size(v) >= Limit * (u \div 10))
  <1>1. Enough \in SUBSET Nat /\ Enough # {}
    BY LedgerAssumption
  <1>2. PICK u \in Enough : \A w \in Enough : u <= w
    <2> HIDE DEF Enough
    <2> QED
      BY <1>1, LeastNumber
  <1>3. u \in Units /\ u \in Nat /\ u > 0 /\ Size(v) < Limit * u
    BY LedgerAssumption
  <1>4. ASSUME u > 1
        PROVE  Size(v) >= Limit * (u \div 10)
    <2>1. u % 10 = 0 /\ u \div 10 \in Units
      BY <1>3, <1>4, LedgerAssumption
    <2>2. u \div 10 \in Nat /\ u \div 10 < u
      BY <1>3
    <2>3. u \div 10 \notin Enough
      BY <1>2, <1>3, <2>2
    <2>4. Limit * (u \div 10) \in Nat /\ Size(v) \in Nat
      BY <2>2, LimitNat, SizeNat
    <2> QED
      BY <2>1, <2>3, <2>4
  <1>5. Fits(u)
    BY <1>3, <1>4
  <1>6. Unit(v) \in Units /\ Fits(Unit(v))
    <2>1. \E w \in Units : Fits(w)
      BY <1>3, <1>5
    <2> QED
      BY <2>1, Zenon DEF Unit
  <1> DEFINE w == Unit(v)
  <1>7. w \in Units /\ w \in Nat /\ w > 0
    BY <1>6, UnitsPositive
  <1> QED
    BY <1>6, <1>7

\* The unit is 1 for numbers of six digits.
LEMMA UnitOfSix ==
    ASSUME NEW v \in Int, Size(v) < Limit
    PROVE  Unit(v) = 1
  <1> DEFINE Fits(u) == Size(v) < Limit * u /\ (u > 1 => Size(v) >= Limit * (u \div 10))
  <1>1. Size(v) \in Nat /\ Limit \in Nat /\ Limit > 0
    BY LimitNat DEF Size
  <1>2. 1 \in Units /\ Fits(1)
    BY <1>1, UnitsPositive
  <1>3. ASSUME NEW u \in Units, u # 1
        PROVE  ~Fits(u)
    <2>1. u \div 10 \in Units /\ u \in Nat /\ u > 1
      BY <1>3, LedgerAssumption
    <2>2. PICK n \in Nat : n = u \div 10 /\ n >= 1
      BY <2>1, UnitsPositive
    <2>3. Limit * n >= Limit
      BY <1>1, <2>2
    <2> QED
      BY <1>1, <2>1, <2>2, <2>3
  <1>4. Unit(v) \in Units /\ Fits(Unit(v))
    BY <1>2, Zenon DEF Unit
  <1> HIDE DEF Fits
  <1> QED
    BY <1>3, <1>4

\* What is stored is an integer.
LEMMA PrintedInt ==
    ASSUME NEW v \in Values
    PROVE  QStringNumber(v) \subseteq Int
  <1>1. \A u \in Nat : u > 0 => (v \div u) * u \in Int /\ (v \div u) * u + u \in Int
    BY SizeNat
  <1> QED
    BY <1>1, UnitFits DEF QStringNumber

LEMMA InitIInv == Init => IInv
  BY LedgerAssumption DEF Init, IInv, TypeOK, RowsInv, AllReceivedMeansAllSent,
     Absent, Missing, NoAnswer, Books, Own

\* A statement that writes nothing keeps the rows.
LEMMA FaultStep ==
    ASSUME IInv, NEW b \in Books, Fault, dirty' = dirty \cup {b},
           UNCHANGED <<rows, inserted, sent>>, answer' = NoAnswer
    PROVE  IInv'
  BY LedgerAssumption DEF IInv, TypeOK, RowsInv, AllReceivedMeansAllSent, Fault,
     NoAnswer, Books, Own

LEMMA InsertStep ==
    ASSUME IInv, NEW b \in Books, NEW p \in Participants, Insert(b, p), answer' = NoAnswer
    PROVE  IInv'
  <1>1. CASE Fault /\ dirty' = dirty \cup {b} /\ UNCHANGED <<rows, inserted, sent>>
    BY <1>1, FaultStep
  <1>2. CASE /\ rows' = [rows EXCEPT ![b][p] = [received |-> "no", value |-> 0]]
             /\ inserted' = [inserted EXCEPT ![b] = @ \cup {p}]
             /\ sent' = [sent EXCEPT ![b][p] = Missing]
             /\ UNCHANGED <<dirty, faults>>
    <2>1. TypeOK'
      BY <1>2 DEF IInv, TypeOK, NoAnswer, Missing, Books
    <2>2. RowsInv'
      BY <1>2 DEF IInv, TypeOK, RowsInv
    <2>3. AllReceivedMeansAllSent'
      BY DEF AllReceivedMeansAllSent, NoAnswer
    <2> QED
      BY <2>1, <2>2, <2>3 DEF IInv
  <1> QED
    BY <1>1, <1>2 DEF Insert

LEMMA UpdateStep ==
    ASSUME IInv, NEW b \in Books, NEW p \in Participants, NEW v \in Values,
           Update(b, p, v), answer' = NoAnswer
    PROVE  IInv'
  <1>1. CASE Fault /\ dirty' = dirty \cup {b} /\ UNCHANGED <<rows, inserted, sent>>
    BY <1>1, FaultStep
  <1>2. CASE UNCHANGED <<rows, roundVars, faults>>
    BY <1>2 DEF IInv, TypeOK, RowsInv, AllReceivedMeansAllSent, NoAnswer, roundVars, Books
  <1>3. CASE /\ \E w \in QStringNumber(v) :
                    rows' = [rows EXCEPT ![b][p] = [received |-> "yes", value |-> w]]
             /\ sent' = [sent EXCEPT ![b][p] =
                            IF p \in inserted[b] THEN [done |-> TRUE, value |-> v] ELSE @]
             /\ UNCHANGED <<inserted, dirty, faults>>
    <2>1. PICK w \in Int : rows' = [rows EXCEPT ![b][p] = [received |-> "yes", value |-> w]]
      BY <1>3, PrintedInt
    <2>3. TypeOK'
      BY <1>3, <2>1 DEF IInv, TypeOK, NoAnswer, Books
    <2>4. RowsInv'
      BY <1>3, <2>1 DEF IInv, TypeOK, RowsInv
    <2>5. AllReceivedMeansAllSent'
      BY DEF AllReceivedMeansAllSent, NoAnswer
    <2> QED
      BY <2>3, <2>4, <2>5 DEF IInv
  <1> QED
    BY <1>1, <1>2, <1>3 DEF Update

LEMMA ClearStep ==
    ASSUME IInv, NEW cleared \in SUBSET Books, NEW failed \in SUBSET Books,
           Clear(cleared, failed), faults' \in 0..MaxFaults, answer' = NoAnswer
    PROVE  IInv'
  <1>1. TypeOK'
    <2> USE DEF IInv, TypeOK, Clear
    <2>1. Absent \in [received : {"absent", "no", "yes"}, value : Int]
      BY DEF Absent
    <2>2. rows' \in [Books -> [Participants ->
                         [received : {"absent", "no", "yes"}, value : Int]]]
      BY <2>1
    <2>3. inserted' \in [Books -> SUBSET Participants]
      OBVIOUS
    <2>4. sent' \in [Books -> [Participants -> [done : BOOLEAN, value : Values \cup {0}]]]
      BY DEF Missing
    <2>5. dirty' \subseteq Books
      OBVIOUS
    <2>6. NoAnswer.query = "none" /\ NoAnswer.book \in Books /\ NoAnswer.result = 0
          /\ NoAnswer.ok = TRUE
      BY DEF NoAnswer, Books
    <2> QED
      BY <2>2, <2>3, <2>4, <2>5, <2>6
  <1>2. RowsInv'
    BY DEF IInv, TypeOK, Clear, RowsInv
  <1>3. AllReceivedMeansAllSent'
    BY DEF AllReceivedMeansAllSent, NoAnswer
  <1> QED
    BY <1>1, <1>2, <1>3 DEF IInv

LEMMA AllReceivedStep ==
    ASSUME IInv, NEW i \in Initiators, allRandomSharesReceived(i)
    PROVE  IInv'
  <1>1. UNCHANGED <<rows, inserted, sent, dirty>> /\ faults' \in 0..MaxFaults
    BY LedgerAssumption DEF allRandomSharesReceived, Answered, Fault, roundVars, IInv, TypeOK
  <1>2. /\ answer'.query = "all" /\ answer'.book = i
        /\ answer'.result \in {0, 1} /\ answer'.ok \in BOOLEAN
        /\ answer'.ok /\ answer'.result = 1 =>
               \A p \in Participants : rows[i][p].received # "no"
    <2>1. CASE Answered("all", i, 1, FALSE)
      BY <2>1 DEF Answered
    <2>2. CASE Answered("all", i, IF \E p \in Participants : rows[i][p].received = "no"
                                  THEN 0 ELSE 1, TRUE)
      <3>1. CASE \E p \in Participants : rows[i][p].received = "no"
        <4>1. answer' = [query |-> "all", book |-> i, result |-> 0, ok |-> TRUE]
          BY <2>2, <3>1, Zenon DEF Answered
        <4> QED
          BY <4>1
      <3>2. CASE ~\E p \in Participants : rows[i][p].received = "no"
        <4>1. answer' = [query |-> "all", book |-> i, result |-> 1, ok |-> TRUE]
          BY <2>2, <3>2, Zenon DEF Answered
        <4> QED
          BY <3>2, <4>1
      <3> QED
        BY <3>1, <3>2
    <2> QED
      BY <2>1, <2>2 DEF allRandomSharesReceived
  <1>3. TypeOK'
    BY <1>1, <1>2 DEF IInv, TypeOK, Books
  <1>4. RowsInv'
    BY <1>1 DEF IInv, RowsInv
  <1>5. ASSUME answer'.ok, answer'.result = 1
        PROVE  AllSent(i)
    <2> SUFFICES ASSUME NEW p \in inserted[i]
                 PROVE  sent[i][p].done
      BY DEF AllSent
    <2>1. i \in Books /\ p \in Participants
      BY DEF IInv, TypeOK, Books
    <2>2. rows[i][p].received \in {"absent", "no", "yes"}
      BY <2>1 DEF IInv, TypeOK
    <2> QED
      BY <1>2, <1>5, <2>1, <2>2 DEF IInv, RowsInv
  <1>6. AllReceivedMeansAllSent'
    BY <1>1, <1>2, <1>5 DEF AllReceivedMeansAllSent, AllSent
  <1> QED
    BY <1>3, <1>4, <1>6 DEF IInv

\* Other queries say nothing about who has sent what.
LEMMA QueryStep ==
    ASSUME IInv, NEW b \in Books, NEW query \in {"inserted", "all", "sum"}, NEW n,
           NEW ok \in BOOLEAN, Answered(query, b, n, ok), faults' \in 0..MaxFaults,
           n \in IF query = "sum" THEN Int ELSE {0, 1}, query = "all" => b = Own
    PROVE  IInv'
  BY DEF IInv, TypeOK, RowsInv, AllReceivedMeansAllSent, Answered, roundVars

LEMMA NextIInv ==
    ASSUME IInv, [Next]_vars
    PROVE  IInv'
  <1> USE LedgerAssumption
  <1>0. Own \in Books /\ \A i \in Initiators : i \in Books
    BY DEF Books
  <1>1. faults \in 0..MaxFaults /\ (Fault => faults' \in 0..MaxFaults)
    BY DEF IInv, TypeOK, Fault
  <1>2. ASSUME NEW i \in Initiators, NEW p \in Participants,
               \/ insertParticipantRandomShares(i, p)
               \/ \E v \in Values : updateShareRandomShares(i, p, v)
        PROVE  IInv'
    BY <1>0, <1>2, InsertStep, UpdateStep
       DEF insertParticipantRandomShares, updateShareRandomShares
  <1>3. ASSUME NEW p \in Participants,
               \/ insertParticipantBlindedMeasurements(p)
               \/ \E v \in Values : updateBlindedMeasurement(p, v)
        PROVE  IInv'
    BY <1>0, <1>3, InsertStep, UpdateStep
       DEF insertParticipantBlindedMeasurements, updateBlindedMeasurement
  <1>4. ASSUME NEW i \in Initiators, NEW p \in Participants,
               isAlreadyInsertedInRandomShares(i, p)
        PROVE  IInv'
    <2>1. PICK n \in {0, 1}, ok \in BOOLEAN :
              Answered("inserted", i, n, ok) /\ faults' \in 0..MaxFaults
      <3>1. CASE UNCHANGED faults /\ Answered("inserted", i,
                     IF rows[i][p] # Absent THEN 1 ELSE 0, TRUE)
        BY <1>1, <3>1
      <3>2. CASE Answered("inserted", i, 0, FALSE) /\ Fault
        BY <1>1, <3>2
      <3> QED
        BY <1>4, <3>1, <3>2 DEF isAlreadyInsertedInRandomShares
    <2>2. i \in Books
      BY <1>0
    <2> QED
      BY <2>1, <2>2, QueryStep
  <1>5. ASSUME NEW i \in Initiators, deleteInitiatorRandomShares(i)
        PROVE  IInv'
    <2>1. PICK failed \in SUBSET Books :
              Clear({i}, failed) /\ faults' \in 0..MaxFaults /\ answer' = NoAnswer
      BY <1>0, <1>1, <1>5 DEF deleteInitiatorRandomShares
    <2> QED
      BY <1>0, <2>1, ClearStep
  <1>6. ASSUME NEW i \in Initiators, allRandomSharesReceived(i)
        PROVE  IInv'
    BY <1>6, AllReceivedStep
  <1>7. ASSUME NEW b \in Books, SumQuery(b)
        PROVE  IInv'
    <2>1. CASE Answered("sum", b, SumOfBook(b), TRUE) /\ UNCHANGED faults
      BY <1>1, <2>1, QueryStep, SumOfBookInt DEF IInv
    <2>2. CASE Answered("sum", b, 0, FALSE) /\ Fault
      <3>1. faults' \in 0..MaxFaults /\ 0 \in Int
        BY <1>1, <2>2
      <3> HIDE LedgerAssumption
      <3> QED
        BY <2>2, <3>1, QueryStep
    <2> QED
      BY <1>7, <2>1, <2>2 DEF SumQuery
  <1>8. CASE allBlindedMeasurementsReceived
    BY <1>0, <1>1, <1>8, QueryStep DEF allBlindedMeasurementsReceived
  <1>9. CASE db_access
    <2>1. PICK failed \in SUBSET Books :
              Clear(Books, failed) /\ faults' \in 0..MaxFaults /\ answer' = NoAnswer
      BY <1>0, <1>1, <1>9 DEF db_access
    <2> QED
      BY <2>1, ClearStep
  <1>10. CASE UNCHANGED vars
    BY <1>10 DEF vars, roundVars, IInv, TypeOK, RowsInv, AllReceivedMeansAllSent, AllSent
  <1> QED
    BY <1>0, <1>2, <1>3, <1>4, <1>5, <1>6, <1>7, <1>8, <1>9, <1>10
       DEF Next, getRandomShareSum, getBlindedMeasurementSum

THEOREM Invariance == Spec => []IInv
  BY InitIInv, NextIInv, PTL DEF Spec

\* The tables keep their types, for any initiators, participants and values, and
\* any number of failures.
THEOREM TypeCorrect == Spec => []TypeOK
  <1>1. IInv => TypeOK
    BY DEF IInv
  <1> QED
    BY <1>1, Invariance, PTL

\* Whoever is told that all shares were received, by a query that did not fail,
\* has them all.
THEOREM AllReceivedIsTrue == Spec => []AllReceivedMeansAllSent
  <1>1. IInv => AllReceivedMeansAllSent
    BY DEF IInv
  <1> QED
    BY <1>1, Invariance, PTL

-----------------------------------------------------------------------------
(* Rounding, and the sums of rounds in which nothing failed *)

\* Numbers are written up to half of the unit, those of which the unit is 1 as they are.
LEMMA PrintedClose ==
    ASSUME NEW v \in Values, NEW w \in QStringNumber(v)
    PROVE  Rounding(v) \in Nat /\ 2 * (w - v) \in -Rounding(v) .. Rounding(v)
  <1>1. Unit(v) \in Nat /\ Unit(v) > 0
    BY UnitFits
  <1>2. v \in Int /\ w \in Int
    BY PrintedInt, SizeNat
  <1>3. 2 * (w - v) <= Unit(v) /\ 2 * (v - w) <= Unit(v)
    BY DEF QStringNumber
  <1> QED
    BY <1>1, <1>2, <1>3 DEF Rounding

\* As long as no statement on a book fails: whoever is not in the round has no row
\* and has sent nothing, and the others' rows have what they sent, as it is printed.
CleanRow(b, p) ==
    /\ p \notin inserted[b] => rows[b][p] = Absent /\ sent[b][p] = Missing
    /\ IF sent[b][p].done
         THEN sent[b][p].value \in Values /\ rows[b][p].value \in QStringNumber(sent[b][p].value)
         ELSE sent[b][p].value = 0 /\ rows[b][p].value = 0

CleanRows == \A b \in Books \ dirty : \A p \in Participants : CleanRow(b, p)

\* Rows that are not written to stay clean.
LEMMA SameRowClean ==
    ASSUME NEW b, NEW p, CleanRow(b, p), rows'[b][p] = rows[b][p],
           sent'[b][p] = sent[b][p], p \in inserted'[b] <=> p \in inserted[b]
    PROVE  CleanRow(b, p)'
  BY DEF CleanRow

LEMMA CleanRowsKept ==
    ASSUME CleanRows, UNCHANGED <<rows, inserted, sent>>, dirty \subseteq dirty'
    PROVE  CleanRows'
  BY SameRowClean DEF CleanRows

LEMMA InsertKeepsClean ==
    ASSUME TypeOK, CleanRows, NEW b \in Books, NEW p \in Participants, Insert(b, p)
    PROVE  CleanRows'
  <1>1. CASE dirty' = dirty \cup {b} /\ UNCHANGED <<rows, inserted, sent>>
    BY <1>1, CleanRowsKept
  <1>2. CASE /\ rows' = [rows EXCEPT ![b][p] = [received |-> "no", value |-> 0]]
             /\ inserted' = [inserted EXCEPT ![b] = @ \cup {p}]
             /\ sent' = [sent EXCEPT ![b][p] = Missing]
             /\ UNCHANGED <<dirty, faults>>
    <2> SUFFICES ASSUME NEW c \in Books \ dirty, NEW q \in Participants
                 PROVE  CleanRow(c, q)'
      BY <1>2 DEF CleanRows
    <2>1. CASE c = b /\ q = p
      <3>1. /\ rows'[c][q] = [received |-> "no", value |-> 0]
            /\ sent'[c][q] = Missing /\ q \in inserted'[c]
        BY <1>2, <2>1 DEF TypeOK
      <3> QED
        BY <3>1 DEF CleanRow, Missing
    <2>2. CASE ~(c = b /\ q = p)
      <3>1. rows'[c][q] = rows[c][q] /\ sent'[c][q] = sent[c][q]
            /\ (q \in inserted'[c] <=> q \in inserted[c])
        BY <1>2, <2>2 DEF TypeOK
      <3> QED
        BY <3>1, SameRowClean DEF CleanRows
    <2> QED
      BY <2>1, <2>2
  <1> QED
    BY <1>1, <1>2 DEF Insert

LEMMA UpdateKeepsClean ==
    ASSUME TypeOK, CleanRows, NEW b \in Books, NEW p \in Participants, NEW v \in Values,
           Update(b, p, v)
    PROVE  CleanRows'
  <1>1. CASE dirty \subseteq dirty' /\ UNCHANGED <<rows, inserted, sent>>
    BY <1>1, CleanRowsKept
  <1>2. CASE /\ rows[b][p] # Absent
             /\ \E w \in QStringNumber(v) :
                    rows' = [rows EXCEPT ![b][p] = [received |-> "yes", value |-> w]]
             /\ sent' = [sent EXCEPT ![b][p] =
                            IF p \in inserted[b] THEN [done |-> TRUE, value |-> v] ELSE @]
             /\ UNCHANGED <<inserted, dirty, faults>>
    <2>1. PICK w \in QStringNumber(v) :
              rows' = [rows EXCEPT ![b][p] = [received |-> "yes", value |-> w]]
      BY <1>2
    <2> SUFFICES ASSUME NEW c \in Books \ dirty, NEW q \in Participants
                 PROVE  CleanRow(c, q)'
      BY <1>2 DEF CleanRows
    <2>2. CASE c = b /\ q = p
      <3>1. p \in inserted[b]
        BY <1>2, <2>2 DEF CleanRows, CleanRow
      <3>2. /\ rows'[c][q] = [received |-> "yes", value |-> w]
            /\ sent'[c][q] = [done |-> TRUE, value |-> v] /\ q \in inserted'[c]
        BY <1>2, <2>1, <2>2, <3>1 DEF TypeOK
      <3> QED
        BY <3>2 DEF CleanRow
    <2>3. CASE ~(c = b /\ q = p)
      <3>1. rows'[c][q] = rows[c][q] /\ sent'[c][q] = sent[c][q] /\ inserted'[c] = inserted[c]
        BY <1>2, <2>1, <2>3 DEF TypeOK
      <3> QED
        BY <3>1, SameRowClean DEF CleanRows
    <2> QED
      BY <2>2, <2>3
  <1> QED
    BY <1>1, <1>2 DEF Update, roundVars

LEMMA ClearKeepsClean ==
    ASSUME TypeOK, CleanRows, NEW cleared \in SUBSET Books, NEW failed \in SUBSET cleared,
           Clear(cleared, failed)
    PROVE  CleanRows'
  <1> SUFFICES ASSUME NEW c \in Books \ dirty', NEW q \in Participants
               PROVE  CleanRow(c, q)'
    BY DEF CleanRows
  <1>1. CASE c \in cleared
    <2>1. rows'[c][q] = Absent /\ sent'[c][q] = Missing /\ inserted'[c] = {}
      BY <1>1 DEF Clear
    <2> QED
      BY <2>1 DEF CleanRow, Absent, Missing
  <1>2. CASE c \notin cleared
    <2>1. rows'[c][q] = rows[c][q] /\ sent'[c][q] = sent[c][q] /\ inserted'[c] = inserted[c]
          /\ c \notin dirty
      BY <1>2 DEF Clear
    <2> QED
      BY <2>1, SameRowClean DEF CleanRows
  <1> QED
    BY <1>1, <1>2

LEMMA NextKeepsClean ==
    ASSUME TypeOK, CleanRows, [Next]_vars
    PROVE  CleanRows'
  <1>0. Own \in Books /\ \A i \in Initiators : i \in Books
    BY DEF Books
  <1>1. ASSUME NEW i \in Initiators, NEW p \in Participants,
               \/ insertParticipantRandomShares(i, p)
               \/ \E v \in Values : updateShareRandomShares(i, p, v)
        PROVE  CleanRows'
    BY <1>0, <1>1, InsertKeepsClean, UpdateKeepsClean
       DEF insertParticipantRandomShares, updateShareRandomShares
  <1>2. ASSUME NEW p \in Participants,
               \/ insertParticipantBlindedMeasurements(p)
               \/ \E v \in Values : updateBlindedMeasurement(p, v)
        PROVE  CleanRows'
    BY <1>0, <1>2, InsertKeepsClean, UpdateKeepsClean
       DEF insertParticipantBlindedMeasurements, updateBlindedMeasurement
  <1>3. ASSUME NEW i \in Initiators, deleteInitiatorRandomShares(i)
        PROVE  CleanRows'
    <2>1. PICK failed \in SUBSET {i} : Clear({i}, failed)
      BY <1>3 DEF deleteInitiatorRandomShares
    <2> QED
      BY <1>0, <2>1, ClearKeepsClean
  <1>4. CASE db_access
    <2>1. PICK failed \in SUBSET Books : Clear(Books, failed)
      BY <1>0, <1>4 DEF db_access
    <2> QED
      BY <2>1, ClearKeepsClean
  <1>5. ASSUME NEW query, NEW b, NEW n, NEW ok, Answered(query, b, n, ok)
        PROVE  CleanRows'
    BY <1>5, CleanRowsKept DEF Answered, roundVars
  <1>6. ASSUME NEW i \in Initiators, NEW p \in Participants,
               isAlreadyInsertedInRandomShares(i, p)
        PROVE  CleanRows'
    BY <1>5, <1>6 DEF isAlreadyInsertedInRandomShares
  <1>7. ASSUME NEW i \in Initiators, allRandomSharesReceived(i)
        PROVE  CleanRows'
    BY <1>5, <1>7 DEF allRandomSharesReceived
  <1>8. CASE allBlindedMeasurementsReceived
    BY <1>5, <1>8 DEF allBlindedMeasurementsReceived
  <1>9. ASSUME NEW b \in Books, SumQuery(b)
        PROVE  CleanRows'
    BY <1>5, <1>9 DEF SumQuery
  <1>10. CASE UNCHANGED vars
    BY <1>10, CleanRowsKept DEF vars, roundVars
  <1> QED
    BY <1>0, <1>1, <1>2, <1>3, <1>4, <1>6, <1>7, <1>8, <1>9, <1>10
       DEF Next, getRandomShareSum, getBlindedMeasurementSum

\* The sum of a clean book.
LEMMA CleanSum ==
    ASSUME TypeOK, NEW b \in Books, \A p \in Participants : CleanRow(b, p)
    PROVE  2 * (SumOfBook(b) - SentInRound(b)) \in -Slack(b) .. Slack(b)
  <1> DEFINE f == [p \in Participants |-> rows[b][p].value]
             g == [p \in Participants |-> sent[b][p].value]
             h == [p \in Participants |->
                     IF sent[b][p].done THEN Rounding(sent[b][p].value) ELSE 0]
  <1>1. IsFiniteSet(Participants)
    BY LedgerAssumption
  <1>2. \A p \in Participants : /\ f[p] \in Int /\ g[p] \in Int /\ h[p] \in Nat
                                /\ 2 * (f[p] - g[p]) \in -h[p] .. h[p]
    <2> TAKE p \in Participants
    <2>1. CASE ~sent[b][p].done
      <3>1. sent[b][p].value = 0 /\ rows[b][p].value = 0
        BY <2>1 DEF CleanRow
      <3>2. f[p] = 0 /\ g[p] = 0 /\ h[p] = 0
        BY <2>1, <3>1
      <3> HIDE DEF f, g, h
      <3> QED
        BY <3>2
    <2>2. CASE sent[b][p].done
      <3> DEFINE v == sent[b][p].value
                 w == rows[b][p].value
      <3>1. v \in Values /\ w \in QStringNumber(v)
        BY <2>2 DEF CleanRow
      <3>2. v \in Int /\ w \in Int
        BY <3>1, SizeNat, PrintedInt
      <3>3. f[p] = w /\ g[p] = v /\ h[p] = Rounding(v)
        BY <2>2
      <3>4. Rounding(v) \in Nat /\ 2 * (w - v) \in -Rounding(v) .. Rounding(v)
        BY <3>1, PrintedClose
      <3> HIDE DEF f, g, h, v, w
      <3> QED
        BY <3>2, <3>3, <3>4
    <2> QED
      BY <2>1, <2>2
  <1>3. PICK gs : Adds(gs, g, Participants) /\ SentInRound(b) = gs[Participants]
    <2>1. g \in [Participants -> Int]
      BY <1>2
    <2> QED
      BY <1>1, <2>1, FoldAdds DEF SentInRound
  <1>4. PICK hs : Adds(hs, h, Participants) /\ Slack(b) = hs[Participants]
    <2>1. h \in [Participants -> Int]
      BY <1>2
    <2> QED
      BY <1>1, <2>1, FoldAdds DEF Slack
  <1>5. PICK fs : Adds(fs, f, Participants) /\ SumOfBook(b) = fs[Participants]
    BY <1>1, <1>2, BookAdds
  <1> HIDE DEF f, g, h
  <1> QED
    BY <1>1, <1>2, <1>3, <1>4, <1>5, SumsCompare

LEMMA NextSum ==
    ASSUME TypeOK, CleanRows, SumUpToRounding, [Next]_vars
    PROVE  SumUpToRounding'
  <1>1. ASSUME NEW b \in Books, SumQuery(b)
        PROVE  SumUpToRounding'
    <2>1. CASE Answered("sum", b, SumOfBook(b), TRUE)
      <3>1. /\ answer'.book = b /\ answer'.result = SumOfBook(b)
            /\ UNCHANGED <<dirty, sent>>
        BY <2>1 DEF Answered, roundVars
      <3>2. b \notin dirty => 2 * (SumOfBook(b) - SentInRound(b)) \in -Slack(b) .. Slack(b)
        BY CleanSum DEF CleanRows
      <3>3. SentInRound(b)' = SentInRound(b) /\ Slack(b)' = Slack(b)
        BY <3>1 DEF SentInRound, Slack
      <3> QED
        BY <3>1, <3>2, <3>3 DEF SumUpToRounding
    <2>2. CASE Answered("sum", b, 0, FALSE)
      BY <2>2 DEF Answered, SumUpToRounding
    <2> QED
      BY <1>1, <2>1, <2>2 DEF SumQuery
  <1>2. ASSUME answer'.query # "sum"
        PROVE  SumUpToRounding'
    BY <1>2 DEF SumUpToRounding
  <1>3. CASE UNCHANGED vars
    <2>1. \A b : SentInRound(b)' = SentInRound(b) /\ Slack(b)' = Slack(b)
      BY <1>3 DEF vars, roundVars, SentInRound, Slack
    <2> QED
      BY <1>3, <2>1 DEF vars, roundVars, SumUpToRounding
  <1>4. ASSUME NEW query \in {"inserted", "all"}, NEW b, NEW n, NEW ok,
               Answered(query, b, n, ok)
        PROVE  answer'.query # "sum"
    BY <1>4 DEF Answered
  <1>5. CASE answer' = NoAnswer
    BY <1>2, <1>5 DEF NoAnswer
  <1>6. ASSUME NEW i \in Initiators,
               \/ \E p \in Participants : isAlreadyInsertedInRandomShares(i, p)
               \/ allRandomSharesReceived(i)
        PROVE  SumUpToRounding'
    BY <1>2, <1>4, <1>6 DEF isAlreadyInsertedInRandomShares, allRandomSharesReceived
  <1>7. CASE allBlindedMeasurementsReceived
    BY <1>2, <1>4, <1>7 DEF allBlindedMeasurementsReceived
  <1> QED
    BY <1>1, <1>3, <1>5, <1>6, <1>7
       DEF Next, getRandomShareSum, getBlindedMeasurementSum, Books,
           insertParticipantRandomShares, updateShareRandomShares,
           insertParticipantBlindedMeasurements, updateBlindedMeasurement,
           deleteInitiatorRandomShares, db_access

\* In a round in which nothing failed, the sum is that of the values that were sent,
\* up to half of the last digit that is written of each: of any number of
\* participants, and of values of either sign and of any size.
THEOREM SumsAreRight == Spec => []SumUpToRounding
  <1>1. Init => CleanRows /\ SumUpToRounding
    BY DEF Init, CleanRows, CleanRow, SumUpToRounding, Absent, Missing, NoAnswer
  <1>2. IInv => TypeOK
    BY DEF IInv
  <1> QED
    BY <1>1, <1>2, Invariance, NextKeepsClean, NextSum, PTL DEF Spec

\* Where there is nothing to round, nothing is off.
LEMMA NoSlack ==
    ASSUME \A v \in Values : Size(v) < Limit, TypeOK, NEW b \in Books
    PROVE  Slack(b) = 0 /\ SentInRound(b) \in Int
  <1> DEFINE g == [p \in Participants |-> sent[b][p].value]
             h == [p \in Participants |->
                     IF sent[b][p].done THEN Rounding(sent[b][p].value) ELSE 0]
  <1>1. IsFiniteSet(Participants)
    BY LedgerAssumption
  <1>2. \A p \in Participants : g[p] \in Int /\ h[p] = 0
    <2> TAKE p \in Participants
    <2>1. sent[b][p] \in [done : BOOLEAN, value : Values \cup {0}]
      BY DEF TypeOK
    <2> DEFINE v == sent[b][p].value
    <2>2. v \in Int /\ Size(v) < Limit
      <3>1. 0 \in Int /\ Size(0) < Limit
        BY LimitNat DEF Size
      <3>2. v \in Values \cup {0}
        BY <2>1
      <3> HIDE DEF v
      <3> QED
        BY <3>1, <3>2, LedgerAssumption
    <2>3. Rounding(v) = 0
      BY <2>2, UnitOfSix DEF Rounding
    <2> QED
      BY <2>2, <2>3
  <1>3. PICK gs : Adds(gs, g, Participants) /\ SentInRound(b) = gs[Participants]
    <2>1. g \in [Participants -> Int]
      BY <1>2
    <2> QED
      BY <1>1, <2>1, FoldAdds DEF SentInRound
  <1>4. PICK hs : Adds(hs, h, Participants) /\ Slack(b) = hs[Participants]
    <2>1. h \in [Participants -> Int]
      BY <1>2
    <2> QED
      BY <1>1, <2>1, FoldAdds DEF Slack
  <1> HIDE DEF g, h
  <1> QED
    BY <1>1, <1>2, <1>3, <1>4, SumInt

\* Numbers of six digits are written as they are: if all values are such numbers,
\* the sum of a round in which nothing failed is exact.
THEOREM SixDigitsAddUp ==
    ASSUME \A v \in Values : Size(v) < Limit
    PROVE  Spec => [](answer.query = "sum" /\ answer.ok /\ answer.book \notin dirty
                          => answer.result = SentInRound(answer.book))
  <1>1. TypeOK /\ SumUpToRounding =>
            (answer.query = "sum" /\ answer.ok /\ answer.book \notin dirty
                 => answer.result = SentInRound(answer.book))
    <2> SUFFICES ASSUME TypeOK, SumUpToRounding,
                        answer.query = "sum", answer.ok, answer.book \notin dirty
                 PROVE  answer.result = SentInRound(answer.book)
      OBVIOUS
    <2>1. answer.book \in Books /\ answer.result \in Int
      BY DEF TypeOK
    <2>2. Slack(answer.book) = 0 /\ SentInRound(answer.book) \in Int
      BY <2>1, NoSlack
    <2>3. 2 * (answer.result - SentInRound(answer.book))
              \in -Slack(answer.book) .. Slack(answer.book)
      BY DEF SumUpToRounding
    <2> QED
      BY <2>1, <2>2, <2>3
  <1> QED
    BY <1>1, TypeCorrect, SumsAreRight, PTL
=============================================================================
