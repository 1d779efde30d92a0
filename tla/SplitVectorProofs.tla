------------------------- MODULE SplitVectorProofs -------------------------
(***************************************************************************)
(* What SplitVector guarantees, for every number of slots and every        *)
(* dimension: the loops of split_to_long build the long vector, and only   *)
(* if there is no room for it in a ciphertext they read too far.           *)
(***************************************************************************)
EXTENDS SplitVector, SequenceTheorems, TLAPS

\* One row and another one after it do not overlap.
LEMMA RowsApart ==
    ASSUME NEW n \in Nat, NEW a \in Nat, NEW b \in Nat, a < b
    PROVE  a * n + n <= b * n
<1>1. PICK d \in Nat : b = a + 1 + d
  <2>1. b - a - 1 \in Nat /\ b = a + 1 + (b - a - 1)
    OBVIOUS
  <2>. QED  BY <2>1
<1>2. d * n \in Nat
  OBVIOUS
<1>3. b * n = a * n + n + d * n
  BY <1>1
<1>. QED  BY <1>2, <1>3

\* The column as far as it has been read.
ColumnInv ==
    pc = "column" =>
        /\ Len(vec) = i
        /\ \A k \in 0..(i - 1) : k * Rows < slots => vec[k + 1] = k * Rows

\* The long vector as far as it has been built.
LongInv ==
    pc = "long" =>
        /\ Len(vec) = Rows
        /\ \A k \in 0..(Rows - 1) : k * Rows < slots => vec[k + 1] = k * Rows
        /\ i = Rows => j = 0
        /\ Len(result) = i * Rows + j
        /\ \A row \in 0..(i - 1), col \in 0..(Rows - 1) :
             result[row * Rows + col + 1] = vec[col + 1]
        /\ \A col \in 0..(j - 1) : result[i * Rows + col + 1] = vec[col + 1]

LoadInv == pc \in {"load", "column"} => result = <<>> /\ j = 0

Started == pc = "load" => vec = <<>> /\ i = 0

IInv == TypeOK /\ LoadInv /\ Started /\ ColumnInv /\ LongInv /\ AnswerExact /\ OnlyOversizedCrash

LEMMA RowsType ==
    ASSUME TypeOK
    PROVE  /\ Rows \in Nat /\ dimension \in Int /\ slots \in Nat
           /\ i \in Nat /\ j \in Nat
           /\ Len(vec) \in Nat /\ Len(result) \in Nat
           /\ \A k \in Int : k < dimension /\ k >= 0 => Rows = dimension
           /\ i < dimension <=> i < Rows
           /\ j < dimension /\ dimension > 0 <=> j < Rows
  BY NumbersAssumption, LenProperties DEF TypeOK, Rows

LEMMA InitIInv == Init => IInv
<1>. SUFFICES ASSUME Init PROVE IInv
  OBVIOUS
<1>1. vec \in Seq(Int) /\ result \in Seq(Int)
  BY EmptySeq DEF Init
<1>2. TypeOK
  BY <1>1, NumbersAssumption DEF Init, TypeOK, Rows
<1>. QED
  BY <1>2 DEF Init, IInv, LoadInv, Started, ColumnInv, LongInv, AnswerExact, OnlyOversizedCrash

LEMMA LoadStep == IInv /\ recrypt_for_svm => IInv'
<1>. SUFFICES ASSUME IInv, recrypt_for_svm PROVE IInv'
  OBVIOUS
<1>1. Rows' = Rows
  BY DEF recrypt_for_svm, Rows
<1>2. TypeOK'
  BY <1>1 DEF recrypt_for_svm, IInv, TypeOK
<1>3. i = 0 /\ vec = <<>> /\ Len(vec) = 0
  BY DEF recrypt_for_svm, IInv, Started
<1>4. ColumnInv'
  BY <1>3 DEF recrypt_for_svm, ColumnInv
<1>. QED
  BY <1>2, <1>4
  DEF recrypt_for_svm, IInv, LoadInv, Started, LongInv, AnswerExact, OnlyOversizedCrash

LEMMA PushColumnStep == IInv /\ PushColumn => IInv'
<1>. SUFFICES ASSUME IInv, PushColumn PROVE IInv'
  OBVIOUS
<1>1. Rows' = Rows /\ slots' = slots /\ dimension' = dimension /\ j' = j /\ result' = result
  BY DEF PushColumn, Rows
<1>2. /\ Rows \in Nat /\ slots \in Nat /\ i \in Nat /\ Rows = dimension /\ i < Rows
      /\ pc = "column"
  BY RowsType DEF PushColumn, IInv
<1>3. vec \in Seq(Int) /\ Len(vec) = i
  BY <1>2 DEF IInv, TypeOK, ColumnInv
<1>4. CASE i * dimension >= slots /\ pc' = "crashed" /\ UNCHANGED <<vec, i>>
  <2>1. TypeOK'
    BY <1>1, <1>4 DEF IInv, TypeOK
  <2>2. i * Rows + Rows <= Rows * Rows
    BY <1>2, RowsApart
  <2>3. dimension * dimension > slots
    BY <1>2, <1>4, <2>2
  <2>. QED
    BY <1>1, <1>4, <2>1, <2>3
    DEF IInv, LoadInv, Started, ColumnInv, LongInv, AnswerExact, OnlyOversizedCrash
<1>5. CASE /\ vec' = Append(vec, IF i * dimension < slots THEN i * dimension ELSE Garbage)
           /\ i' = i + 1 /\ UNCHANGED pc
  <2>. DEFINE e == IF i * dimension < slots THEN i * dimension ELSE Garbage
  <2>1. e \in Int
    BY <1>2 DEF Garbage
  <2>2. vec' = Append(vec, e)
    BY <1>5
  <2>3. i * Rows < slots => e = i * Rows
    BY <1>2
  <2>. HIDE DEF e
  <2>4. /\ vec' \in Seq(Int) /\ Len(vec') = i + 1
        /\ \A k \in 1..i : vec'[k] = vec[k]
        /\ vec'[i + 1] = e
    BY <1>3, <2>1, <2>2, AppendProperties
  <2>5. i' \in 0..Rows
    BY <1>2, <1>5
  <2>6. TypeOK'
    BY <1>1, <1>5, <2>4, <2>5 DEF IInv, TypeOK
  <2>7. ASSUME NEW k \in 0..i, k * Rows < slots PROVE vec'[k + 1] = k * Rows
    <3>1. CASE k = i
      BY <2>3, <2>4, <2>7, <3>1
    <3>2. CASE k # i
      <4>1. k \in 0..(i - 1) /\ k + 1 \in 1..i
        BY <1>2, <3>2
      <4>. QED  BY <1>2, <2>4, <2>7, <4>1 DEF IInv, ColumnInv
    <3>. QED  BY <3>1, <3>2
  <2>8. ColumnInv'
    <3>1. i' - 1 = i
      BY <1>2, <1>5
    <3>. QED  BY <1>1, <1>5, <2>4, <2>7, <3>1 DEF ColumnInv
  <2>. QED
    BY <1>1, <1>2, <1>5, <2>6, <2>8
    DEF IInv, LoadInv, Started, LongInv, AnswerExact, OnlyOversizedCrash
<1>. QED  BY <1>4, <1>5 DEF PushColumn

LEMMA BeginLongStep == IInv /\ BeginLong => IInv'
<1>. SUFFICES ASSUME IInv, BeginLong PROVE IInv'
  OBVIOUS
<1>1. /\ Rows' = Rows /\ slots' = slots /\ dimension' = dimension
      /\ j' = j /\ vec' = vec /\ result' = result
      /\ pc = "column" /\ pc' = "long" /\ i' = 0
  BY DEF BeginLong, Rows
<1>2. Rows \in Nat /\ i = Rows
  BY RowsType DEF BeginLong, IInv, TypeOK
<1>3. TypeOK'
  BY <1>1, <1>2 DEF IInv, TypeOK
<1>4. j = 0 /\ Len(result) = 0
  BY <1>1 DEF IInv, LoadInv
<1>5. LongInv'
  <2>1. Len(result) = 0 * Rows + 0
    BY <1>2, <1>4
  <2>. QED  BY <1>1, <1>2, <1>4, <2>1 DEF IInv, ColumnInv, LongInv
<1>. QED
  BY <1>1, <1>3, <1>5
  DEF IInv, LoadInv, Started, ColumnInv, AnswerExact, OnlyOversizedCrash

LEMMA PushLongStep == IInv /\ PushLong => IInv'
<1>. SUFFICES ASSUME IInv, PushLong PROVE IInv'
  OBVIOUS
<1>1. /\ Rows' = Rows /\ slots' = slots /\ dimension' = dimension
      /\ i' = i /\ vec' = vec /\ pc' = pc /\ pc = "long" /\ j' = j + 1
      /\ result' = Append(result, vec[j + 1])
  BY DEF PushLong, Rows
<1>2. Rows \in Nat /\ i \in Nat /\ j \in Nat /\ i < Rows /\ j < Rows
  BY RowsType DEF PushLong, IInv
<1>3. /\ vec \in Seq(Int) /\ Len(vec) = Rows /\ vec[j + 1] \in Int
      /\ result \in Seq(Int) /\ Len(result) = i * Rows + j
  <2>1. vec \in Seq(Int) /\ Len(vec) = Rows /\ result \in Seq(Int) /\ Len(result) = i * Rows + j
    BY <1>1 DEF IInv, TypeOK, LongInv
  <2>2. j + 1 \in 1..Len(vec)
    BY <1>2, <2>1
  <2>. QED  BY <2>1, <2>2, LenProperties
<1>4. i * Rows \in Nat
  BY <1>2
<1>5. /\ result' \in Seq(Int) /\ Len(result') = i * Rows + j + 1
      /\ \A k \in 1..(i * Rows + j) : result'[k] = result[k]
      /\ result'[i * Rows + j + 1] = vec[j + 1]
  BY <1>1, <1>3, <1>4, AppendProperties
<1>6. TypeOK'
  <2>1. j' \in 0..Rows
    BY <1>1, <1>2
  <2>. QED  BY <1>1, <1>5, <2>1 DEF IInv, TypeOK
<1>7. ASSUME NEW row \in 0..(i - 1), NEW col \in 0..(Rows - 1)
      PROVE  result'[row * Rows + col + 1] = vec[col + 1]
  <2>1. row * Rows \in Nat /\ row * Rows + Rows <= i * Rows
    BY <1>2, RowsApart
  <2>2. row * Rows + col + 1 \in 1..(i * Rows + j)
    BY <1>2, <1>4, <2>1
  <2>3. result[row * Rows + col + 1] = vec[col + 1]
    BY <1>1 DEF IInv, LongInv
  <2>. QED  BY <1>5, <2>2, <2>3
<1>8. ASSUME NEW col \in 0..j PROVE result'[i * Rows + col + 1] = vec[col + 1]
  <2>1. CASE col = j
    BY <1>5, <2>1
  <2>2. CASE col # j
    <3>1. col \in 0..(j - 1) /\ i * Rows + col + 1 \in 1..(i * Rows + j)
      BY <1>2, <1>4, <2>2
    <3>2. result[i * Rows + col + 1] = vec[col + 1]
      BY <1>1, <3>1 DEF IInv, LongInv
    <3>. QED  BY <1>5, <3>1, <3>2
  <2>. QED  BY <2>1, <2>2
<1>9. LongInv'
  <2>1. j' - 1 = j /\ i # Rows
    BY <1>1, <1>2
  <2>2. Len(result') = i * Rows + j'
    BY <1>1, <1>2, <1>4, <1>5
  <2>. QED  BY <1>1, <1>3, <1>7, <1>8, <2>1, <2>2 DEF IInv, LongInv
<1>. QED
  BY <1>1, <1>6, <1>9
  DEF IInv, LoadInv, Started, ColumnInv, AnswerExact, OnlyOversizedCrash

LEMMA NextRowStep == IInv /\ NextRow => IInv'
<1>. SUFFICES ASSUME IInv, NextRow PROVE IInv'
  OBVIOUS
<1>1. /\ Rows' = Rows /\ slots' = slots /\ dimension' = dimension
      /\ vec' = vec /\ result' = result /\ pc' = pc /\ pc = "long"
      /\ i' = i + 1 /\ j' = 0
  BY DEF NextRow, Rows
<1>2. Rows \in Nat /\ i \in Nat /\ j \in Nat /\ i < Rows /\ j = Rows
  BY RowsType DEF NextRow, IInv, TypeOK
<1>3. TypeOK'
  <2>1. i' \in 0..Rows /\ j' \in 0..Rows
    BY <1>1, <1>2
  <2>. QED  BY <1>1, <2>1 DEF IInv, TypeOK
<1>4. Len(result') = i' * Rows' + j'
  <2>1. Len(result) = i * Rows + Rows
    BY <1>1, <1>2 DEF IInv, LongInv
  <2>2. (i + 1) * Rows + 0 = i * Rows + Rows
    BY <1>2
  <2>. QED  BY <1>1, <2>1, <2>2
<1>5. ASSUME NEW row \in 0..i, NEW col \in 0..(Rows - 1)
      PROVE  result[row * Rows + col + 1] = vec[col + 1]
  <2>1. CASE row = i
    BY <1>1, <1>2, <2>1 DEF IInv, LongInv
  <2>2. CASE row # i
    <3>1. row \in 0..(i - 1)
      BY <1>2, <2>2
    <3>. QED  BY <1>1, <3>1 DEF IInv, LongInv
  <2>. QED  BY <2>1, <2>2
<1>6. LongInv'
  <2>1. i' - 1 = i /\ 0..(j' - 1) = {}
    BY <1>1, <1>2
  <2>. QED  BY <1>1, <1>4, <1>5, <2>1 DEF IInv, LongInv
<1>. QED
  BY <1>1, <1>3, <1>6
  DEF IInv, LoadInv, Started, ColumnInv, AnswerExact, OnlyOversizedCrash

LEMMA EncodeStep == IInv /\ Encode => IInv'
<1>. SUFFICES ASSUME IInv, Encode PROVE IInv'
  OBVIOUS
<1>1. /\ Rows' = Rows /\ UNCHANGED <<slots, dimension, i, j, vec, result>> /\ pc = "long"
      /\ pc' \in {"answered", "thrown"} /\ (pc' = "answered" => Len(result) <= slots)
  BY DEF Encode, Rows
<1>2. Rows \in Nat /\ slots \in Nat /\ i = Rows
  BY RowsType DEF Encode, IInv, TypeOK
<1>3. TypeOK'
  BY <1>1 DEF IInv, TypeOK
<1>4. j = 0 /\ Len(result) = Rows * Rows
  BY <1>1, <1>2 DEF IInv, LongInv
<1>5. ASSUME Len(result) <= slots,
             NEW row \in 0..(Rows - 1), NEW col \in 0..(Rows - 1)
      PROVE  result[row * Rows + col + 1] = col * Rows
  <2>1. col * Rows + Rows <= Rows * Rows /\ col * Rows \in Nat
    BY <1>2, RowsApart
  <2>2. col * Rows < slots
    BY <1>2, <1>4, <1>5, <2>1
  <2>3. vec[col + 1] = col * Rows
    BY <1>1, <2>2 DEF IInv, LongInv
  <2>. QED  BY <1>1, <1>2, <2>3 DEF IInv, LongInv
<1>6. AnswerExact'
  <2>1. Len(result) \in Nat
    BY RowsType DEF IInv
  <2>. QED  BY <1>1, <1>2, <1>4, <1>5, <2>1 DEF AnswerExact
<1>. QED
  BY <1>1, <1>3, <1>6
  DEF IInv, LoadInv, Started, ColumnInv, LongInv, OnlyOversizedCrash

\* The invariant of the loops.
THEOREM Invariance == Spec => []IInv
<1>1. IInv /\ [Next]_vars => IInv'
  <2>. SUFFICES ASSUME IInv, [Next]_vars PROVE IInv'
    OBVIOUS
  <2>1. CASE UNCHANGED vars
    BY <2>1 DEF vars, IInv, TypeOK, LoadInv, Started, ColumnInv, LongInv, AnswerExact,
                OnlyOversizedCrash, Rows
  <2>2. CASE Next
    BY <2>2, LoadStep, PushColumnStep, BeginLongStep, PushLongStep, NextRowStep, EncodeStep
    DEF Next
  <2>. QED  BY <2>1, <2>2
<1>. QED  BY InitIInv, <1>1, PTL DEF Spec

\* The variables keep their types.
THEOREM TypeCorrect == Spec => []TypeOK
<1>1. IInv => TypeOK
  BY DEF IInv
<1>. QED  BY <1>1, Invariance, PTL

\* A long vector that is sent is the right one.
THEOREM LongVectorRight == Spec => []AnswerExact
<1>1. IInv => AnswerExact
  BY DEF IInv
<1>. QED  BY <1>1, Invariance, PTL

\* Reading too far is the fate only of dimensions without an answer.
THEOREM CrashOnlyOversized == Spec => []OnlyOversizedCrash
<1>1. IInv => OnlyOversizedCrash
  BY DEF IInv
<1>. QED  BY <1>1, Invariance, PTL

\* An answer says that the long vector had room in a ciphertext.  (What is thrown
\* says nothing about the dimension: encode also throws for large values.)
THEOREM AnsweredOnlyIfItFits == Spec => [](pc = "answered" => Rows * Rows <= slots)
<1>. DEFINE Fits == pc = "answered" => Rows * Rows <= slots
<1>1. ASSUME IInv, Encode PROVE Fits'
  <2>1. Rows \in Nat /\ i = Rows
    BY <1>1, RowsType DEF Encode, IInv, TypeOK
  <2>2. j = 0 /\ Len(result) = i * Rows + j
    BY <1>1, <2>1 DEF Encode, IInv, LongInv
  <2>3. Len(result) = Rows * Rows
    BY <2>1, <2>2
  <2>. QED  BY <1>1, <2>3 DEF Encode, Rows
<1>2. ASSUME [Next]_vars, ~Encode
      PROVE  pc' = "answered" => pc = "answered" /\ Rows' = Rows /\ slots' = slots
  BY <1>2 DEF Next, recrypt_for_svm, PushColumn, BeginLong, PushLong, NextRow, vars, Rows
<1>3. Init => Fits
  BY DEF Init
<1>4. IInv /\ Fits /\ [Next]_vars => Fits'
  BY <1>1, <1>2
<1>. QED  BY <1>3, <1>4, Invariance, PTL DEF Spec

-----------------------------------------------------------------------------
\* How many steps the request can still take: one for each element of the
\* column, one for each element of the long vector and one for the end of each
\* row, and those between the loops.
StepsLeft ==
    CASE pc = "load"   -> 3 + Rows + Rows * (Rows + 1)
      [] pc = "column" -> 2 + (Rows - i) + Rows * (Rows + 1)
      [] pc = "long"   -> 1 + (Rows - i) * (Rows + 1) - j
      [] OTHER         -> 0

\* In the middle of a row, at least as many steps are left as the row needs.
LEMMA StepsLeftType == IInv => StepsLeft \in Nat
<1>. SUFFICES ASSUME IInv PROVE StepsLeft \in Nat
  OBVIOUS
<1>1. Rows \in Nat /\ i \in 0..Rows /\ j \in 0..Rows /\ Rows * (Rows + 1) \in Nat
  BY RowsType DEF IInv, TypeOK
<1>2. CASE pc = "long"
  <2>1. CASE i = Rows
    <3>1. j = 0 /\ (Rows - i) * (Rows + 1) = 0
      BY <1>1, <1>2, <2>1 DEF IInv, LongInv
    <3>. QED  BY <1>2, <3>1 DEF StepsLeft
  <2>2. CASE i # Rows
    <3>1. 0 * (Rows + 1) + (Rows + 1) <= (Rows - i) * (Rows + 1)
      BY <1>1, <2>2, RowsApart, Rows - i \in Nat, Rows + 1 \in Nat, 0 < Rows - i
    <3>2. (Rows - i) * (Rows + 1) \in Int
      BY <1>1
    <3>. QED  BY <1>1, <1>2, <3>1, <3>2 DEF StepsLeft
  <2>. QED  BY <2>1, <2>2
<1>3. CASE pc # "long"
  BY <1>1, <1>3 DEF StepsLeft
<1>. QED  BY <1>2, <1>3

\* Every step brings the end of the request closer.
LEMMA StepsDecrease == ASSUME IInv, Next PROVE StepsLeft' < StepsLeft
<1>. DEFINE R == Rows
            L == R * (R + 1)
<1>1. Rows' = R
  BY DEF Next, recrypt_for_svm, PushColumn, BeginLong, PushLong, NextRow, Encode, Rows
<1>2. R \in Nat /\ i \in 0..R /\ j \in 0..R /\ L \in Nat
  BY RowsType DEF IInv, TypeOK
<1>3. StepsLeft \in Nat
  BY StepsLeftType
<1>. DEFINE Left(p, ii, jj) ==
         CASE p = "load"   -> 3 + R + L
           [] p = "column" -> 2 + (R - ii) + L
           [] p = "long"   -> 1 + (R - ii) * (R + 1) - jj
           [] OTHER         -> 0
<1>4. StepsLeft = Left(pc, i, j) /\ StepsLeft' = Left(pc', i', j')
  BY <1>1 DEF StepsLeft
<1>5. \A ii \in Int : (R - ii) * (R + 1) \in Int
  BY <1>2
<1>6. /\ (R - 0) * (R + 1) = L
      /\ (R - (i + 1)) * (R + 1) = (R - i) * (R + 1) - (R + 1)
  BY <1>2
<1>7. /\ i < dimension <=> i < R
      /\ j < dimension /\ dimension > 0 <=> j < R
      /\ i \in Nat /\ j \in Nat /\ dimension \in Int
  BY RowsType DEF IInv
<1>. HIDE DEF R, L
<1>8. CASE recrypt_for_svm
  <2>1. pc = "load" /\ pc' \in {"column", "thrown"} /\ i' = i /\ i = 0
    BY <1>8 DEF recrypt_for_svm, IInv, Started
  <2>. QED  BY <1>2, <1>4, <2>1
<1>9. CASE PushColumn
  BY <1>2, <1>4, <1>7, <1>9 DEF PushColumn
<1>10. CASE BeginLong
  <2>1. pc = "column" /\ pc' = "long" /\ i' = 0 /\ j' = 0 /\ i = R
    BY <1>2, <1>7, <1>10 DEF BeginLong, IInv, LoadInv
  <2>. QED  BY <1>2, <1>4, <1>6, <2>1
<1>11. CASE PushLong
  <2>1. pc = "long" /\ pc' = "long" /\ i' = i /\ j' = j + 1
    BY <1>11 DEF PushLong
  <2>. QED  BY <1>2, <1>4, <1>5, <2>1
<1>12. CASE NextRow
  <2>1. pc = "long" /\ pc' = "long" /\ i' = i + 1 /\ j' = 0 /\ j = R
    BY <1>2, <1>7, <1>12 DEF NextRow
  <2>2. (R - i) * (R + 1) \in Int
    BY <1>2, <1>5
  <2>3. 1 + (R - i') * (R + 1) - j' = (1 + (R - i) * (R + 1) - j) - 1
    BY <1>2, <1>6, <2>1, <2>2
  <2>. QED  BY <1>2, <1>4, <2>1, <2>2, <2>3
<1>13. CASE Encode
  <2>1. pc = "long" /\ pc' \in {"thrown", "answered"} /\ i = R
    BY <1>2, <1>7, <1>13 DEF Encode
  <2>2. j = 0 /\ (R - i) * (R + 1) = 0
    BY <1>2, <2>1 DEF IInv, LongInv, R
  <2>. QED  BY <1>4, <2>1, <2>2
<1>. QED  BY <1>8, <1>9, <1>10, <1>11, <1>12, <1>13 DEF Next

\* The loops end, whatever the dimension: a number of steps that only falls is
\* left at any time, so the handler is not kept in split_to_long.
THEOREM LoopsEnd ==
    Spec => []( StepsLeft \in Nat ) /\ [][StepsLeft' < StepsLeft]_vars
<1>1. IInv => StepsLeft \in Nat
  BY StepsLeftType
<1>2. IInv /\ [Next]_vars => [StepsLeft' < StepsLeft]_vars
  BY StepsDecrease
<1>. QED  BY <1>1, <1>2, Invariance, PTL DEF Spec
=============================================================================
