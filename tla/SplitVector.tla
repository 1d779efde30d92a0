----------------------------- MODULE SplitVector -----------------------------
(***************************************************************************)
(* The property recrypt_svm: a square matrix, row by row in the slots of a *)
(* ciphertext, is encrypted afresh, together with its "long vector", which *)
(* repeats the first column once for every row (recrypt_for_svm in         *)
(* src/seal_handler.cpp, split_to_long in src/seal_handler.h).             *)
(*                                                                         *)
(* The dimension is a number of the client's, and compared with nothing.   *)
(* A slot is represented by its index.                                     *)
(***************************************************************************)
EXTENDS Integers, Sequences

CONSTANTS
    SlotCounts,     \* how many slots a ciphertext may have
    Dimensions      \* what a client may send; what is no number counts as 0

ASSUME NumbersAssumption == SlotCounts \subseteq Nat \ {0} /\ Dimensions \subseteq Int

VARIABLES
    pc,             \* the place in recrypt_for_svm, or how it ended
    slots,          \* the length of the decoded vector
    dimension,
    i, j,           \* the counters of the loops
    vec,            \* the first column
    result          \* the long vector

vars == <<pc, slots, dimension, i, j, vec, result>>

Garbage == -1       \* what is read behind the end of a vector

Init ==
    /\ pc = "load"
    /\ slots \in SlotCounts /\ dimension \in Dimensions
    /\ i = 0 /\ j = 0
    /\ vec = <<>> /\ result = <<>>

\* A text that is no ciphertext throws.
recrypt_for_svm ==
    /\ pc = "load"
    /\ pc' \in {"column", "thrown"}
    /\ UNCHANGED <<slots, dimension, i, j, vec, result>>

\* Mutant: there is one row more.
PushColumn_OneMore ==
    /\ pc = "column" /\ i <= dimension
    /\ \/ /\ vec' = Append(vec, IF i * dimension < slots THEN i * dimension ELSE Garbage)
          /\ i' = i + 1
          /\ UNCHANGED pc
       \/ /\ i * dimension >= slots
          /\ pc' = "crashed"
          /\ UNCHANGED <<vec, i>>
    /\ UNCHANGED <<slots, dimension, j, result>>

\* in[i * dimension] is read, without a check of the index: something else is
\* read, or the process ends, if it is too large, or the product overflows.
PushColumn ==
    /\ pc = "column" /\ i < dimension
    /\ \/ /\ vec' = Append(vec, IF i * dimension < slots THEN i * dimension ELSE Garbage)
          /\ i' = i + 1
          /\ UNCHANGED pc
       \/ /\ i * dimension >= slots
          /\ pc' = "crashed"
          /\ UNCHANGED <<vec, i>>
    /\ UNCHANGED <<slots, dimension, j, result>>

BeginLong ==
    /\ pc = "column" /\ i >= dimension
    /\ pc' = "long"
    /\ i' = 0
    /\ UNCHANGED <<slots, dimension, j, vec, result>>

PushLong ==
    /\ pc = "long" /\ i < dimension /\ j < dimension
    /\ result' = Append(result, vec[j + 1])
    /\ j' = j + 1
    /\ UNCHANGED <<pc, slots, dimension, i, vec>>

\* Mutant: j is not set back.
NextRow_KeepJ ==
    /\ pc = "long" /\ i < dimension /\ j >= dimension
    /\ i' = i + 1
    /\ UNCHANGED <<pc, slots, dimension, j, vec, result>>

NextRow ==
    /\ pc = "long" /\ i < dimension /\ j >= dimension
    /\ i' = i + 1 /\ j' = 0
    /\ UNCHANGED <<pc, slots, dimension, vec, result>>

\* Both vectors are encrypted.  encode throws if there are more values than slots;
\* it may throw for others too, those that are too large for the scale: what the
\* slots contain is the client's.
Encode ==
    /\ pc = "long" /\ i >= dimension
    /\ \/ pc' = "answered" /\ Len(result) <= slots
       \/ pc' = "thrown"
    /\ UNCHANGED <<slots, dimension, i, j, vec, result>>

Next == recrypt_for_svm \/ PushColumn \/ BeginLong \/ PushLong \/ NextRow \/ Encode

Spec == Init /\ [][Next]_vars

-----------------------------------------------------------------------------
(* Properties *)

\* The number of rows: none if the dimension is negative.
Rows == IF dimension > 0 THEN dimension ELSE 0

TypeOK ==
    /\ pc \in {"load", "column", "long", "answered", "thrown", "crashed"}
    /\ slots \in SlotCounts /\ dimension \in Dimensions
    /\ i \in 0..Rows /\ j \in 0..Rows
    /\ vec \in Seq(Int) /\ result \in Seq(Int)

\* What was read behind the end of the vector never reaches a client: a long
\* vector that is sent has, in each row, exactly the first column of the matrix.
AnswerExact ==
    pc = "answered" =>
        /\ Len(result) = Rows * Rows
        /\ \A row, col \in 0..(Rows - 1) : result[row * Rows + col + 1] = col * Rows

\* A crash is the fate only of dimensions for which there can be no answer.
OnlyOversizedCrash == pc = "crashed" => dimension * dimension > slots
=============================================================================
