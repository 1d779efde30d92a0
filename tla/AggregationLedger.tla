-------------------------- MODULE AggregationLedger --------------------------
(***************************************************************************)
(* The tables of a distributed aggregation (src/db_access.cpp).            *)
(*                                                                         *)
(* AGGREGATION_RANDOM_SHARES holds a book for every initiator: who takes   *)
(* part, and the share that was received from each of them.                *)
(* AGGREGATION_BLINDED_MEASUREMENTS is the book of the service's own       *)
(* aggregation.  A round of a book begins when it is cleared, participants *)
(* are inserted, their values come in, and once all have been received the *)
(* sum is taken.                                                           *)
(*                                                                         *)
(* Any statement may fail.  Some functions tell their caller, others do    *)
(* not, and the queries answer a failure as they answer an empty result.   *)
(* The functions may be called in any order.                               *)
(***************************************************************************)
EXTENDS Integers, FiniteSets, Functions

CONSTANTS
    Initiators,     \* whose aggregations this service takes part in
    Participants,
    Values,         \* shares and measurements, any finite doubles: each of them is
                    \* a multiple of a power of ten that is small enough, and it
                    \* is counted in that one
    Units,          \* powers of ten
    MaxFaults       \* bound on the calls in which a statement fails

Own == "own"
Books == Initiators \cup {Own}

Limit == 1000 * 1000  \* the least number that six digits cannot write

Size(v) == IF v < 0 THEN -v ELSE v

ASSUME LedgerAssumption ==
    /\ Own \notin Initiators
    /\ IsFiniteSet(Participants)
    /\ Values \subseteq Int
    /\ Units \subseteq Nat \ {0} /\ 1 \in Units
    /\ \A u \in Units : u = 1 \/ (u % 10 = 0 /\ u \div 10 \in Units)
    /\ \A v \in Values : \E u \in Units : Size(v) < Limit * u
    /\ MaxFaults \in Nat

VARIABLES
    rows,           \* the row of each participant in each book
    inserted,       \* history: whose insertion in this round returned true
    sent,           \* history: the value sent since the insertion, if any
    dirty,          \* history: books of which a statement failed in this round
    answer,         \* what the last query returned
    faults          \* calls in which a statement has failed

roundVars == <<inserted, sent, dirty>>
vars == <<rows, roundVars, answer, faults>>

Missing == [done |-> FALSE, value |-> 0]
Absent == [received |-> "absent", value |-> 0]
NoAnswer == [query |-> "none", book |-> Own, result |-> 0, ok |-> TRUE]

Init ==
    /\ rows = [b \in Books |-> [p \in Participants |-> Absent]]
    /\ inserted = [b \in Books |-> {}]
    /\ sent = [b \in Books |-> [p \in Participants |-> Missing]]
    /\ dirty = {}
    /\ answer = NoAnswer
    /\ faults = 0

\* One more call fails.
Fault == faults < MaxFaults /\ faults' = faults + 1

-----------------------------------------------------------------------------
(* Statements *)

\* QString::number writes six significant digits: the number in the text, which
\* is what is stored, is a multiple of the last one of them.
Unit(v) == CHOOSE u \in Units :
               Size(v) < Limit * u /\ (u > 1 => Size(v) >= Limit * (u \div 10))

\* Mutant: the number is cut, not rounded.
QStringNumber_Cut(v) ==
    LET cut == (Size(v) \div Unit(v)) * Unit(v)
    IN  {IF v < 0 THEN -cut ELSE cut}

QStringNumber(v) ==
    LET u == Unit(v)
        low == (v \div u) * u
    IN  {w \in {low, low + u} : 2 * (w - v) <= u /\ 2 * (v - w) <= u}

\* Mutant: RECEIVED is left out and NULL.
Insert_Null(b, p) ==
    /\ rows' = [rows EXCEPT ![b][p] = [received |-> "null", value |-> 0]]
    /\ inserted' = [inserted EXCEPT ![b] = @ \cup {p}]
    /\ sent' = [sent EXCEPT ![b][p] = Missing]
    /\ UNCHANGED <<dirty, faults>>

\* Mutant: a participant who is inserted again keeps its row.
Insert_OrIgnore(b, p) ==
    \/ /\ rows' = [rows EXCEPT ![b][p] =
                     IF @ = Absent THEN [received |-> "no", value |-> 0] ELSE @]
       /\ inserted' = [inserted EXCEPT ![b] = @ \cup {p}]
       /\ sent' = [sent EXCEPT ![b][p] = Missing]
       /\ UNCHANGED <<dirty, faults>>
    \/ /\ Fault
       /\ dirty' = dirty \cup {b}
       /\ UNCHANGED <<rows, inserted, sent>>

\* INSERT OR REPLACE: a participant who is inserted again starts afresh.  The
\* caller learns of a failure.
Insert(b, p) ==
    \/ /\ rows' = [rows EXCEPT ![b][p] = [received |-> "no", value |-> 0]]
       /\ inserted' = [inserted EXCEPT ![b] = @ \cup {p}]
       /\ sent' = [sent EXCEPT ![b][p] = Missing]
       /\ UNCHANGED <<dirty, faults>>
    \/ /\ Fault
       /\ dirty' = dirty \cup {b}
       /\ UNCHANGED <<rows, inserted, sent>>

\* UPDATE: a value of somebody who has no row is lost without a failure.
Update(b, p, v) ==
    \/ /\ rows[b][p] # Absent
       /\ \E w \in QStringNumber(v) :
            rows' = [rows EXCEPT ![b][p] = [received |-> "yes", value |-> w]]
       /\ sent' = [sent EXCEPT ![b][p] =
                     IF p \in inserted[b] THEN [done |-> TRUE, value |-> v] ELSE @]
       /\ UNCHANGED <<inserted, dirty, faults>>
    \/ /\ rows[b][p] = Absent
       /\ UNCHANGED <<rows, roundVars, faults>>
    \/ /\ Fault
       /\ dirty' = dirty \cup {b}
       /\ UNCHANGED <<rows, inserted, sent>>

\* DELETE of some books.  Nobody looks at the result: a new round begins.
Clear(cleared, failed) ==    \* failed \subseteq cleared
    /\ rows' = [b \in Books |-> IF b \in cleared \ failed
                                THEN [p \in Participants |-> Absent]
                                ELSE rows[b]]
    /\ inserted' = [b \in Books |-> IF b \in cleared THEN {} ELSE inserted[b]]
    /\ sent' = [b \in Books |-> IF b \in cleared
                                THEN [p \in Participants |-> Missing]
                                ELSE sent[b]]
    /\ dirty' = (dirty \ cleared) \cup failed

Answered(query, b, result, ok) ==
    /\ answer' = [query |-> query, book |-> b, result |-> result, ok |-> ok]
    /\ UNCHANGED <<rows, roundVars>>

-----------------------------------------------------------------------------
(* The functions of db_access *)

insertParticipantRandomShares(i, p) == Insert(i, p) /\ answer' = NoAnswer

insertParticipantBlindedMeasurements(p) == Insert(Own, p) /\ answer' = NoAnswer

updateShareRandomShares(i, p, v) == Update(i, p, v) /\ answer' = NoAnswer

updateBlindedMeasurement(p, v) == Update(Own, p, v) /\ answer' = NoAnswer

\* Mutant: the condition on the initiator is missing.
deleteInitiatorRandomShares_All(i) ==
    /\ \/ /\ rows' = [b \in Books |-> IF b = Own THEN rows[b]
                                      ELSE [p \in Participants |-> Absent]]
          /\ inserted' = [inserted EXCEPT ![i] = {}]
          /\ sent' = [sent EXCEPT ![i] = [p \in Participants |-> Missing]]
          /\ dirty' = dirty \ {i}
          /\ UNCHANGED faults
       \/ Clear({i}, {i}) /\ Fault
    /\ answer' = NoAnswer

deleteInitiatorRandomShares(i) ==
    /\ \/ Clear({i}, {}) /\ UNCHANGED faults
       \/ Clear({i}, {i}) /\ Fault
    /\ answer' = NoAnswer

\* The constructor: resetRandomShares and resetBlindedMeasurements, of which one
\* or both may fail.
db_access ==
    /\ \/ Clear(Books, {}) /\ UNCHANGED faults
       \/ \E failed \in {Initiators, {Own}, Books} : Clear(Books, failed) /\ Fault
    /\ answer' = NoAnswer

\* Both a missing row and a failure are a no.
isAlreadyInsertedInRandomShares(i, p) ==
    \/ /\ Answered("inserted", i, IF rows[i][p] # Absent THEN 1 ELSE 0, TRUE)
       /\ UNCHANGED faults
    \/ Answered("inserted", i, 0, FALSE) /\ Fault

\* Mutant: the query asks for a row that was received.
allRandomSharesReceived_Any(i) ==
    \/ /\ Answered("all", i, IF \E p \in Participants : rows[i][p].received = "yes"
                             THEN 1 ELSE 0, TRUE)
       /\ UNCHANGED faults
    \/ Answered("all", i, 1, FALSE) /\ Fault

\* The query asks for a row that was not received: nothing, be it for a failure,
\* means that all were.
allRandomSharesReceived(i) ==
    \/ /\ Answered("all", i, IF \E p \in Participants : rows[i][p].received = "no"
                             THEN 0 ELSE 1, TRUE)
       /\ UNCHANGED faults
    \/ Answered("all", i, 1, FALSE) /\ Fault

\* The statement ends in a quote that opens nothing: it cannot be prepared, and
\* the failure means that all were received.
allBlindedMeasurementsReceived ==
    /\ Answered("all", Own, 1, TRUE)
    /\ UNCHANGED faults

SumOfBook(b) == FoldFunction(LAMBDA row, sum : row.value + sum, 0, rows[b])

\* A failure is an empty sum.
SumQuery(b) ==
    \/ Answered("sum", b, SumOfBook(b), TRUE) /\ UNCHANGED faults
    \/ Answered("sum", b, 0, FALSE) /\ Fault

getRandomShareSum(i) == SumQuery(i)

getBlindedMeasurementSum == SumQuery(Own)

Next ==
    \/ \E i \in Initiators, p \in Participants :
         \/ insertParticipantRandomShares(i, p)
         \/ isAlreadyInsertedInRandomShares(i, p)
         \/ \E v \in Values : updateShareRandomShares(i, p, v)
    \/ \E p \in Participants :
         \/ insertParticipantBlindedMeasurements(p)
         \/ \E v \in Values : updateBlindedMeasurement(p, v)
    \/ \E i \in Initiators :
         deleteInitiatorRandomShares(i) \/ allRandomSharesReceived(i) \/ getRandomShareSum(i)
    \/ allBlindedMeasurementsReceived \/ getBlindedMeasurementSum
    \/ db_access

Spec == Init /\ [][Next]_vars

-----------------------------------------------------------------------------
(* Properties *)

TypeOK ==
    /\ rows \in [Books -> [Participants -> [received : {"absent", "no", "yes"}, value : Int]]]
    /\ inserted \in [Books -> SUBSET Participants]
    /\ sent \in [Books -> [Participants -> [done : BOOLEAN, value : Values \cup {0}]]]
    /\ dirty \subseteq Books
    /\ answer.query \in {"none", "inserted", "all", "sum"}
    /\ answer.book \in Books
    /\ answer.result \in IF answer.query = "sum" THEN Int ELSE {0, 1}
    /\ answer.ok \in BOOLEAN
    /\ faults \in 0..MaxFaults

AllSent(b) == \A p \in inserted[b] : sent[b][p].done

\* If a query that did not fail says that all shares of an initiator have been
\* received, then everybody who was inserted in this round has sent one since,
\* although insertions may be repeated and earlier statements, the one that
\* should have cleared the book among them, may have failed.
AllReceivedMeansAllSent ==
    answer.query = "all" /\ answer.book # Own /\ answer.ok /\ answer.result = 1
        => AllSent(answer.book)

Total(f) == FoldFunction(+, 0, f)

\* What has been sent by those who take part in the round of a book, and how far
\* all that was written for it may be off, twice: half of the last digit each.
SentInRound(b) == Total([p \in Participants |-> sent[b][p].value])

Rounding(v) == IF Unit(v) > 1 THEN Unit(v) ELSE 0

Slack(b) ==
    Total([p \in Participants |->
             IF sent[b][p].done THEN Rounding(sent[b][p].value) ELSE 0])

\* In a round in which no statement failed, the sum is that of the values that
\* were sent by those who take part, up to half of the last digit of each.
SumUpToRounding ==
    answer.query = "sum" /\ answer.ok /\ answer.book \notin dirty =>
        2 * (answer.result - SentInRound(answer.book))
            \in -Slack(answer.book) .. Slack(answer.book)

\* db_access.cpp:504: allBlindedMeasurementsReceived is true "if all shares
\* received of own aggregation".
OwnRoundComplete ==
    answer.query = "all" /\ answer.book = Own /\ answer.result = 1 => AllSent(Own)
=============================================================================
