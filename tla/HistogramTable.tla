--------------------------- MODULE HistogramTable ---------------------------
(***************************************************************************)
(* The histograms of the columns: InitHistogram fills them once, column by *)
(* column, and getFilteredRow reads them.  Each text goes through the one  *)
(* string input to makeDataMap, makeDataMapFloat or makeDataMapDate, which *)
(* make a key of each line's range; a key that comes twice keeps only one  *)
(* of its lines.  A comparison with a bound then takes a bucket for inside *)
(* or outside as a whole, by its key.                                      *)
(***************************************************************************)
EXTENDS FilteredColumns

CONSTANTS
  Identifiers,   \* what the model of the filters takes for columns without buckets
  Understated,   \* and for columns with buckets for more rows than the table has
  BoundStep      \* thins out the bounds that are tried

ASSUME BoundStepAssumption == BoundStep \in Nat \ {0}

VARIABLES
  column,        \* index of the column InitHistogram is at
  stage,         \* what it does next there: "fields", "text" or "buckets"
  input,         \* lines of the text read last
  histogram,     \* the record of each column
  compared       \* the last comparison, with the keys of the buckets it counts

vars == <<column, stage, input, histogram, compared>>

\* Of these four columns InitHistogram says nothing.
Unmentioned == {"c_address", "c_nationkey", "l_suppkey", "l_linenumber"}

ColumnNames == {c.column : c \in ToSet(Columns)} \cup {"ps_suppkey"} \cup Unmentioned

Here == Columns[column]

TextOf(c) == (CHOOSE d \in ToSet(Columns) : d.column = c).text

Empty == [identifier |-> FALSE, count |-> 0, bucketNum |-> 0, dataMap |-> {}]

NoComparison == [column |-> "none"]

-----------------------------------------------------------------------------
\* The calendar, from 1992 to 1999.
YearStart(y) == 365 * (y - 1992) + (y - 1989) \div 4

MonthStart(y, m) ==
  YearStart(y) + <<0, 31, 59, 90, 120, 151, 181, 212, 243, 273, 304, 334>>[m]
  + (IF m > 2 /\ y % 4 = 0 THEN 1 ELSE 0)

DateOf(day) ==
  LET year == Max({y \in 1992..1999 : YearStart(y) <= day})
      month == Max({m \in 1..12 : MonthStart(year, m) <= day})
  IN  [year |-> year, month |-> month, day |-> day - MonthStart(year, month) + 1]

\* Mutant: the day is left out.
dateToIntMonth(date) == date.year * 32 * 16 + date.month * 32

\* Mutant: the last two parts exchanged.
dateToIntSwapped(date) == date.year * 32 * 16 + date.day * 32 + date.month

dateToInt(date) == date.year * 32 * 16 + date.month * 32 + date.day

\* makeDataMap keeps the range, of which stof reads the lower bound.
Key(make, line) ==
  CASE make = "makeDataMap" -> line.lo
    [] make = "makeDataMapFloat" -> line.hi
    [] make = "makeDataMapDate" -> dateToInt(DateOf(line.hi))

Buckets(make, lines) == {[key |-> Key(make, l), lo |-> l.lo, hi |-> l.hi] : l \in lines}

\* One bucket per key.
DataMap(make, lines) ==
  LET all == Buckets(make, lines)
  IN  {CHOOSE b \in {b \in all : b.key = k} : TRUE : k \in {b.key : b \in all}}

-----------------------------------------------------------------------------
Loading == column <= Len(Columns)

GoOn(from) ==
  LET left == CASE from = "fields" -> Here.text # {} [] from = "text" -> Here.to # "none" [] from = "buckets" -> FALSE
  IN  /\ column' = IF left THEN column ELSE column + 1
      /\ stage' = IF ~left THEN "fields" ELSE IF from = "fields" THEN "text" ELSE "buckets"
      /\ UNCHANGED compared

\* Mutant: the number of buckets of the column before, copied with its line.
SetFieldsCopied ==
  /\ Loading /\ stage = "fields"
  /\ histogram' = [histogram EXCEPT ![Here.column] =
                     [@ EXCEPT !.identifier = Here.identifier, !.count = TableRows[Here.table],
                               !.bucketNum = Columns[IF column = 1 THEN 1 ELSE column - 1].bucketNum]]
  /\ GoOn("fields")
  /\ UNCHANGED input

SetFields ==
  /\ Loading /\ stage = "fields"
  /\ histogram' = [histogram EXCEPT ![Here.column] =
                     [@ EXCEPT !.identifier = Here.identifier, !.count = TableRows[Here.table],
                               !.bucketNum = Here.bucketNum]]
  /\ GoOn("fields")
  /\ UNCHANGED input

ReadText ==
  /\ Loading /\ stage = "text"
  /\ input' = Here.text
  /\ GoOn("text")
  /\ UNCHANGED histogram

\* Mutant: assigned to the column before.
MakeBucketsBefore ==
  /\ Loading /\ stage = "buckets"
  /\ histogram' = [histogram EXCEPT ![Columns[column - 1].column].dataMap = DataMap(Here.make, input)]
  /\ GoOn("buckets")
  /\ UNCHANGED input

MakeBuckets ==
  /\ Loading /\ stage = "buckets"
  /\ histogram' = [histogram EXCEPT ![Here.to].dataMap = DataMap(Here.make, input)]
  /\ GoOn("buckets")
  /\ UNCHANGED input

-----------------------------------------------------------------------------
Dates == ComparedWith({"date"})

\* How a snippet file writes a date.
SnippetDate(day) == LET d == DateOf(day) IN 512 * d.year + 32 * d.month + d.day

Operand(c, bound) == IF c \in Dates THEN SnippetDate(bound) ELSE bound

Passes(op, x, y) ==
  CASE op = "GE" -> x >= y [] op = "LE" -> x <= y [] op = "GT" -> x > y [] op = "LT" -> x < y

\* Bounds at which a bucket may change sides, every BoundStep-th number.
Bounds(c) ==
  {b \in {l.lo : l \in TextOf(c)} \cup {l.hi : l \in TextOf(c)} : b % BoundStep = 0}

(***************************************************************************)
(* What is said in InitHistogram and in the snippet files.  The lines of a *)
(* text are ranges apart from each other.  Dates lie in the years 1992 to  *)
(* 1999, and of the columns that are compared with a bound it is those of  *)
(* dates that makeDataMapDate makes the buckets of.                        *)
(***************************************************************************)
Days == 0..YearStart(2000) - 1

WithBound == ComparedWith({"date", "number"})

ASSUME CatalogueAssumption ==
  /\ Len(Columns) \in Nat /\ DOMAIN Columns = 1..Len(Columns)
  /\ WithBound \subseteq {d.column : d \in ToSet(Columns)} /\ "none" \notin ColumnNames
  /\ \A d \in ToSet(Columns) : d.to # "none" => d.to \in ColumnNames /\ d.text # {}

ASSUME TextsAssumption ==
  \A d \in ToSet(Columns) :
    /\ IsFiniteSet(d.text)
    /\ \A l \in d.text : l \in [lo : Int, hi : Int] /\ l.lo <= l.hi
    /\ \A l, m \in d.text : l = m \/ l.hi < m.lo \/ m.hi < l.lo
    /\ d.make = "makeDataMapDate" \/ d.column \in Dates => \A l \in d.text : {l.lo, l.hi} \subseteq Days
    /\ d.to # "none" => d.make \in {"makeDataMap", "makeDataMapFloat", "makeDataMapDate"}
    /\ d.to \in WithBound => (d.make = "makeDataMapDate" <=> d.to \in Dates)

\* A loop over dataMap that adds up the buckets whose key passes.
CompareWithBound ==
  /\ ~Loading /\ compared = NoComparison
  /\ \E c \in WithBound, op \in {"GE", "LE", "GT", "LT"} : \E bound \in Bounds(c) :
       LET value == Operand(c, bound)
       IN  compared' = [column |-> c, op |-> op, bound |-> bound,
                        counted |-> {b \in histogram[c].dataMap : Passes(op, b.key, value)}]
  /\ UNCHANGED <<column, stage, input, histogram>>

Done == compared # NoComparison /\ UNCHANGED vars

Init ==
  /\ column = 1 /\ stage = "fields" /\ input = {}
  /\ histogram = [c \in ColumnNames |-> Empty]
  /\ compared = NoComparison

Next == SetFields \/ ReadText \/ MakeBuckets \/ CompareWithBound \/ Done

Spec == Init /\ [][Next]_vars

-----------------------------------------------------------------------------
\* A column that identifies its rows has no buckets.
TypeOK ==
  /\ column \in 1..Len(Columns) + 1 /\ stage \in {"fields", "text", "buckets"}
  /\ \A c \in ColumnNames :
       /\ histogram[c].count \in Nat /\ histogram[c].bucketNum \in Nat
       /\ histogram[c].identifier => histogram[c].dataMap = {}

(***************************************************************************)
(* No two lines of a text get the same key, whichever of the three         *)
(* functions makes it: every line is a bucket.                             *)
(***************************************************************************)
NoBucketLost ==
  stage = "fields" /\ column > 1 /\ Columns[column - 1].to # "none" =>
    Cardinality(histogram[Columns[column - 1].to].dataMap) = Cardinality(input)

(***************************************************************************)
(* Every column a scan filter of the plans compares has a histogram when   *)
(* the program starts to serve: it has its own buckets, as many as its     *)
(* fields say, or identifies its rows.  And it is as FilterEstimate takes  *)
(* it: the buckets count the rows of the table, one in a thousand more or  *)
(* less, unless it is a column of customer.                                *)
(***************************************************************************)
OwnBuckets(c) ==
  /\ {[lo |-> b.lo, hi |-> b.hi] : b \in histogram[c].dataMap} = TextOf(c)
  /\ Cardinality(histogram[c].dataMap) = histogram[c].bucketNum

CountsItsTable(c) ==
  LET d == CHOOSE d \in ToSet(Columns) : d.column = c
      slack == histogram[c].count \div 1000
  IN  TextRows[d.table] - histogram[c].count \in -slack..slack

FilteredColumnsLoaded ==
  ~Loading /\ compared = NoComparison =>
    \A c \in Filtered :
      IF c \in Identifiers THEN histogram[c].identifier
      ELSE OwnBuckets(c) /\ (CountsItsTable(c) <=> c \notin Understated)

(***************************************************************************)
(* A bucket is taken for inside only if some of its values are, and for    *)
(* outside only if some are not: an estimate is off by at most the one     *)
(* bucket that holds the bound, although one function keys a bucket by its *)
(* lower bound and another by its upper, and dates go through dateToInt.   *)
(***************************************************************************)
SidesKept ==
  compared # NoComparison =>
    \A b \in histogram[compared.column].dataMap :
      \E v \in {b.lo, b.hi} : Passes(compared.op, v, compared.bound) <=> b \in compared.counted
=============================================================================
