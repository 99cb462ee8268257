------------------------- MODULE HistogramTableProofs -------------------------
(***************************************************************************)
(* Theorems about HistogramTable, for every bound a column may be compared *)
(* with and every catalogue of texts as its assumptions describe it.       *)
(***************************************************************************)
EXTENDS HistogramTable, FiniteSetTheorems, WellFoundedInduction, TLAPS

-----------------------------------------------------------------------------
(***************************************************************************)
(* The greatest element of a set of integers.                              *)
(***************************************************************************)
LEMMA Least ==
  ASSUME NEW T, T \subseteq Nat, T # {}
  PROVE  \E x \in T : \A y \in T : x <= y
<1>1. PICK x \in T : \A y \in T : ~ (<<y, x>> \in OpToRel(<, Nat))
  BY WFMin, NatLessThanWellFounded
<1>2. \A y \in T : <<y, x>> \in OpToRel(<, Nat) <=> y < x
  BY DEF OpToRel
<1>3. ASSUME NEW y \in T PROVE x <= y
  <2>1. ~ (y < x)
    BY <1>1, <1>2
  <2>2. x \in Nat /\ y \in Nat
    OBVIOUS
  <2> QED BY <2>1, <2>2
<1> QED BY <1>3

\* A set of integers between two bounds has a greatest element, and Max is it.
LEMMA Greatest ==
  ASSUME NEW a \in Int, NEW b \in Int, NEW S, S \subseteq a..b, S # {}
  PROVE  Max(S) \in S /\ \A y \in S : y <= Max(S)
<1> DEFINE T == {b - x : x \in S}
<1>1. T \subseteq Nat /\ T # {}
  <2>1. \A x \in S : b - x \in Nat
    OBVIOUS
  <2>2. T \subseteq Nat
    BY <2>1
  <2>3. PICK s \in S : TRUE
    OBVIOUS
  <2>4. b - s \in T
    BY <2>3
  <2> QED BY <2>2, <2>4
<1>2. PICK t \in T : \A u \in T : t <= u
  BY <1>1, Least
<1>3. PICK x \in S : t = b - x
  OBVIOUS
<1>4. ASSUME NEW y \in S PROVE x >= y
  <2>1. b - x <= b - y
    BY <1>2, <1>3
  <2>2. x \in Int /\ y \in Int
    OBVIOUS
  <2> QED BY <2>1, <2>2
<1>5. \A y \in S : Max(S) >= y
  BY <1>4 DEF Max
<1>6. Max(S) \in S
  BY <1>4 DEF Max
<1>7. \A y \in S : y \in Int
  OBVIOUS
<1> QED BY <1>5, <1>6, <1>7

-----------------------------------------------------------------------------
(***************************************************************************)
(* The calendar.                                                           *)
(***************************************************************************)
LEMMA Years ==
  /\ YearStart(1992) = 0 /\ YearStart(2000) = 2922
  /\ \A y \in 1992..1999 : /\ YearStart(y) \in Int
                           /\ YearStart(y + 1) = YearStart(y) + (IF y % 4 = 0 THEN 366 ELSE 365)
<1>1. YearStart(1992) = 0 /\ YearStart(2000) = 2922
  BY DEF YearStart
<1>2. \A y \in 1992..1999 : y \in {1992, 1993, 1994, 1995, 1996, 1997, 1998, 1999}
  OBVIOUS
<1>3. /\ YearStart(1993) = 366 /\ YearStart(1994) = 731 /\ YearStart(1995) = 1096 /\ YearStart(1996) = 1461
      /\ YearStart(1997) = 1827 /\ YearStart(1998) = 2192 /\ YearStart(1999) = 2557
  BY DEF YearStart
<1> QED
  BY <1>1, <1>2, <1>3

\* No month is longer than 31 days, and the last ends with its year.
LEMMA Months ==
  ASSUME NEW y \in 1992..1999
  PROVE  /\ MonthStart(y, 1) = YearStart(y)
         /\ \A m \in 1..12 : MonthStart(y, m) \in Int
         /\ \A m \in 1..11 : MonthStart(y, m + 1) <= MonthStart(y, m) + 31
         /\ YearStart(y + 1) = MonthStart(y, 12) + 31
<1>1. YearStart(y) \in Int /\ YearStart(y + 1) = YearStart(y) + (IF y % 4 = 0 THEN 366 ELSE 365)
  BY Years
<1> DEFINE leap == IF y % 4 = 0 THEN 1 ELSE 0
<1>2. /\ MonthStart(y, 1) = YearStart(y) /\ MonthStart(y, 2) = YearStart(y) + 31
      /\ MonthStart(y, 3) = YearStart(y) + 59 + leap /\ MonthStart(y, 4) = YearStart(y) + 90 + leap
      /\ MonthStart(y, 5) = YearStart(y) + 120 + leap /\ MonthStart(y, 6) = YearStart(y) + 151 + leap
      /\ MonthStart(y, 7) = YearStart(y) + 181 + leap /\ MonthStart(y, 8) = YearStart(y) + 212 + leap
      /\ MonthStart(y, 9) = YearStart(y) + 243 + leap /\ MonthStart(y, 10) = YearStart(y) + 273 + leap
      /\ MonthStart(y, 11) = YearStart(y) + 304 + leap /\ MonthStart(y, 12) = YearStart(y) + 334 + leap
  BY <1>1 DEF MonthStart
<1>3. leap \in 0..1
  OBVIOUS
<1>4. \A m \in 1..12 : m \in {1, 2, 3, 4, 5, 6, 7, 8, 9, 10, 11, 12}
  OBVIOUS
<1>5. \A m \in 1..11 : m \in {1, 2, 3, 4, 5, 6, 7, 8, 9, 10, 11}
  OBVIOUS
<1>6. YearStart(y + 1) = YearStart(y) + 365 + leap
  BY <1>1
<1> HIDE DEF leap
<1>7. \A m \in 1..12 : MonthStart(y, m) \in Int
  BY <1>1, <1>2, <1>3, <1>4
<1>8. \A m \in 1..11 : MonthStart(y, m + 1) <= MonthStart(y, m) + 31
  BY <1>1, <1>2, <1>3, <1>5
<1> QED
  BY <1>1, <1>2, <1>3, <1>6, <1>7, <1>8

YearOf(day) == Max({y \in 1992..1999 : YearStart(y) <= day})
MonthOf(day) == Max({m \in 1..12 : MonthStart(YearOf(day), m) <= day})

\* The date of a day.
LEMMA DateParts ==
  ASSUME NEW day \in Days
  PROVE  LET y == YearOf(day)
             m == MonthOf(day)
         IN  /\ y \in 1992..1999 /\ YearStart(y) <= day /\ \A z \in 1992..1999 : YearStart(z) <= day => z <= y
             /\ m \in 1..12 /\ MonthStart(y, m) <= day /\ \A n \in 1..12 : MonthStart(y, n) <= day => n <= m
             /\ day - MonthStart(y, m) + 1 \in 1..31
             /\ DateOf(day) = [year |-> y, month |-> m, day |-> day - MonthStart(y, m) + 1]
<1> DEFINE y == YearOf(day)
           m == MonthOf(day)
           Y == {z \in 1992..1999 : YearStart(z) <= day}
           M == {n \in 1..12 : MonthStart(y, n) <= day}
<1>1. day \in Int /\ 0 <= day /\ day < YearStart(2000)
  BY Years DEF Days
<1>2. Y \subseteq 1992..1999 /\ 1992 \in Y
  BY <1>1, Years
<1>3. y \in Y /\ \A z \in Y : z <= y
  BY <1>2, Greatest DEF YearOf
<1>4. day < YearStart(y + 1)
  <2>1. CASE y = 1999
    BY <1>1, <2>1
  <2>2. CASE y # 1999
    <3>1. y + 1 \in 1992..1999 /\ ~(y + 1 <= y)
      BY <1>3, <2>2
    <3>2. YearStart(y + 1) \in Int /\ ~(YearStart(y + 1) <= day)
      BY <1>3, <3>1, Years
    <3> QED BY <1>1, <3>2
  <2> QED BY <2>1, <2>2
<1>5. M \subseteq 1..12 /\ 1 \in M
  BY <1>3, Months
<1>6. m \in M /\ \A n \in M : n <= m
  BY <1>5, Greatest DEF MonthOf
<1>7. day < MonthStart(y, m) + 31
  <2>1. CASE m = 12
    BY <1>3, <1>4, <2>1, Months
  <2>2. CASE m # 12
    <3>1. m \in 1..11 /\ m + 1 \in 1..12 /\ ~(m + 1 <= m)
      BY <1>6, <2>2
    <3>2. MonthStart(y, m + 1) \in Int /\ MonthStart(y, m) \in Int /\ ~(MonthStart(y, m + 1) <= day)
      BY <1>3, <1>6, <3>1, Months
    <3>3. MonthStart(y, m + 1) <= MonthStart(y, m) + 31
      BY <1>3, <3>1, Months
    <3> QED BY <1>1, <3>2, <3>3
  <2> QED BY <2>1, <2>2
<1>8. day - MonthStart(y, m) + 1 \in 1..31
  <2>1. MonthStart(y, m) \in Int /\ MonthStart(y, m) <= day
    BY <1>3, <1>6, Months
  <2> QED BY <1>1, <1>7, <2>1
<1>9. DateOf(day) = [year |-> y, month |-> m, day |-> day - MonthStart(y, m) + 1]
  BY DEF DateOf, YearOf, MonthOf
<1> QED
  BY <1>3, <1>6, <1>8, <1>9

\* A later day has a greater number, in the program and in the snippet files.
LEMMA Later ==
  ASSUME NEW a \in Days, NEW b \in Days
  PROVE  /\ dateToInt(DateOf(a)) \in Int
         /\ SnippetDate(a) = dateToInt(DateOf(a))
         /\ a < b => dateToInt(DateOf(a)) < dateToInt(DateOf(b))
<1> DEFINE y == YearOf(a)
           m == MonthOf(a)
           d == a - MonthStart(y, m) + 1
           z == YearOf(b)
           n == MonthOf(b)
           e == b - MonthStart(z, n) + 1
<1>1. a \in Int /\ b \in Int
  BY Years DEF Days
<1>2. /\ y \in 1992..1999 /\ m \in 1..12 /\ d \in 1..31 /\ YearStart(y) <= a /\ MonthStart(y, m) <= a
      /\ z \in 1992..1999 /\ n \in 1..12 /\ e \in 1..31
      /\ \A w \in 1992..1999 : YearStart(w) <= b => w <= z
      /\ \A w \in 1..12 : MonthStart(z, w) <= b => w <= n
  BY DateParts
<1>3. /\ DateOf(a) = [year |-> y, month |-> m, day |-> d]
      /\ DateOf(b) = [year |-> z, month |-> n, day |-> e]
  BY DateParts
<1>4. YearStart(y) \in Int /\ MonthStart(y, m) \in Int
  BY <1>2, Years, Months
<1>5. a < b => y <= z
  BY <1>1, <1>2, <1>4
<1>6. a < b /\ y = z => m <= n
  <2> SUFFICES ASSUME a < b, y = z PROVE m <= n
    OBVIOUS
  <2>1. MonthStart(z, m) <= b
    BY <1>1, <1>2, <1>4
  <2> QED BY <1>2, <2>1
<1>7. a < b /\ y = z /\ m = n => d < e
  BY <1>1, <1>4
<1> HIDE DEF y, m, d, z, n, e
<1>8. /\ y \in Int /\ m \in Int /\ d \in Int /\ m \in 1..12 /\ d \in 1..31
      /\ z \in Int /\ n \in Int /\ e \in Int /\ n \in 1..12 /\ e \in 1..31
  BY <1>2
<1>9. /\ dateToInt(DateOf(a)) = y * 32 * 16 + m * 32 + d
      /\ dateToInt(DateOf(b)) = z * 32 * 16 + n * 32 + e
      /\ SnippetDate(a) = 512 * y + 32 * m + d
  BY <1>3 DEF dateToInt, SnippetDate
<1>10. y * 32 * 16 + m * 32 + d = 512 * y + 32 * m + d /\ 512 * y + 32 * m + d \in Int
  BY <1>8
<1>11. a < b => y * 32 * 16 + m * 32 + d < z * 32 * 16 + n * 32 + e
  <2>1. a < b => y < z \/ (y = z /\ m < n) \/ (y = z /\ m = n /\ d < e)
    BY <1>5, <1>6, <1>7, <1>8
  <2> QED BY <1>8, <2>1
<1> QED
  BY <1>9, <1>10, <1>11

\* dateToInt keeps the order of the days.
LEMMA DateOrder ==
  ASSUME NEW a \in Days, NEW b \in Days
  PROVE  /\ dateToInt(DateOf(a)) \in Int /\ a \in Int
         /\ SnippetDate(a) = dateToInt(DateOf(a))
         /\ dateToInt(DateOf(a)) < dateToInt(DateOf(b)) <=> a < b
<1>1. a \in Int /\ b \in Int
  BY Years DEF Days
<1>2. dateToInt(DateOf(a)) \in Int /\ dateToInt(DateOf(b)) \in Int /\ SnippetDate(a) = dateToInt(DateOf(a))
  BY Later
<1>3. a < b => dateToInt(DateOf(a)) < dateToInt(DateOf(b))
  BY Later
<1>4. b < a => dateToInt(DateOf(b)) < dateToInt(DateOf(a))
  BY Later
<1>5. a = b => dateToInt(DateOf(a)) = dateToInt(DateOf(b))
  OBVIOUS
<1> QED
  BY <1>1, <1>2, <1>3, <1>4, <1>5

\* A comparison of dates is the comparison of their days.
LEMMA DatesPass ==
  ASSUME NEW a \in Days, NEW b \in Days, NEW op \in {"GE", "GT", "LE", "LT"}
  PROVE  Passes(op, dateToInt(DateOf(a)), SnippetDate(b)) <=> Passes(op, a, b)
<1>1. /\ a \in Int /\ b \in Int
      /\ dateToInt(DateOf(a)) \in Int /\ dateToInt(DateOf(b)) \in Int
      /\ SnippetDate(b) = dateToInt(DateOf(b))
      /\ dateToInt(DateOf(a)) < dateToInt(DateOf(b)) <=> a < b
      /\ dateToInt(DateOf(b)) < dateToInt(DateOf(a)) <=> b < a
  BY DateOrder
<1> QED
  BY <1>1 DEF Passes

-----------------------------------------------------------------------------
(***************************************************************************)
(* The buckets made of a text.                                             *)
(***************************************************************************)
\* No two lines of a text that is assigned get one key.
LEMMA KeysApart ==
  ASSUME NEW d \in ToSet(Columns), d.to # "none", NEW l \in d.text, NEW n \in d.text, l # n
  PROVE  Key(d.make, l) # Key(d.make, n)
<1>1. /\ l.lo \in Int /\ l.hi \in Int /\ l.lo <= l.hi /\ n.lo \in Int /\ n.hi \in Int /\ n.lo <= n.hi
      /\ l.hi < n.lo \/ n.hi < l.lo
      /\ d.make = "makeDataMapDate" => l.hi \in Days /\ n.hi \in Days
      /\ d.make \in {"makeDataMap", "makeDataMapFloat", "makeDataMapDate"}
  BY TextsAssumption
<1>2. l.lo # n.lo /\ l.hi # n.hi
  BY <1>1
<1>3. CASE d.make = "makeDataMap"
  BY <1>2, <1>3 DEF Key
<1>4. CASE d.make = "makeDataMapFloat"
  BY <1>2, <1>4 DEF Key
<1>5. CASE d.make = "makeDataMapDate"
  <2>1. l.hi \in Days /\ n.hi \in Days
    BY <1>1, <1>5
  <2>2. l.hi < n.hi \/ n.hi < l.hi
    BY <1>1
  <2>3. /\ dateToInt(DateOf(l.hi)) \in Int /\ dateToInt(DateOf(n.hi)) \in Int
        /\ \/ dateToInt(DateOf(l.hi)) < dateToInt(DateOf(n.hi))
           \/ dateToInt(DateOf(n.hi)) < dateToInt(DateOf(l.hi))
    BY <2>1, <2>2, DateOrder
  <2>4. Key(d.make, l) = dateToInt(DateOf(l.hi)) /\ Key(d.make, n) = dateToInt(DateOf(n.hi))
    BY <1>5 DEF Key
  <2> QED BY <2>3, <2>4
<1> QED
  BY <1>1, <1>3, <1>4, <1>5

\* Whatever the keys: what is in the map was made of a line.
LEMMA MadeOfLines ==
  ASSUME NEW make, NEW lines, NEW b \in DataMap(make, lines)
  PROVE  b \in Buckets(make, lines)
<1> DEFINE all == Buckets(make, lines)
<1>1. PICK k \in {c.key : c \in all} : b = CHOOSE c \in {c \in all : c.key = k} : TRUE
  BY DEF DataMap
<1>2. {c \in all : c.key = k} # {}
  BY <1>1
<1> HIDE DEF all
<1>3. b \in {c \in all : c.key = k}
  BY <1>1, <1>2
<1> QED
  BY <1>3 DEF all

\* With no key twice every line has its bucket.
LEMMA EveryLine ==
  ASSUME NEW make, NEW lines, IsFiniteSet(lines),
         \A l, n \in lines : l # n => Key(make, l) # Key(make, n)
  PROVE  /\ Cardinality(DataMap(make, lines)) = Cardinality(lines)
         /\ DataMap(make, lines) = Buckets(make, lines)
<1> DEFINE all == Buckets(make, lines)
           bucket(l) == [key |-> Key(make, l), lo |-> l.lo, hi |-> l.hi]
           f == [l \in lines |-> bucket(l)]
<1>1. all = {bucket(l) : l \in lines}
  BY DEF Buckets
<1>2. \A l : bucket(l).key = Key(make, l)
  OBVIOUS
<1>3. ASSUME NEW l \in lines PROVE bucket(l) \in DataMap(make, lines)
  <2> DEFINE S == {c \in all : c.key = Key(make, l)}
  <2>1. bucket(l) \in all
    BY <1>1
  <2>2. S = {bucket(l)}
    <3>1. bucket(l) \in S
      BY <1>2, <2>1
    <3>2. ASSUME NEW c \in S PROVE c = bucket(l)
      <4>1. PICK n \in lines : c = bucket(n)
        BY <1>1
      <4>2. Key(make, n) = Key(make, l)
        BY <1>2, <4>1
      <4> QED BY <4>1, <4>2
    <3> QED BY <3>1, <3>2
  <2>3. (CHOOSE c \in S : TRUE) = bucket(l)
    BY <2>2
  <2>4. Key(make, l) \in {c.key : c \in all}
    BY <1>2, <2>1
  <2> QED BY <2>3, <2>4 DEF DataMap
<1>4. \A b \in DataMap(make, lines) : \E l \in lines : b = bucket(l)
  BY <1>1, MadeOfLines
<1>5. \A l, n \in lines : bucket(l) = bucket(n) => l = n
  BY <1>2
<1>7. DataMap(make, lines) = Buckets(make, lines)
  BY <1>1, <1>3, <1>4
<1> HIDE DEF bucket, all
<1>6. f \in Bijection(lines, DataMap(make, lines))
  BY <1>3, <1>4, <1>5 DEF Bijection, Injection, Surjection, IsInjective
<1> QED
  BY <1>6, <1>7, FS_Bijection DEF ExistsBijection

-----------------------------------------------------------------------------
(***************************************************************************)
(* The columns one by one.  When buckets are made, input is the text read  *)
(* for the same column; every bucket was made of a line of a text that is  *)
(* assigned to its column; and a comparison is one with the map as it is.  *)
(***************************************************************************)
MadeFor(c, b) == \E d \in ToSet(Columns) : d.to = c /\ b \in Buckets(d.make, d.text)

Comparison ==
  \E c \in WithBound, op \in {"GE", "LE", "GT", "LT"} : \E bound \in Bounds(c) :
    compared = [column |-> c, op |-> op, bound |-> bound,
                counted |-> {b \in histogram[c].dataMap : Passes(op, b.key, Operand(c, bound))}]

LoadInv ==
  /\ column \in 1..Len(Columns) + 1 /\ stage \in {"fields", "text", "buckets"}
  /\ stage # "fields" => Loading
  /\ stage = "buckets" => Here.to # "none" /\ input = Here.text
  /\ DOMAIN histogram = ColumnNames
  /\ \A c \in ColumnNames : DOMAIN histogram[c] = {"identifier", "count", "bucketNum", "dataMap"}

BucketsInv == \A c \in ColumnNames : \A b \in histogram[c].dataMap : MadeFor(c, b)

ComparedInv == compared = NoComparison \/ (~Loading /\ Comparison)

HistInv == LoadInv /\ BucketsInv /\ NoBucketLost /\ ComparedInv

\* At first no column has a bucket.
LEMMA HistInit == Init => HistInv
<1> SUFFICES ASSUME Init PROVE HistInv
  OBVIOUS
<1>1. Len(Columns) \in Nat
  BY CatalogueAssumption
<1>2. LoadInv
  BY <1>1 DEF Init, LoadInv, Empty
<1>3. BucketsInv
  BY DEF Init, BucketsInv, Empty
<1>4. NoBucketLost
  BY DEF Init, NoBucketLost
<1> QED
  BY <1>2, <1>3, <1>4 DEF HistInv, ComparedInv, Init

\* Where GoOn goes: on with the column, or to the next one.
LEMMA GoesOn ==
  ASSUME LoadInv, Loading, NEW from \in {"fields", "text", "buckets"}, GoOn(from)
  PROVE  /\ Here \in ToSet(Columns) /\ column \in 1..Len(Columns) /\ Len(Columns) \in Nat
         /\ compared' = compared
         /\ \/ /\ column' = column + 1 /\ stage' = "fields"
               /\ from = "fields" => Here.text = {}
               /\ from = "text" => Here.to = "none"
            \/ column' = column /\ from = "fields" /\ stage' = "text"
            \/ column' = column /\ from = "text" /\ stage' = "buckets" /\ Here.to # "none"
<1>1. column \in 1..Len(Columns) /\ Len(Columns) \in Nat /\ DOMAIN Columns = 1..Len(Columns)
  BY CatalogueAssumption DEF LoadInv, Loading
<1>2. Here \in ToSet(Columns)
  BY <1>1 DEF Here, ToSet
<1>3. compared' = compared
  BY DEF GoOn
<1>4. CASE from = "fields"
  <2>1. /\ column' = IF Here.text # {} THEN column ELSE column + 1
        /\ stage' = IF Here.text = {} THEN "fields" ELSE "text"
    BY <1>4, Zenon DEF GoOn
  <2>2. CASE Here.text = {}
    BY <1>1, <1>2, <1>3, <1>4, <2>1, <2>2
  <2>3. CASE Here.text # {}
    BY <1>1, <1>2, <1>3, <1>4, <2>1, <2>3
  <2> QED BY <2>2, <2>3
<1>5. CASE from = "text"
  BY <1>1, <1>2, <1>3, <1>5 DEF GoOn
<1>6. CASE from = "buckets"
  BY <1>1, <1>2, <1>3, <1>6 DEF GoOn
<1> QED
  BY <1>4, <1>5, <1>6

\* The same for all three steps that load.
LEMMA Loads ==
  ASSUME HistInv, Loading, NEW from \in {"fields", "text", "buckets"}, GoOn(from),
         from = "text" => input' = Here.text,
         DOMAIN histogram' = ColumnNames,
         \A c \in ColumnNames : DOMAIN histogram'[c] = {"identifier", "count", "bucketNum", "dataMap"}
  PROVE  LoadInv' /\ ComparedInv'
<1>1. LoadInv /\ ComparedInv
  BY DEF HistInv
<1>2. /\ column \in 1..Len(Columns) /\ Len(Columns) \in Nat /\ compared' = compared
      /\ \/ column' = column + 1 /\ stage' = "fields"
         \/ column' = column /\ from = "fields" /\ stage' = "text"
         \/ column' = column /\ from = "text" /\ stage' = "buckets" /\ Here.to # "none"
  BY <1>1, GoesOn
<1>3. compared' = NoComparison
  BY <1>1, <1>2 DEF ComparedInv
<1>4. column' \in 1..Len(Columns) + 1 /\ stage' \in {"fields", "text", "buckets"}
  BY <1>2
<1>5. stage' # "fields" => Loading' /\ Here' = Here
  BY <1>2 DEF Loading, Here
<1>6. stage' = "buckets" => Here'.to # "none" /\ input' = Here'.text
  BY <1>2, <1>5
<1>7. LoadInv'
  BY <1>4, <1>5, <1>6 DEF LoadInv
<1> QED
  BY <1>3, <1>7 DEF ComparedInv

\* Setting the fields of a column leaves its buckets.
LEMMA HistSetFields == HistInv /\ SetFields => HistInv'
<1> SUFFICES ASSUME HistInv, SetFields PROVE HistInv'
  OBVIOUS
<1>1. LoadInv /\ BucketsInv /\ Loading /\ GoOn("fields")
  BY DEF HistInv, SetFields
<1>2. /\ DOMAIN histogram' = ColumnNames
      /\ \A c \in ColumnNames : /\ DOMAIN histogram'[c] = {"identifier", "count", "bucketNum", "dataMap"}
                                /\ histogram'[c].dataMap = histogram[c].dataMap
  BY <1>1 DEF SetFields, LoadInv
<1>3. LoadInv' /\ ComparedInv'
  BY <1>1, <1>2, Loads
<1>4. BucketsInv'
  BY <1>1, <1>2 DEF BucketsInv, MadeFor
<1>5. NoBucketLost'
  <2>1. /\ column \in Nat /\ Here \in ToSet(Columns)
        /\ \/ column' = column + 1 /\ Here.text = {}
           \/ stage' = "text"
    BY <1>1, GoesOn
  <2>2. Here.text = {} => Here.to = "none"
    BY <2>1, CatalogueAssumption
  <2>3. column' = column + 1 => Columns[column' - 1] = Here
    BY <2>1 DEF Here
  <2> QED BY <2>1, <2>2, <2>3 DEF NoBucketLost
<1> QED
  BY <1>3, <1>4, <1>5 DEF HistInv

\* The text read is that of the column.
LEMMA HistReadText == HistInv /\ ReadText => HistInv'
<1> SUFFICES ASSUME HistInv, ReadText PROVE HistInv'
  OBVIOUS
<1>1. LoadInv /\ BucketsInv /\ Loading /\ GoOn("text") /\ input' = Here.text /\ histogram' = histogram
  BY DEF HistInv, ReadText
<1>2. LoadInv' /\ ComparedInv'
  BY <1>1, Loads DEF LoadInv
<1>3. BucketsInv'
  BY <1>1 DEF BucketsInv, MadeFor
<1>4. NoBucketLost'
  <2>1. /\ column \in Nat
        /\ \/ column' = column + 1 /\ Here.to = "none"
           \/ stage' = "buckets"
    BY <1>1, GoesOn
  <2>2. column' = column + 1 => Columns[column' - 1] = Here
    BY <2>1 DEF Here
  <2> QED BY <2>1, <2>2 DEF NoBucketLost
<1> QED
  BY <1>2, <1>3, <1>4 DEF HistInv

\* The buckets made are those of the text, one per line.
LEMMA HistMakeBuckets == HistInv /\ MakeBuckets => HistInv'
<1> SUFFICES ASSUME HistInv, MakeBuckets PROVE HistInv'
  OBVIOUS
<1>1. /\ LoadInv /\ BucketsInv /\ Loading /\ GoOn("buckets") /\ input' = input
      /\ input = Here.text /\ Here.to # "none"
  BY DEF HistInv, MakeBuckets, LoadInv
<1>2. /\ column \in Nat /\ Here \in ToSet(Columns) /\ column' = column + 1 /\ Here.to \in ColumnNames
  BY <1>1, GoesOn, CatalogueAssumption
<1>3. /\ DOMAIN histogram' = ColumnNames
      /\ \A c \in ColumnNames :
           /\ DOMAIN histogram'[c] = {"identifier", "count", "bucketNum", "dataMap"}
           /\ histogram'[c].dataMap = IF c = Here.to THEN DataMap(Here.make, Here.text) ELSE histogram[c].dataMap
  BY <1>1, <1>2 DEF MakeBuckets, LoadInv
<1>4. LoadInv' /\ ComparedInv'
  BY <1>1, <1>3, Loads
<1>5. BucketsInv'
  <2>1. \A b \in DataMap(Here.make, Here.text) : MadeFor(Here.to, b)
    BY <1>2, MadeOfLines DEF MadeFor
  <2> QED BY <1>1, <1>3, <2>1 DEF BucketsInv, MadeFor
<1>6. NoBucketLost'
  <2>1. Columns[column' - 1] = Here
    BY <1>2 DEF Here
  <2>2. IsFiniteSet(Here.text)
    BY <1>2, TextsAssumption
  <2>3. \A l, n \in Here.text : l # n => Key(Here.make, l) # Key(Here.make, n)
    BY <1>1, <1>2, KeysApart
  <2>4. Cardinality(DataMap(Here.make, Here.text)) = Cardinality(Here.text)
    BY <2>2, <2>3, EveryLine
  <2> QED BY <1>1, <1>2, <1>3, <2>1, <2>4 DEF NoBucketLost
<1> QED
  BY <1>4, <1>5, <1>6 DEF HistInv

\* A comparison counts buckets of a column that has been loaded.
LEMMA HistCompare == HistInv /\ (CompareWithBound \/ UNCHANGED vars) => HistInv'
<1> SUFFICES ASSUME HistInv, CompareWithBound \/ UNCHANGED vars PROVE HistInv'
  OBVIOUS
<1>1. UNCHANGED <<column, stage, input, histogram>>
  BY DEF CompareWithBound, vars
<1>2. LoadInv' /\ BucketsInv' /\ NoBucketLost'
  BY <1>1 DEF HistInv, LoadInv, Loading, Here, BucketsInv, MadeFor, NoBucketLost
<1>3. CASE CompareWithBound
  <2>1. ~Loading' /\ Comparison'
    BY <1>1, <1>3 DEF CompareWithBound, Comparison, Loading
  <2> QED BY <1>2, <2>1 DEF HistInv, ComparedInv
<1>4. CASE UNCHANGED vars
  <2>1. ComparedInv'
    BY <1>1, <1>4 DEF HistInv, ComparedInv, Comparison, Loading, vars
  <2> QED BY <1>2, <2>1 DEF HistInv
<1> QED
  BY <1>3, <1>4

\* HistInv survives every step.
LEMMA HistStep == HistInv /\ [Next]_vars => HistInv'
BY HistSetFields, HistReadText, HistMakeBuckets, HistCompare DEF Next, Done

\* Any map there ever is has a bucket for every line of its column's text.
THEOREM EveryLineABucket == Spec => []NoBucketLost
<1>1. HistInv => NoBucketLost
  BY DEF HistInv
<1> QED
  BY <1>1, HistInit, HistStep, PTL DEF Spec

\* A bound is one of a line of the column's own text.
LEMMA BoundsOf ==
  ASSUME NEW c \in WithBound, NEW bound \in Bounds(c)
  PROVE  c \in Dates => bound \in Days
<1>1. \E d \in ToSet(Columns) : d.column = c
  BY CatalogueAssumption
<1>2. PICK d \in ToSet(Columns) : d.column = c /\ TextOf(c) = d.text
  BY <1>1 DEF TextOf
<1> QED
  BY <1>2, TextsAssumption DEF Bounds

\* The side a bucket is counted on is the side of one of its own bounds: of the
\* upper bound for dates and what makeDataMapFloat reads, of the lower otherwise.
LEMMA SidesOfKeys == HistInv => SidesKept
<1> SUFFICES ASSUME HistInv, compared # NoComparison, NEW b \in histogram[compared.column].dataMap
             PROVE  \E v \in {b.lo, b.hi} : Passes(compared.op, v, compared.bound) <=> b \in compared.counted
  BY DEF SidesKept
<1>1. PICK c \in WithBound, op \in {"GE", "LE", "GT", "LT"} : \E bound \in Bounds(c) :
        compared = [column |-> c, op |-> op, bound |-> bound,
                    counted |-> {e \in histogram[c].dataMap : Passes(op, e.key, Operand(c, bound))}]
  BY DEF HistInv, ComparedInv, Comparison
<1>2. PICK bound \in Bounds(c) :
        compared = [column |-> c, op |-> op, bound |-> bound,
                    counted |-> {e \in histogram[c].dataMap : Passes(op, e.key, Operand(c, bound))}]
  BY <1>1
<1>3. /\ compared.column = c /\ compared.op = op /\ compared.bound = bound
      /\ b \in histogram[c].dataMap
      /\ b \in compared.counted <=> Passes(op, b.key, Operand(c, bound))
  BY <1>2
<1>4. c \in ColumnNames
  BY CatalogueAssumption DEF ColumnNames
<1>5. PICK d \in ToSet(Columns) : d.to = c /\ b \in Buckets(d.make, d.text)
  BY <1>3, <1>4 DEF HistInv, BucketsInv, MadeFor
<1>6. PICK l \in d.text : b = [key |-> Key(d.make, l), lo |-> l.lo, hi |-> l.hi]
  BY <1>5 DEF Buckets
<1>7. b.key = Key(d.make, l) /\ b.lo = l.lo /\ b.hi = l.hi
  BY <1>6
<1>8. CASE c \in Dates
  <2>1. d.make = "makeDataMapDate" /\ l.hi \in Days /\ bound \in Days
    BY <1>5, <1>8, BoundsOf, TextsAssumption
  <2>2. Operand(c, bound) = SnippetDate(bound) /\ b.key = dateToInt(DateOf(b.hi))
    BY <1>7, <1>8, <2>1 DEF Operand, Key
  <2>3. Passes(op, b.key, Operand(c, bound)) <=> Passes(op, b.hi, bound)
    BY <1>7, <2>1, <2>2, DatesPass
  <2> QED BY <1>3, <2>3
<1>9. CASE c \notin Dates
  <2>1. d.make \in {"makeDataMap", "makeDataMapFloat"}
    BY <1>4, <1>5, <1>9, CatalogueAssumption, TextsAssumption
  <2>2. Operand(c, bound) = bound /\ b.key \in {b.lo, b.hi}
    BY <1>7, <1>9, <2>1 DEF Operand, Key
  <2> QED BY <1>3, <2>2
<1> QED
  BY <1>8, <1>9

\* Whatever the bound a column is compared with: no bucket is counted that has no
\* value on the side asked for, and none is left out that has no value on the other.
THEOREM Sides == Spec => []SidesKept
BY HistInit, HistStep, SidesOfKeys, PTL DEF Spec

-----------------------------------------------------------------------------
(***************************************************************************)
(* What the loading leaves behind.  The columns before the one where       *)
(* InitHistogram is have their fields, and the buckets of their text if no *)
(* other text is assigned to the same column; nothing that comes later     *)
(* takes them away.                                                        *)
(***************************************************************************)
FieldsOf(d) ==
  /\ histogram[d.column].identifier = d.identifier
  /\ histogram[d.column].count = TableRows[d.table]
  /\ histogram[d.column].bucketNum = d.bucketNum

Sole(d) == d.to # "none" /\ \A e \in ToSet(Columns) : e.to = d.to => e = d

Filled(d) == Sole(d) => histogram[d.to].dataMap = DataMap(d.make, d.text)

LeftBehind ==
  /\ \A k \in 1..column - 1 : FieldsOf(Columns[k]) /\ Filled(Columns[k])
  /\ stage # "fields" => FieldsOf(Here)

FieldsInv ==
  \A c \in ColumnNames :
    /\ histogram[c].count \in Nat /\ histogram[c].bucketNum \in Nat
    /\ histogram[c].identifier => \E d \in ToSet(Columns) : d.column = c /\ d.identifier

LoadedInv == HistInv /\ LeftBehind /\ FieldsInv

\* At first there is nothing behind.
LEMMA LoadedInit == Init => LoadedInv
<1> SUFFICES ASSUME Init PROVE LoadedInv
  OBVIOUS
<1>1. HistInv
  BY HistInit
<1>2. LeftBehind
  BY DEF Init, LeftBehind
<1>3. FieldsInv
  BY DEF Init, FieldsInv, Empty
<1> QED
  BY <1>1, <1>2, <1>3 DEF LoadedInv

\* A step on h, the column it is at, leaves h as it should be and the others as they were.
LEMMA OneBehind ==
  ASSUME LoadInv, Loading, LeftBehind, NEW h, h = Here, FieldsOf(h)',
         \A d \in ToSet(Columns) : (FieldsOf(d) => FieldsOf(d)') /\ (Filled(d) => Filled(d)'),
         \/ column' = column
         \/ column' = column + 1 /\ stage' = "fields" /\ Filled(h)'
  PROVE  LeftBehind'
<1>1. /\ column \in 1..Len(Columns) /\ Len(Columns) \in Nat
      /\ \A k \in 1..Len(Columns) : Columns[k] \in ToSet(Columns)
  BY CatalogueAssumption DEF LoadInv, Loading, ToSet
<1>2. h = Columns[column]
  BY DEF Here
<1>3. \A k \in 1..column - 1 : FieldsOf(Columns[k])' /\ Filled(Columns[k])'
  <2> SUFFICES ASSUME NEW k \in 1..column - 1 PROVE FieldsOf(Columns[k])' /\ Filled(Columns[k])'
    OBVIOUS
  <2>1. PICK d : d = Columns[k]
    OBVIOUS
  <2>2. d \in ToSet(Columns) /\ FieldsOf(d) /\ Filled(d)
    BY <1>1, <2>1 DEF LeftBehind
  <2>3. FieldsOf(d)' /\ Filled(d)'
    BY <2>2
  <2> QED BY <2>1, <2>3, Zenon
<1>4. CASE column' = column
  <2>1. Here' = h
    BY <1>2, <1>4 DEF Here
  <2>2. FieldsOf(Here)'
    BY <2>1 DEF FieldsOf
  <2> QED BY <1>3, <1>4, <2>2 DEF LeftBehind
<1>5. CASE column' = column + 1 /\ stage' = "fields" /\ Filled(h)'
  <2>1. ASSUME NEW k \in 1..column' - 1 PROVE FieldsOf(Columns[k])' /\ Filled(Columns[k])'
    <3>1. k \in 1..column - 1 \/ k = column
      BY <1>1, <1>5
    <3>2. PICK d : d = Columns[k]
      OBVIOUS
    <3>3. k = column => d = h
      BY <1>2, <3>2
    <3>4. d = h => FieldsOf(d)' /\ Filled(d)'
      BY <1>5, Zenon
    <3> QED BY <1>3, <3>1, <3>2, <3>3, <3>4, Zenon
  <2> QED BY <1>5, <2>1 DEF LeftBehind
<1> QED
  BY <1>4, <1>5

\* The fields set are those of the one column of that name, and no buckets change.
LEMMA LoadedSetFields ==
  ASSUME ColumnsFit, LoadedInv, SetFields
  PROVE  LeftBehind' /\ FieldsInv'
<1>1. LoadInv /\ LeftBehind /\ FieldsInv /\ Loading /\ GoOn("fields")
  BY DEF LoadedInv, HistInv, SetFields
<1>2. /\ Here \in ToSet(Columns)
      /\ \/ column' = column + 1 /\ stage' = "fields" /\ Here.text = {}
         \/ column' = column
  BY <1>1, GoesOn
<1>3. PICK h \in ToSet(Columns) : h = Here
  BY <1>2
<1>4. h.column \in ColumnNames
  BY DEF ColumnNames
<1>5. /\ histogram'[h.column].identifier = h.identifier
      /\ histogram'[h.column].count = TableRows[h.table]
      /\ histogram'[h.column].bucketNum = h.bucketNum
      /\ \A c \in ColumnNames : /\ histogram'[c].dataMap = histogram[c].dataMap
                                /\ c # h.column => histogram'[c] = histogram[c]
  BY <1>1, <1>3, <1>4 DEF SetFields, LoadInv
<1>6. \A d \in ToSet(Columns) : d.column \in ColumnNames /\ (d.to # "none" => d.to \in ColumnNames)
  BY CatalogueAssumption DEF ColumnNames
<1>7. FieldsOf(h)'
  BY <1>5 DEF FieldsOf
<1>8. ASSUME NEW d \in ToSet(Columns), FieldsOf(d) PROVE FieldsOf(d)'
  <2>1. CASE d.column = h.column
    <3>1. d = h
      BY <2>1 DEF ColumnsFit
    <3> QED BY <1>7, <3>1, Zenon
  <2>2. CASE d.column # h.column
    BY <1>5, <1>6, <1>8, <2>2 DEF FieldsOf
  <2> QED BY <2>1, <2>2
<1>9. ASSUME NEW d \in ToSet(Columns), Filled(d) PROVE Filled(d)'
  BY <1>5, <1>6, <1>9 DEF Filled, Sole
<1>10. Here.text = {} => Filled(h)'
  <2>1. Here.text = {} => h.to = "none"
    BY <1>3, CatalogueAssumption
  <2> QED BY <2>1 DEF Filled, Sole
<1>11. LeftBehind'
  BY <1>1, <1>2, <1>3, <1>7, <1>8, <1>9, <1>10, OneBehind
<1>12. TableRows[h.table] \in Nat /\ h.bucketNum \in Nat
  BY DEF ColumnsFit
<1>13. FieldsInv'
  BY <1>1, <1>5, <1>12 DEF FieldsInv
<1> QED
  BY <1>11, <1>13

\* Reading a text changes no column.
LEMMA LoadedReadText ==
  ASSUME LoadedInv, ReadText
  PROVE  LeftBehind' /\ FieldsInv'
<1>1. /\ LoadInv /\ LeftBehind /\ FieldsInv /\ Loading /\ GoOn("text") /\ stage = "text"
      /\ histogram' = histogram
  BY DEF LoadedInv, HistInv, ReadText
<1>2. /\ Here \in ToSet(Columns)
      /\ \/ column' = column + 1 /\ stage' = "fields" /\ Here.to = "none"
         \/ column' = column
  BY <1>1, GoesOn
<1>3. PICK h \in ToSet(Columns) : h = Here
  BY <1>2
<1>4. \A d \in ToSet(Columns) : (FieldsOf(d) => FieldsOf(d)') /\ (Filled(d) => Filled(d)')
  BY <1>1 DEF FieldsOf, Filled, Sole
<1>5. FieldsOf(h)'
  BY <1>1, <1>3, <1>4 DEF LeftBehind
<1>6. Here.to = "none" => Filled(h)'
  BY <1>3 DEF Filled, Sole
<1>7. LeftBehind'
  BY <1>1, <1>2, <1>3, <1>4, <1>5, <1>6, OneBehind
<1> QED
  BY <1>1, <1>7 DEF FieldsInv

\* The buckets made go to one column, and are all it has if no other text is assigned to it.
LEMMA LoadedMakeBuckets ==
  ASSUME LoadedInv, MakeBuckets
  PROVE  LeftBehind' /\ FieldsInv'
<1>1. /\ LoadInv /\ LeftBehind /\ FieldsInv /\ Loading /\ GoOn("buckets") /\ stage = "buckets"
      /\ input = Here.text /\ Here.to # "none"
  BY DEF LoadedInv, HistInv, MakeBuckets, LoadInv
<1>2. Here \in ToSet(Columns) /\ column' = column + 1 /\ stage' = "fields"
  BY <1>1, GoesOn
<1>3. PICK h \in ToSet(Columns) : h = Here
  BY <1>2
<1>4. \A d \in ToSet(Columns) : d.column \in ColumnNames /\ (d.to # "none" => d.to \in ColumnNames)
  BY CatalogueAssumption DEF ColumnNames
<1>5. \A c \in ColumnNames :
        /\ histogram'[c].identifier = histogram[c].identifier
        /\ histogram'[c].count = histogram[c].count
        /\ histogram'[c].bucketNum = histogram[c].bucketNum
        /\ histogram'[c].dataMap = IF c = h.to THEN DataMap(h.make, h.text) ELSE histogram[c].dataMap
  BY <1>1, <1>3, <1>4 DEF MakeBuckets, LoadInv
<1>6. \A d \in ToSet(Columns) : FieldsOf(d) => FieldsOf(d)'
  BY <1>4, <1>5 DEF FieldsOf
<1>7. FieldsOf(h)'
  BY <1>1, <1>3, <1>6 DEF LeftBehind
<1>8. Filled(h)'
  BY <1>1, <1>3, <1>4, <1>5 DEF Filled
<1>9. ASSUME NEW d \in ToSet(Columns), Filled(d) PROVE Filled(d)'
  <2>1. CASE Sole(d) /\ d.to = h.to
    <3>1. d = h
      BY <2>1 DEF Sole
    <3> QED BY <1>8, <3>1, Zenon
  <2>2. CASE Sole(d) /\ d.to # h.to
    <3>1. histogram'[d.to].dataMap = histogram[d.to].dataMap
      BY <1>4, <1>5, <2>2 DEF Sole
    <3> QED BY <1>9, <3>1 DEF Filled, Sole
  <2>3. CASE ~Sole(d)
    BY <2>3 DEF Filled, Sole
  <2> QED BY <2>1, <2>2, <2>3
<1>10. LeftBehind'
  BY <1>1, <1>2, <1>3, <1>6, <1>7, <1>8, <1>9, OneBehind
<1>11. FieldsInv'
  BY <1>1, <1>5 DEF FieldsInv
<1> QED
  BY <1>10, <1>11

\* LoadedInv survives every step.
LEMMA LoadedStep == ColumnsFit /\ LoadedInv /\ [Next]_vars => LoadedInv'
<1> SUFFICES ASSUME ColumnsFit, LoadedInv, [Next]_vars PROVE LoadedInv'
  OBVIOUS
<1>1. HistInv'
  BY HistStep DEF LoadedInv
<1>2. CASE CompareWithBound \/ UNCHANGED vars
  <2>1. UNCHANGED <<column, stage, histogram>>
    BY <1>2 DEF CompareWithBound, vars
  <2>2. LeftBehind' /\ FieldsInv'
    BY <2>1 DEF LoadedInv, LeftBehind, FieldsInv, FieldsOf, Filled, Sole, Here
  <2> QED BY <1>1, <2>2 DEF LoadedInv
<1> QED
  BY <1>1, <1>2, LoadedSetFields, LoadedReadText, LoadedMakeBuckets DEF LoadedInv, Next, Done

\* Of every catalogue that names a column once and gives no text to one that identifies its
\* rows: the histograms are well-formed at all times, and a column that identifies its rows
\* never has a bucket, of whichever column the buckets are made.
THEOREM HistogramTypes ==
  ASSUME ColumnsFit
  PROVE  Spec => []TypeOK
<1>1. LoadedInv => TypeOK
  <2> SUFFICES ASSUME LoadedInv PROVE TypeOK
    OBVIOUS
  <2>1. LoadInv /\ BucketsInv /\ FieldsInv
    BY DEF LoadedInv, HistInv
  <2>2. ASSUME NEW c \in ColumnNames, histogram[c].identifier PROVE histogram[c].dataMap = {}
    <3>1. PICK d \in ToSet(Columns) : d.column = c /\ d.identifier
      BY <2>1, <2>2 DEF FieldsInv
    <3>2. \A b \in histogram[c].dataMap : \E e \in ToSet(Columns) : e.to = c
      BY <2>1 DEF BucketsInv, MadeFor
    <3> QED BY <3>1, <3>2 DEF ColumnsFit
  <2> QED BY <2>1, <2>2 DEF TypeOK, LoadInv, FieldsInv
<1> QED
  BY <1>1, LoadedInit, LoadedStep, PTL DEF Spec

\* The buckets made of a text's lines have the ranges of the lines.
LEMMA RangesKept ==
  ASSUME NEW d \in ToSet(Columns), d.to # "none"
  PROVE  /\ {[lo |-> b.lo, hi |-> b.hi] : b \in DataMap(d.make, d.text)} = d.text
         /\ Cardinality(DataMap(d.make, d.text)) = Cardinality(d.text)
<1> DEFINE bucket(l) == [key |-> Key(d.make, l), lo |-> l.lo, hi |-> l.hi]
           ranges == {[lo |-> b.lo, hi |-> b.hi] : b \in DataMap(d.make, d.text)}
<1>1. IsFiniteSet(d.text) /\ \A l \in d.text : l \in [lo : Int, hi : Int]
  BY TextsAssumption
<1>2. /\ Cardinality(DataMap(d.make, d.text)) = Cardinality(d.text)
      /\ DataMap(d.make, d.text) = Buckets(d.make, d.text)
  <2>1. \A l, n \in d.text : l # n => Key(d.make, l) # Key(d.make, n)
    BY KeysApart
  <2> QED BY <1>1, <2>1, EveryLine
<1>3. DataMap(d.make, d.text) = {bucket(l) : l \in d.text}
  BY <1>2 DEF Buckets
<1>4. \A l \in d.text : l = [lo |-> bucket(l).lo, hi |-> bucket(l).hi]
  BY <1>1
<1>5. \A l \in d.text : bucket(l) \in DataMap(d.make, d.text)
  BY <1>3
<1>6. \A b \in DataMap(d.make, d.text) : \E l \in d.text : b = bucket(l)
  BY <1>3
<1> HIDE DEF bucket
<1>7. d.text \subseteq ranges
  BY <1>4, <1>5
<1>8. ranges \subseteq d.text
  BY <1>4, <1>6
<1> QED
  BY <1>2, <1>7, <1>8

\* Of every catalogue that says of each filtered column that it identifies its rows, or gives
\* it a text of its own of as many lines as its fields say: when the loading is over each has
\* its own buckets, as many as its fields say, or none, and counts its table as the model of
\* the filters takes it, whatever columns come before and after.
THEOREM FilteredLoaded ==
  ASSUME ColumnsFit, FilteredFit(Identifiers, Understated)
  PROVE  Spec => []FilteredColumnsLoaded
<1>1. LoadedInv => FilteredColumnsLoaded
  <2> SUFFICES ASSUME LoadedInv, ~Loading, NEW c \in Filtered
               PROVE  IF c \in Identifiers THEN histogram[c].identifier
                      ELSE OwnBuckets(c) /\ (CountsItsTable(c) <=> c \notin Understated)
    BY DEF FilteredColumnsLoaded
  <2>1. LeftBehind /\ column = Len(Columns) + 1 /\ Len(Columns) \in Nat /\ DOMAIN Columns = 1..Len(Columns)
    BY CatalogueAssumption DEF LoadedInv, HistInv, LoadInv, Loading
  <2>2. PICK d \in ToSet(Columns) :
          /\ d.column = c
          /\ IF c \in Identifiers THEN d.identifier
             ELSE /\ d.to = c /\ Cardinality(d.text) = d.bucketNum
                  /\ \A e \in ToSet(Columns) : e.to = c => e = d
                  /\ CountsIts(d.table) <=> c \notin Understated
    BY DEF FilteredFit
  <2>3. FieldsOf(d) /\ Filled(d)
    <3>1. PICK k \in 1..Len(Columns) : d = Columns[k]
      BY <2>1 DEF ToSet
    <3>2. k \in 1..column - 1
      BY <2>1
    <3> QED BY <2>1, <3>1, <3>2 DEF LeftBehind
  <2>4. CASE c \in Identifiers
    BY <2>2, <2>3, <2>4 DEF FieldsOf
  <2>5. CASE c \notin Identifiers
    <3>1. (CHOOSE e \in ToSet(Columns) : e.column = c) = d
      BY <2>2 DEF ColumnsFit
    <3>2. d.to # "none" /\ d.to = c
      BY <2>2, <2>5, CatalogueAssumption DEF ColumnNames
    <3>3. histogram[c].dataMap = DataMap(d.make, d.text)
      BY <2>2, <2>3, <2>5, <3>2 DEF Filled, Sole
    <3>4. OwnBuckets(c)
      BY <2>2, <2>3, <2>5, <3>1, <3>2, <3>3, RangesKept DEF OwnBuckets, TextOf, FieldsOf
    <3>5. CountsItsTable(c) <=> CountsIts(d.table)
      <4>1. histogram[c].count = TableRows[d.table]
        BY <2>2, <2>3 DEF FieldsOf
      <4>2. PICK x : x = CHOOSE e \in ToSet(Columns) : e.column = c
        OBVIOUS
      <4>3. CountsItsTable(c) <=>
              TextRows[x.table] - histogram[c].count \in -(histogram[c].count \div 1000)..(histogram[c].count \div 1000)
        BY <4>2, Zenon DEF CountsItsTable
      <4>4. CountsIts(x.table) <=>
              TextRows[x.table] - TableRows[x.table] \in -(TableRows[x.table] \div 1000)..(TableRows[x.table] \div 1000)
        BY Zenon DEF CountsIts
      <4>5. x = d
        BY <3>1, <4>2
      <4>6. PICK n : n = histogram[c].count
        OBVIOUS
      <4>7. n = TableRows[x.table]
        BY <4>1, <4>5, <4>6
      <4>8. CountsItsTable(c) <=> CountsIts(x.table)
        BY <4>3, <4>4, <4>6, <4>7
      <4> QED BY <4>5, <4>8
    <3> QED BY <2>2, <2>5, <3>4, <3>5
  <2> QED BY <2>4, <2>5
<1> QED
  BY <1>1, LoadedInit, LoadedStep, PTL DEF Spec
=============================================================================
