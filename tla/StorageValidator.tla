-------------------------- MODULE StorageValidator --------------------------
(***************************************************************************)
(* StorageValidatorMain: it goes through the snippets of a plan once, from *)
(* the first to the last, and estimates for each how many rows come out of *)
(* it from the estimates of the snippets it reads, which it finds by the   *)
(* alias of their result.  CSDValidatorTemp, which calls it, has put the   *)
(* estimates of the CSD_Scan snippets in; StorageSpec says what the loop   *)
(* may rely on.                                                            *)
(***************************************************************************)
EXTENDS PlanEstimates

Overflow == -1      \* the value of a product that does not fit

VARIABLES
  i,        \* the snippet the loop is at, 0 before the call
  est,      \* per snippet its filterCount, filterRatio and topTableRow
  calc      \* storageCalc

storageVars == <<query, kept, i, est, calc>>

ScalesWith(r, s) == [num |-> r.num * s.num, den |-> r.den * s.den]

\* Mutant: the difference the other way round.
ComplementReversed(r) == [num |-> r.num - r.den, den |-> r.den]

Complement(r) == [num |-> r.den - r.num, den |-> r.den]

Plus(r, s) ==
  IF r.den = s.den THEN [num |-> r.num + s.num, den |-> r.den]
                   ELSE [num |-> r.num * s.den + s.num * r.den, den |-> r.den * s.den]

\* A product of two ints.
Times(m, n) == IF n = 0 \/ m <= MaxInt \div n THEN m * n ELSE Overflow

(***************************************************************************)
(* What a scan has when the loop starts, and any other snippet as          *)
(* parseSnippet left it.                                                   *)
(***************************************************************************)
ScanEstimate(k) == [rows |-> RowsKept(k), ratio |-> kept[k], top |-> TableRows[plan[k].in[1]]]

Parsed(k) == [rows |-> plan[k].filters, ratio |-> One, top |-> 0]

Handed == [k \in DOMAIN plan |-> IF k \in Scans THEN ScanEstimate(k) ELSE Parsed(k)]

NoCalc ==
  [workID |-> 0, curRatio |-> One, top |-> 0, join |-> 0, joinTable |-> 0, agg |-> 0,
   groupBy |-> 0, exist |-> 0, depJoin |-> 0, union |-> 0, storFilter |-> 0, leftOuter |-> 0, in |-> 0]

NoSnippets == [k \in {} |-> Parsed(k)]

StorageInit == ChosenPlan /\ i = 0 /\ est = NoSnippets /\ calc = NoCalc

\* The call, with a snippet vector by value.
Called(snippets) ==
  /\ i = 0 /\ i' = 1
  /\ est' = snippets
  /\ UNCHANGED <<query, kept, calc>>

\* Mutant: the search ends one snippet early.
ProducersButLast(name) == {j \in 1..(i - 2) : plan[j].alias = name}

(***************************************************************************)
(* The last snippet before this one whose result has the name; a default   *)
(* querySnippetInfo if there is none.                                      *)
(***************************************************************************)
Producers(name) == {j \in 1..(i - 1) : plan[j].alias = name}

NoSnippet == [rows |-> 0, ratio |-> One, top |-> 0]

Target(name) == IF Producers(name) = {} THEN NoSnippet ELSE est[Max(Producers(name))]

This == plan[i]
In1 == Target(This.in[1])
In2 == Target(This.in[2])

Smaller == Min({In1.rows, In2.rows})
Larger == Max({In1.rows, In2.rows})

\* Mutant: the first input is forgotten.
TopOfSecond == Max({calc.top, In2.top})

\* topTableRow of storageCalc never shrinks.
TopRow == Max({calc.top, In1.top, In2.top})

AtType(type) == i \in DOMAIN plan /\ This.type = type

Advance == i' = i + 1 /\ UNCHANGED <<query, kept>>

Estimate(e) == est' = [est EXCEPT ![i] = e]

IsLast == i = Len(plan)

CsdScanned ==
  /\ AtType("CSD_Scan")
  /\ Advance
  /\ UNCHANGED <<est, calc>>

(***************************************************************************)
(* The result of an aggregation keeps the row count of its input, and has  *)
(* ratio 1 and no top table.  One aggregation of query 18 is a special     *)
(* case: nine orders have more than 300 items.                             *)
(***************************************************************************)
IsLargeOrders == This.in[1] = "17-0"

LargeOrders == [num |-> 9, den |-> 6000000]

Aggregation ==
  /\ AtType("Aggregation")
  /\ Advance
  /\ calc' = [calc EXCEPT
       !.agg = @ + In1.rows * (This.projected - This.groupBy),
       !.groupBy = @ + (IF This.groupBy # 0 THEN In1.rows ELSE 0),
       !.curRatio = IF IsLargeOrders THEN LargeOrders ELSE In1.ratio,
       !.workID = i - 1]
  /\ Estimate(IF IsLargeOrders THEN [rows |-> 9, ratio |-> LargeOrders, top |-> 6000000]
              ELSE [est[i] EXCEPT !.rows = In1.rows])

(***************************************************************************)
(* Each equality divides by the rows of the table it compares.  The name   *)
(* of that table is never cleared, so that from the second on it matches   *)
(* no alias and the first table is used again; the test for OR assigns.    *)
(***************************************************************************)
Equalities == (This.filters + 1) \div 2

\* What the rate is divided by after so many equalities.
Divisors(m) == LET after[n \in Nat] == IF n = 0 THEN 1 ELSE m * after[n - 1] IN after

StorageFilterRate == [num |-> 1, den |-> Divisors(Target(This.column).rows)[Equalities]]

\* The code divides by the count whatever it is; with no rows it stays out of
\* the model.
Storage_Filter ==
  /\ AtType("Storage_Filter")
  /\ Target(This.column).rows > 0
  /\ Advance
  /\ calc' = [calc EXCEPT !.storFilter = @ + In1.rows]
  /\ Estimate([est[i] EXCEPT !.rows = Share(In1.rows, StorageFilterRate),
                             !.ratio = ScalesWith(In1.ratio, StorageFilterRate)])

JoinRatio == ScalesWith(In1.ratio, In2.ratio)

\* Mutant: every row of both inputs comes out.
JoinAsSum(ratio) == [est[i] EXCEPT !.rows = In1.rows + In2.rows, !.ratio = ratio]

JoinEstimate(ratio) == [est[i] EXCEPT !.rows = Share(TopRow, ratio), !.ratio = ratio]

Inner_Join ==
  /\ AtType("Inner_Join")
  /\ Advance
  /\ calc' = [calc EXCEPT !.top = TopRow, !.curRatio = JoinRatio, !.workID = i - 1,
                          !.joinTable = @ + Smaller, !.join = @ + Larger]
  /\ Estimate(JoinEstimate(JoinRatio))

\* The ratio of the snippet itself stays 1, and curRatio is scaled, not set.
Left_Outer_Join ==
  LET ratio == ScalesWith(calc.curRatio, JoinRatio)
  IN  /\ AtType("Left_Outer_Join")
      /\ Advance
      /\ calc' = [calc EXCEPT !.top = TopRow, !.curRatio = ratio, !.leftOuter = @ + Larger]
      /\ Estimate([est[i] EXCEPT !.rows = Share(TopRow, ratio)])

Union ==
  /\ AtType("Union")
  /\ Advance
  /\ calc' = [calc EXCEPT !.union = @ + In1.rows + In2.rows]
  /\ Estimate([est[i] EXCEPT !.rows = In1.rows + In2.rows, !.ratio = Plus(In1.ratio, In2.ratio)])

In ==
  LET ratio == IF This.negated THEN Complement(JoinRatio) ELSE JoinRatio
  IN  /\ AtType("In")
      /\ Advance
      /\ calc' = [calc EXCEPT !.top = TopRow, !.curRatio = ratio, !.workID = i - 1,
                              !.in = @ + In1.rows + In2.rows]
      /\ Estimate(JoinEstimate(ratio))

\* Mutant: the counts are divided by 10.
PairsByTen == Times(In1.rows \div 10, In2.rows \div 10)

\* The counts are divided by 100 first, since they are large.
Pairs == Times(In1.rows \div 100, In2.rows \div 100)

\* Both dependent forms add in the last snippet, and set anywhere else.
Depend(type, sum, added) ==
  /\ AtType(type)
  /\ Advance
  /\ IF IsLast
     THEN calc' = added /\ UNCHANGED est
     ELSE /\ calc' = [sum EXCEPT !.top = TopRow, !.curRatio = JoinRatio, !.workID = i - 1]
          /\ Estimate(JoinEstimate(JoinRatio))

Depend_Inner_Join ==
  Depend("Depend_Inner_Join", [calc EXCEPT !.depJoin = Pairs], [calc EXCEPT !.depJoin = @ + Pairs])

Depend_Exist ==
  Depend("Depend_Exist", [calc EXCEPT !.exist = Pairs], [calc EXCEPT !.exist = @ + Pairs])

StorageLoop ==
  \/ CsdScanned \/ Aggregation \/ Storage_Filter
  \/ Inner_Join \/ Left_Outer_Join \/ Union \/ In
  \/ Depend_Inner_Join \/ Depend_Exist

StorageNext == Called(Handed) \/ StorageLoop

StorageSpec == StorageInit /\ [][StorageNext]_storageVars

-----------------------------------------------------------------------------
LargestOf(p) == Max({TableRows[p[k].in[1]] : k \in {k \in DOMAIN p : p[k].type = "CSD_Scan"}})

LargestTable == LargestOf(plan)

\* The counts stay integers and the ratios fractions, and est has an entry per
\* snippet.
StorageTypeOK ==
  /\ query \in DOMAIN Plans
  /\ i \in 0..(Len(plan) + 1)
  /\ i > 0 => est \in [DOMAIN plan -> [rows : Nat, ratio : Ratio, top : Nat]]
  /\ calc.curRatio \in Ratio
  /\ \A f \in DOMAIN NoCalc \ {"curRatio"} : calc[f] \in Int

\* Every name a snippet reads is the alias of exactly one snippet before it: the
\* default querySnippetInfo is never used, and it does not matter that the
\* search goes on after the first match.
InputsResolved ==
  i \in DOMAIN plan /\ This.type # "CSD_Scan" =>
    \A name \in {This.in[1], This.in[2], This.column} \ {"none"} :
      Cardinality(Producers(name)) = 1

\* What a plan has to be like for that.
NamesItsInputs(p) ==
  /\ \A j, k \in DOMAIN p : p[j].alias = p[k].alias => j = k
  /\ \A k \in DOMAIN p : p[k].type # "CSD_Scan" =>
       \A name \in {p[k].in[1], p[k].in[2], p[k].column} \ {"none"} : \E j \in 1..k - 1 : p[j].alias = name

\* No estimate exceeds the largest table the query scans, though joins scale a
\* running maximum, unions add and NOT IN takes a complement.
WithinLargestTable ==
  \A k \in 1..(i - 1) : est[k].rows <= LargestTable

(***************************************************************************)
(* What a plan has to be like for that, if no filter keeps more rows than  *)
(* its table has: it scans a table, and has no union, which alone adds     *)
(* rows up.  The special case of query 18 needs a table of the size it     *)
(* names; and of a dependent join in the last snippet the count stays that *)
(* of its filters.                                                         *)
(***************************************************************************)
OnlyShrinks(p) ==
  /\ \E k \in DOMAIN p : p[k].type = "CSD_Scan"
  /\ \A k \in DOMAIN p :
       /\ p[k].type # "Union"
       /\ p[k].type = "Aggregation" /\ p[k].in[1] = "17-0" => LargestOf(p) >= 6000000
       /\ p[k].type \in {"Depend_Inner_Join", "Depend_Exist"} => p[k].filters <= LargestOf(p)

\* A query whose scans all keep rows is not estimated to be empty before its
\* last snippet, whatever the order of its joins.  Query 15 is: it joins two
\* aggregations before any table, and aggregations have no top table.
RowsLeft ==
  query # 15 => \A k \in 1..(i - 1) : k < Len(plan) => est[k].rows > 0

\* The products of row counts, and the sum a last dependent join makes of two,
\* fit into an int in every plan, when a filter keeps no more than Ratios say:
\* dividing both counts by 100 first is enough.
FitsInt(n) == 0 <= n /\ n <= MaxInt

ProductsFit == FitsInt(calc.depJoin) /\ FitsInt(calc.exist)

\* Of a last aggregation the number of rows is not computed.
LastAggregationIsFree == [][Aggregation /\ IsLast => UNCHANGED est]_storageVars
=============================================================================
