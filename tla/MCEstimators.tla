----------------------------- MODULE MCEstimators -----------------------------
(***************************************************************************)
(* All 22 plans, on tables of the sizes in TypeDef.hpp.  A filter keeps a  *)
(* half or a quarter of its table; that of query 3 on customer may keep    *)
(* twice as many rows as customerRow says, since the histograms of the     *)
(* table count ten times as many.  (The two of query 22 end in a substring *)
(* that keeps a hundredth.)                                                *)
(***************************************************************************)
EXTENDS Estimators, SnippetCatalogue

Tables ==
  [lineitem |-> 6000000, orders |-> 1500000, part |-> 200000, customer |-> 15000,
   partsupp |-> 800000, nation |-> 25, region |-> 5, supplier |-> 10000]

Half == [num |-> 1, den |-> 2]
Quarter == [num |-> 1, den |-> 4]
Twice == [num |-> 2, den |-> 1]

KeptBy(s) == {Half, IF s.in[1] = "customer" /\ s.filters = 1 THEN Twice ELSE Quarter}

\* All plans but that of query 15 are as the loop over two lists needs them,
\* and none aggregates more often than the sum can take.
ASSUME PlansFindTheirRows == \A q \in DOMAIN Plans : FindsItsRows(Plans[q]) <=> q # 15
ASSUME PlansAggregateLittle == \A q \in DOMAIN Plans : FewAggregations(Plans[q])

\* Only those of queries 7 and 19 have a union.
ASSUME PlansShrink == \A q \in DOMAIN Plans : OnlyShrinks(Plans[q]) <=> q \notin {7, 19}

\* In all of them a snippet reads what one before it alone is named.
ASSUME PlansNameInputs == \A q \in DOMAIN Plans : NamesItsInputs(Plans[q])

\* None scans more rows than can be printed.
ASSUME PlansScanLittle == \A q \in DOMAIN Plans : ScansLittle(Plans[q])

\* And in none the time of the exchange loses much by being scaled with an integer.
ASSUME PlansLoseLittle == \A q \in DOMAIN Plans : CutIsSmall(Plans[q])

\* Memory behind a vector: another number of rows, a negative one, a huge one.
Stray == {6000000, -1, MaxInt}

\* Query 1 alone: a scan and an aggregation.
FirstPlan == <<Plan1>>
=============================================================================
