----------------------------- MODULE SSDValidator -----------------------------
(***************************************************************************)
(* executeSSDValidate: one loop over the plan adds up the rows of the      *)
(* scans and those the aggregations read.  It finds the latter by the      *)
(* index of an alias in tableList, which has an entry per snippet, and     *)
(* takes that index into tableRowList, which has one per scan.  The        *)
(* constants that turn rows into times are left out.                       *)
(***************************************************************************)
EXTENDS PlanEstimates

CONSTANT Beyond     \* what may lie in memory behind tableRowList

ASSUME BeyondAssumption == Beyond \subseteq Int

VARIABLES
  ssdAt,          \* the snippet the loop is at
  tableList,      \* aliases
  tableRowList,   \* rows, each with the snippet it is of
  scannedrow,
  aggregaterow,
  reads           \* history: per aggregation the name it reads and whose rows it got

ssdVars == <<ssdAt, tableList, tableRowList, scannedrow, aggregaterow, reads>>

SSDInit ==
  /\ ssdAt = 1
  /\ tableList = <<>> /\ tableRowList = <<>>
  /\ scannedrow = 0 /\ aggregaterow = 0
  /\ reads = {}

NextSnippet ==
  /\ ssdAt <= Len(plan)
  /\ ssdAt' = ssdAt + 1
  /\ tableList' = Append(tableList, plan[ssdAt].alias)
  /\ UNCHANGED <<query, kept>>

RowListWith(k) == Append(tableRowList, [of |-> plan[k].alias, rows |-> RowsKept(k)])

ScanTable ==
  /\ NextSnippet
  /\ ssdAt \in Scans
  /\ tableRowList' = RowListWith(ssdAt)
  /\ scannedrow' = scannedrow + TableRows[plan[ssdAt].in[1]]
  /\ UNCHANGED <<aggregaterow, reads>>

\* Mutant: what is read counts as it is.
Unlimited(n) == n

Limited(n) == IF n > 6000000 THEN 0 ELSE n

\* Mutant: an index past the end means the last scan.
LastRowsRead(name) == {tableRowList[Len(tableRowList)]}

\* The rows behind the index of a name, and whose they are: nobody's if the
\* index is past the end, and 0 if no snippet has the name.
RowsRead(name) ==
  LET matches == {j \in DOMAIN tableList' : tableList'[j] = name}
  IN  IF matches = {} THEN {[of |-> "none", rows |-> 0]}
      ELSE IF Max(matches) \in DOMAIN tableRowList THEN {tableRowList[Max(matches)]}
      ELSE {[of |-> "beyond", rows |-> n] : n \in Beyond}

AggregateRows ==
  /\ NextSnippet
  /\ plan[ssdAt].type = "Aggregation"
  /\ \E read \in RowsRead(plan[ssdAt].in[1]) :
       /\ aggregaterow' = aggregaterow + Limited(read.rows)
       /\ reads' = reads \union {[name |-> plan[ssdAt].in[1], of |-> read.of]}
  /\ UNCHANGED <<tableRowList, scannedrow>>

PassSnippet ==
  /\ NextSnippet
  /\ plan[ssdAt].type \notin {"CSD_Scan", "Aggregation"}
  /\ UNCHANGED <<tableRowList, scannedrow, aggregaterow, reads>>

SSDNext == ScanTable \/ AggregateRows \/ PassSnippet

SSDFinished == ssdAt > Len(plan)

-----------------------------------------------------------------------------
\* An aggregation whose index lies within tableRowList gets the rows of the very
\* snippet it reads, though the two lists are not aligned.  Query 15 does not:
\* its second aggregation reads the first and gets the rows of supplier.
OwnRowsAggregated ==
  query # 15 => \A r \in reads : r.of \in {r.name, "beyond"}

(***************************************************************************)
(* What a plan has to be like for that: an aggregation reads the result of *)
(* one of the scans the plan begins with, or of a snippet so far behind    *)
(* that there are not as many scans.  Nothing in the code checks it.       *)
(***************************************************************************)
LeadingScans(p) == {k \in DOMAIN p : \A m \in 1..k : p[m].type = "CSD_Scan"}

CountBefore(p, type, k) == Cardinality({m \in 1..k - 1 : p[m].type = type})

FindsItsRows(p) ==
  \A k \in DOMAIN p : p[k].type = "Aggregation" =>
    LET matches == {m \in 1..k : p[m].alias = p[k].in[1]}
    IN  /\ matches # {}
        /\ Max(matches) \in LeadingScans(p) \/ Max(matches) > CountBefore(p, "CSD_Scan", k)

\* Whatever lies behind the list, the rows aggregated stay so few that a hundred
\* times as many fit into an int.  (Only upwards: a negative value passes.)
AggregatedRowsFit == aggregaterow <= MaxInt \div 100

\* What a plan has to be like for that, whatever the tables.
FewAggregations(p) == CountBefore(p, "Aggregation", Len(p) + 1) <= 3
=============================================================================
