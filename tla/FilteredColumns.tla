-------------------------- MODULE FilteredColumns --------------------------
(***************************************************************************)
(* What the columns that the plans' scan filters compare need of           *)
(* InitHistogram, as conditions on its catalogue alone.                    *)
(***************************************************************************)
EXTENDS HistogramCatalogue, ScanFilters, SequencesExt

ComparisonsOf(f, types) == {n \in DOMAIN f : f[n].kind = "predicate" /\ f[n].type \in types}

\* The columns compared with something of one of these types.
ComparedWith(types) ==
  UNION {{f[n].column : n \in ComparisonsOf(f, types)} : f \in ToSet(PlanFilters)}

\* The columns compared with values or with each other.
Filtered ==
  ComparedWith({"date", "number", "string", "column"})
  \cup UNION {{f[n].values[1] : n \in ComparisonsOf(f, {"column"})} : f \in ToSet(PlanFilters)}

\* The rows the buckets of a column on the table count: one in a thousand more or less.
CountsIts(table) ==
  LET slack == TableRows[table] \div 1000
  IN  TextRows[table] - TableRows[table] \in -slack..slack

\* No column comes twice, and none that identifies its rows is given a text.
ColumnsFit ==
  /\ \A d, e \in ToSet(Columns) : d.column = e.column => d = e
  /\ \A d, e \in ToSet(Columns) : d.identifier => e.to # d.column
  /\ \A d \in ToSet(Columns) :
       TableRows[d.table] \in Nat /\ d.bucketNum \in Nat /\ d.identifier \in BOOLEAN

(***************************************************************************)
(* A filtered column is said to identify its rows, or it has a text, which *)
(* nothing else is assigned over, of as many lines as its fields say.      *)
(***************************************************************************)
FilteredFit(identifiers, understated) ==
  \A c \in Filtered : \E d \in ToSet(Columns) :
    /\ d.column = c
    /\ IF c \in identifiers THEN d.identifier
       ELSE /\ d.to = c /\ Cardinality(d.text) = d.bucketNum
            /\ \A e \in ToSet(Columns) : e.to = c => e = d
            /\ CountsIts(d.table) <=> c \notin understated
=============================================================================
