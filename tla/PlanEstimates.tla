---------------------------- MODULE PlanEstimates ----------------------------
(***************************************************************************)
(* What the estimators have in common: the plan, and what getFilteredRow   *)
(* returns for each of its scans.  Row counts are the integers of the code *)
(* (int, 32 bits); a ratio is a fraction where the code has a float.       *)
(***************************************************************************)
EXTENDS Integers, Sequences, FiniteSetsExt

CONSTANTS
  Plans,       \* sequence of plans, by query number
  TableRows,   \* rows of each table
  Ratios(_)    \* what getFilteredRow may return for a scan with filters

MaxInt == 2147483647

Ratio == [num : Nat, den : Nat \ {0}]
One == [num |-> 1, den |-> 1]

ASSUME PlansAssumption ==
  \A q \in DOMAIN Plans : Len(Plans[q]) \in Nat /\ DOMAIN Plans[q] = 1..Len(Plans[q])

ASSUME SnippetsAssumption ==
  \A q \in DOMAIN Plans : \A k \in DOMAIN Plans[q] :
    LET s == Plans[q][k]
    IN  s.filters \in Nat /\ s.projected \in Int /\ s.groupBy \in Int /\ s.negated \in BOOLEAN

ASSUME RatiosAssumption ==
  \A q \in DOMAIN Plans : \A k \in DOMAIN Plans[q] : Ratios(Plans[q][k]) \subseteq Ratio

ASSUME TablesAssumption ==
  \A q \in DOMAIN Plans : \A k \in DOMAIN Plans[q] :
    LET s == Plans[q][k]
    IN  s.type = "CSD_Scan" => s.in[1] \in DOMAIN TableRows /\ TableRows[s.in[1]] \in Nat

VARIABLES
  query,
  kept     \* what getFilteredRow returns for each scan: both estimators ask it

plan == Plans[query]

Scans == {k \in DOMAIN plan : plan[k].type = "CSD_Scan"}

Share(rows, r) == (rows * r.num) \div r.den

RowsKept(k) == Share(TableRows[plan[k].in[1]], kept[k])

KeptByScan(k) == IF plan[k].filters > 0 THEN Ratios(plan[k]) ELSE {One}

ChosenPlan ==
  /\ query \in DOMAIN Plans
  /\ kept \in {f \in [Scans -> UNION {KeptByScan(k) : k \in Scans}] : \A k \in Scans : f[k] \in KeptByScan(k)}
=============================================================================
