--------------------------- MODULE EstimatorsProofs ---------------------------
(***************************************************************************)
(* Proofs about the estimators, for any plans, tables and ratios.          *)
(***************************************************************************)
EXTENDS Estimators, FiniteSetTheorems, SequenceTheorems, WellFoundedInduction, TLAPS

PlanInv == query \in DOMAIN Plans

\* A plan is a sequence of snippets.
LEMMA PlanIsSequence ==
  ASSUME PlanInv
  PROVE  Len(plan) \in Nat /\ DOMAIN plan = 1..Len(plan)
BY PlansAssumption DEF PlanInv, plan

\* No step chooses another plan, or estimates its filters anew.
LEMMA PlanKept ==
  ASSUME [Next]_vars
  PROVE  UNCHANGED <<query, kept>>
<1> USE DEF storageVars
<1>1. CASE StorageLoop
  BY <1>1 DEF StorageLoop, CsdScanned, Aggregation, Storage_Filter, Inner_Join, Left_Outer_Join, Union, In,
       Depend_Inner_Join, Depend_Exist, Depend, Advance
<1>2. CASE CSDNext
  BY <1>1, <1>2 DEF CSDNext, ScanNext, ScaleTime, ReplyAndCall, Called, StorageValidatorMain, InsertMetric
<1>3. CASE Validate_SSD
  BY <1>3 DEF Validate_SSD
<1>4. CASE UNCHANGED vars
  BY <1>4 DEF vars
<1> QED BY <1>2, <1>3, <1>4 DEF Next, Validate_CSD, Done

(***************************************************************************)
(* CSDValidatorTemp and StorageValidatorMain.  Until the call, the scans   *)
(* the loop has passed have their estimates, the other snippets are as     *)
(* parsed, and StorageValidatorMain has not begun.                         *)
(***************************************************************************)
EstimatedUpTo(n) ==
  [k \in DOMAIN plan |-> IF k \in Scans /\ k < n THEN ScanEstimate(k) ELSE Parsed(k)]

LoopInv ==
  /\ PlanInv
  /\ stage \in {"scan", "reply", "storage"}
  /\ stage # "storage" =>
       /\ scanAt \in Nat \ {0}
       /\ snippetInfo = EstimatedUpTo(scanAt)
  /\ stage = "reply" => scanAt > Len(plan)

\* CSDValidatorTemp starts with the snippets as parseSnippet left them.
LEMMA LoopInit == Init => LoopInv
<1> SUFFICES ASSUME Init PROVE LoopInv
  OBVIOUS
<1>1. PlanInv
  BY DEF Init, CSDInit, StorageInit, ChosenPlan, PlanInv
<1>2. Len(plan) \in Nat /\ DOMAIN plan = 1..Len(plan)
  BY <1>1, PlanIsSequence
<1>3. snippetInfo = EstimatedUpTo(1)
  BY <1>2 DEF Init, CSDInit, EstimatedUpTo
<1> QED BY <1>1, <1>3 DEF Init, CSDInit, LoopInv

\* Passing one more snippet.
LEMMA EstimatedOneMore ==
  ASSUME PlanInv, NEW n \in Nat \ {0}, n <= Len(plan)
  PROVE  EstimatedUpTo(n + 1) = IF n \in Scans THEN [EstimatedUpTo(n) EXCEPT ![n] = ScanEstimate(n)]
                                               ELSE EstimatedUpTo(n)
<1>1. Len(plan) \in Nat /\ DOMAIN plan = 1..Len(plan)
  BY PlanIsSequence
<1>2. \A k \in DOMAIN plan : k < n + 1 <=> k < n \/ k = n
  BY <1>1
<1>3. CASE n \in Scans
  BY <1>1, <1>2, <1>3 DEF EstimatedUpTo
<1>4. CASE n \notin Scans
  <2>1. \A k \in DOMAIN plan : k \in Scans /\ k < n + 1 <=> k \in Scans /\ k < n
    BY <1>2, <1>4
  <2> QED BY <1>4, <2>1 DEF EstimatedUpTo
<1> QED BY <1>3, <1>4

\* No step of either estimator undoes what the loop of CSDValidatorTemp has put in.
LEMMA LoopStep ==
  ASSUME LoopInv, [Next]_vars
  PROVE  LoopInv'
<1>1. query' = query /\ kept' = kept
  BY PlanKept
<1>2. /\ PlanInv' /\ plan' = plan
      /\ \A n : EstimatedUpTo(n)' = EstimatedUpTo(n)
  BY <1>1 DEF LoopInv, PlanInv, plan, EstimatedUpTo, Scans, ScanEstimate, RowsKept, Parsed
<1>3. CASE ScanNext
  <2>1. snippetInfo' = EstimatedUpTo(scanAt + 1)
    BY <1>3, EstimatedOneMore DEF ScanNext, LoopInv, Estimated
  <2> QED BY <1>2, <1>3, <2>1 DEF ScanNext, LoopInv
<1>4. CASE ScaleTime
  <2>1. scanAt > Len(plan)'
    BY <1>2, <1>4 DEF ScaleTime
  <2> QED BY <1>2, <1>4, <2>1 DEF ScaleTime, LoopInv
<1>5. CASE ReplyAndCall \/ StorageValidatorMain \/ InsertMetric
  BY <1>2, <1>5 DEF ReplyAndCall, StorageValidatorMain, InsertMetric, csdVars, LoopInv
<1>6. CASE Validate_SSD \/ UNCHANGED vars
  BY <1>2, <1>6 DEF Validate_SSD, csdVars, vars, LoopInv
<1> QED BY <1>3, <1>4, <1>5, <1>6 DEF Next, Validate_CSD, CSDNext, Done

\* Whatever the plan, the scans CSDValidatorTemp has passed have their estimates
\* and no other snippet has changed.
THEOREM LoopSafety == Spec => []LoopInv
<1> QED BY LoopInit, LoopStep, PTL DEF Spec

\* When the loop is over the snippets are those StorageValidatorMain expects.
LEMMA LoopHandsOver ==
  ASSUME LoopInv, stage = "reply"
  PROVE  snippetInfo = Handed
<1>1. Len(plan) \in Nat /\ DOMAIN plan = 1..Len(plan)
  BY PlanIsSequence DEF LoopInv
<1>2. \A k \in DOMAIN plan : k < scanAt
  BY <1>1 DEF LoopInv
<1> QED BY <1>2 DEF LoopInv, EstimatedUpTo, Handed

\* Every step of an estimator is one of StorageValidatorMain, or leaves its state.
LEMMA StorageStep ==
  ASSUME LoopInv, [Next]_vars
  PROVE  [StorageNext]_storageVars
<1>1. CASE ReplyAndCall
  BY <1>1, LoopHandsOver DEF ReplyAndCall, StorageNext
<1>2. CASE StorageValidatorMain
  BY <1>2 DEF StorageValidatorMain, StorageNext
<1>3. CASE ScanNext \/ ScaleTime \/ InsertMetric \/ Validate_SSD \/ UNCHANGED vars
  BY <1>3 DEF ScanNext, ScaleTime, InsertMetric, Validate_SSD, vars
<1> QED BY <1>1, <1>2, <1>3 DEF Next, Validate_CSD, CSDNext, Done

\* CSDValidatorTemp calls StorageValidatorMain with what its specification says,
\* and leaves the rest to it: for any plans whatever, and any number of CSDs.
THEOREM EstimatorsImplementStorage == Spec => ImplementsStorage
<1>1. Init => StorageInit
  BY DEF Init, CSDInit
<1> QED BY <1>1, LoopSafety, StorageStep, PTL DEF Spec, ImplementsStorage, StorageSpec

(***************************************************************************)
(* The metrics.  Every row inserted has the one class RowWeight gives, and *)
(* the reply has at least one entry when there are no more than 8 CSDs.    *)
(***************************************************************************)
MetricInv ==
  /\ csdCount \in CsdCounts
  /\ stage = "scan" => metrics = <<>>
  /\ stage = "reply" => metrics = <<>> /\ scale.factor = 8 \div csdCount
  /\ stage = "storage" => reply[1] = ReplyWeight /\ 1 \in DOMAIN reply
  /\ metrics \in Seq({RowWeight})
  /\ stage \in {"scan", "reply", "storage"}

\* Where both chains of conditions set a class, it is the same one.
LEMMA SameClass ==
  ASSUME query # 3, RowWeight # "unset"
  PROVE  RowWeight = ReplyWeight
BY DEF RowWeight, ReplyWeight

\* With one to eight CSDs the factor is at least one.
LEMMA FactorIsPositive ==
  ASSUME NEW n \in 1..8
  PROVE  8 \div n \in Nat /\ 8 \div n >= 1
OBVIOUS

\* MetricInv survives every step.
LEMMA MetricStep ==
  ASSUME CsdCounts \subseteq 1..8, MetricInv, [Next]_vars
  PROVE  MetricInv'
<1>1. query' = query
  BY PlanKept
<1>2. ReplyWeight' = ReplyWeight /\ RowWeight' = RowWeight
  BY <1>1 DEF ReplyWeight, RowWeight
<1>3. CASE ScanNext
  BY <1>2, <1>3 DEF ScanNext, MetricInv
<1>4. CASE ScaleTime
  BY <1>2, <1>4 DEF ScaleTime, MetricInv
<1>5. CASE ReplyAndCall
  <2>1. scale.factor \in Nat /\ scale.factor >= 1
    BY <1>5, FactorIsPositive DEF ReplyAndCall, MetricInv
  <2>2. 1 \in DOMAIN reply' /\ reply'[1] = ReplyWeight
    BY <1>5, <2>1 DEF ReplyAndCall
  <2> QED BY <1>2, <1>5, <2>2 DEF ReplyAndCall, MetricInv
<1>6. CASE InsertMetric
  <2>1. metrics' \in Seq({RowWeight})
    BY <1>6 DEF InsertMetric, MetricInv
  <2> QED BY <1>2, <1>6, <2>1 DEF InsertMetric, MetricInv
<1>7. CASE StorageValidatorMain \/ Validate_SSD \/ UNCHANGED vars
  BY <1>2, <1>7 DEF StorageValidatorMain, Validate_SSD, vars, csdVars, MetricInv
<1> QED BY <1>3, <1>4, <1>5, <1>6, <1>7 DEF Next, Validate_CSD, CSDNext, Done

\* For any plans, and any options of up to eight CSDs, the rows inserted carry
\* the class of CPU weight the reply has; beyond eight the reply has no entry.
THEOREM RowsAgree ==
  ASSUME CsdCounts \subseteq 1..8
  PROVE  Spec => []RowsAgreeWithReply
<1>1. Init => MetricInv
  BY DEF Init, CSDInit, MetricInv
<1>2. MetricInv /\ [Next]_vars => MetricInv'
  BY MetricStep
<1>3. MetricInv => RowsAgreeWithReply
  <2> SUFFICES ASSUME MetricInv, query # 3, NEW k \in DOMAIN metrics, metrics[k] # "unset"
               PROVE  \E n \in DOMAIN reply : reply[n] = metrics[k]
    BY DEF RowsAgreeWithReply
  <2>1. metrics[k] = RowWeight /\ metrics # <<>>
    BY DEF MetricInv
  <2>2. stage = "storage"
    BY <2>1 DEF MetricInv
  <2> QED BY <2>1, <2>2, SameClass DEF MetricInv
<1> QED BY <1>1, <1>2, <1>3, PTL DEF Spec

-----------------------------------------------------------------------------
(***************************************************************************)
(* The greatest element of a set of integers.                              *)
(***************************************************************************)
LEMMA Least ==
  ASSUME NEW T, T \subseteq Nat, T # {}
  PROVE  \E x \in T : \A y \in T : x <= y
<1>1. PICK x \in T : \A y \in T : ~ (<<y, x>> \in OpToRel(<, Nat))
  BY WFMin, NatLessThanWellFounded
<1>2. \A y \in T : <<y, x>> \in OpToRel(<, Nat) <=> y < x
  BY DEF OpToRel
<1>3. ASSUME NEW y \in T PROVE x <= y
  <2>1. ~ (y < x)
    BY <1>1, <1>2
  <2>2. x \in Nat /\ y \in Nat
    OBVIOUS
  <2> QED BY <2>1, <2>2
<1> QED BY <1>3

\* A set of integers between two bounds has a greatest element, and Max is it.
LEMMA Greatest ==
  ASSUME NEW a \in Int, NEW b \in Int, NEW S, S \subseteq a..b, S # {}
  PROVE  Max(S) \in S /\ \A y \in S : y <= Max(S)
<1> DEFINE T == {b - x : x \in S}
<1>1. T \subseteq Nat /\ T # {}
  <2>1. \A x \in S : b - x \in Nat
    OBVIOUS
  <2>2. T \subseteq Nat
    BY <2>1
  <2>3. PICK s \in S : TRUE
    OBVIOUS
  <2>4. b - s \in T
    BY <2>3
  <2> QED BY <2>2, <2>4
<1>2. PICK t \in T : \A u \in T : t <= u
  BY <1>1, Least
<1>3. PICK x \in S : t = b - x
  OBVIOUS
<1>4. ASSUME NEW y \in S PROVE x >= y
  <2>1. b - x <= b - y
    BY <1>2, <1>3
  <2>2. x \in Int /\ y \in Int
    OBVIOUS
  <2> QED BY <2>1, <2>2
<1>5. \A y \in S : Max(S) >= y
  BY <1>4 DEF Max
<1>6. Max(S) \in S
  BY <1>4 DEF Max
<1>7. \A y \in S : y \in Int
  OBVIOUS
<1> QED BY <1>5, <1>6, <1>7

(***************************************************************************)
(* The loop of executeSSDValidate.  Of the two lists, the one of the rows  *)
(* lags behind by the snippets passed that are no scans; up to the first   *)
(* of these an index means the same in both.                               *)
(***************************************************************************)
Entries == {[of |-> plan[k].alias, rows |-> RowsKept(k)] : k \in DOMAIN plan}

ScansBefore(k) == CountBefore(plan, "CSD_Scan", k)

ListInv ==
  /\ PlanInv
  /\ ssdAt \in Nat \ {0}
  /\ tableList = [k \in 1..(ssdAt - 1) |-> plan[k].alias]
  /\ ssdAt <= Len(plan) + 1
  /\ tableRowList \in Seq(Entries)
  /\ Len(tableRowList) = ScansBefore(ssdAt)
  /\ \A k \in LeadingScans(plan) : k < ssdAt => k \in DOMAIN tableRowList /\ tableRowList[k].of = plan[k].alias

\* One snippet more is one more of its type.
LEMMA OneMore ==
  ASSUME PlanInv, NEW type, NEW k \in 1..Len(plan)
  PROVE  /\ CountBefore(plan, type, k) \in Nat
         /\ CountBefore(plan, type, k + 1) = CountBefore(plan, type, k) + (IF plan[k].type = type THEN 1 ELSE 0)
<1> DEFINE Before == {m \in 1..k - 1 : plan[m].type = type}
           After  == {m \in 1..(k + 1) - 1 : plan[m].type = type}
<1>1. Len(plan) \in Nat /\ DOMAIN plan = 1..Len(plan)
  BY PlanIsSequence
<1>2. CountBefore(plan, type, k) = Cardinality(Before) /\ CountBefore(plan, type, k + 1) = Cardinality(After)
  BY DEF CountBefore
<1>3. IsFiniteSet(Before)
  <2>1. IsFiniteSet(1..k - 1)
    BY <1>1, FS_Interval
  <2> QED BY <2>1, FS_Subset
<1>4. k \notin Before
  BY <1>1
<1>5. 1..(k + 1) - 1 = (1..k - 1) \union {k}
  OBVIOUS
<1>6. After = IF plan[k].type = type THEN Before \union {k} ELSE Before
  BY <1>5
<1> HIDE DEF Before, After
<1>7. Cardinality(Before) \in Nat /\ Cardinality(Before \union {k}) = Cardinality(Before) + 1
  BY <1>3, <1>4, FS_CardinalityType, FS_AddElement
<1> QED BY <1>2, <1>6, <1>7

\* There are no more of a type up to a snippet than in the plan.
LEMMA NoMoreThanAll ==
  ASSUME PlanInv, NEW type, NEW k \in 1..Len(plan) + 1
  PROVE  /\ CountBefore(plan, type, k) \in Nat /\ CountBefore(plan, type, Len(plan) + 1) \in Nat
         /\ CountBefore(plan, type, k) <= CountBefore(plan, type, Len(plan) + 1)
<1> DEFINE Some == {m \in 1..k - 1 : plan[m].type = type}
           All  == {m \in 1..(Len(plan) + 1) - 1 : plan[m].type = type}
<1>1. Len(plan) \in Nat
  BY PlanIsSequence
<1>2. IsFiniteSet(All)
  <2>1. IsFiniteSet(1..(Len(plan) + 1) - 1)
    BY <1>1, FS_Interval
  <2> QED BY <2>1, FS_Subset
<1>3. Some \subseteq All
  BY <1>1
<1>4. CountBefore(plan, type, k) = Cardinality(Some) /\ CountBefore(plan, type, Len(plan) + 1) = Cardinality(All)
  BY DEF CountBefore
<1> HIDE DEF Some, All
<1>5. IsFiniteSet(Some) /\ Cardinality(Some) <= Cardinality(All)
  BY <1>2, <1>3, FS_Subset
<1> QED BY <1>2, <1>4, <1>5, FS_CardinalityType

\* As many scans come before one the plan begins with as snippets do.
LEMMA LeadingCount ==
  ASSUME PlanInv, NEW k \in LeadingScans(plan)
  PROVE  k \in Scans /\ k \in 1..Len(plan) /\ ScansBefore(k) = k - 1
<1>1. Len(plan) \in Nat /\ DOMAIN plan = 1..Len(plan)
  BY PlanIsSequence
<1>2. k \in 1..Len(plan) /\ \A m \in 1..k : plan[m].type = "CSD_Scan"
  BY <1>1 DEF LeadingScans
<1>3. {m \in 1..k - 1 : plan[m].type = "CSD_Scan"} = 1..k - 1
  BY <1>2, <1>1
<1>4. Cardinality(1..k - 1) = k - 1
  BY <1>1, <1>2, FS_Interval
<1>5. ScansBefore(k) = k - 1
  BY <1>3, <1>4 DEF ScansBefore, CountBefore
<1>6. k \in Scans
  BY <1>1, <1>2 DEF Scans
<1> QED BY <1>2, <1>5, <1>6

\* The list of aliases grows by one, whatever the snippet.
LEMMA ListGrows ==
  ASSUME ListInv, NextSnippet
  PROVE  /\ ssdAt \in 1..Len(plan) /\ ssdAt' = ssdAt + 1 /\ ssdAt' \in Nat \ {0} /\ ssdAt' <= Len(plan) + 1
         /\ tableList' = [k \in 1..ssdAt |-> plan[k].alias]
         /\ PlanInv' /\ plan' = plan /\ Entries' = Entries
<1>1. Len(plan) \in Nat /\ DOMAIN plan = 1..Len(plan)
  BY PlanIsSequence DEF ListInv
<1>2. ssdAt \in 1..Len(plan) /\ ssdAt' = ssdAt + 1 /\ ssdAt' \in Nat \ {0} /\ ssdAt' <= Len(plan) + 1
  BY <1>1 DEF ListInv, NextSnippet
<1> DEFINE Aliases == {plan[k].alias : k \in DOMAIN plan}
<1>3. tableList \in Seq(Aliases) /\ Len(tableList) = ssdAt - 1
  <2>1. \A k \in 1..ssdAt - 1 : plan[k].alias \in Aliases
    BY <1>1, <1>2
  <2>2. ssdAt - 1 \in Nat
    BY <1>2
  <2> HIDE DEF Aliases
  <2> QED BY <2>1, <2>2 DEF ListInv
<1>4. tableList' = [k \in 1..ssdAt |-> plan[k].alias]
  <2>1. plan[ssdAt].alias \in Aliases
    BY <1>1, <1>2
  <2>2. \A k \in 1..ssdAt - 1 : tableList[k] = plan[k].alias
    BY DEF ListInv
  <2> HIDE DEF Aliases
  <2>3. tableList' = Append(tableList, plan[ssdAt].alias)
    BY DEF NextSnippet
  <2>4. /\ DOMAIN tableList' = 1..ssdAt
        /\ \A k \in 1..ssdAt : tableList'[k] = plan[k].alias
        /\ tableList' \in Seq(Aliases)
    BY <1>2, <1>3, <2>1, <2>2, <2>3
  <2>5. tableList' = [k \in DOMAIN tableList' |-> tableList'[k]]
    BY <2>4
  <2> QED BY <2>4, <2>5
<1>5. query' = query /\ kept' = kept
  BY DEF NextSnippet
<1>6. PlanInv' /\ plan' = plan /\ Entries' = Entries
  BY <1>5 DEF ListInv, PlanInv, plan, Entries, RowsKept
<1> QED BY <1>2, <1>4, <1>6

\* A snippet of another type leaves the list of the rows, and is not counted.
LEMMA RowsStay ==
  ASSUME ListInv, NextSnippet, ssdAt \notin Scans, UNCHANGED tableRowList
  PROVE  /\ tableRowList' \in Seq(Entries')
         /\ Len(tableRowList') = ScansBefore(ssdAt)'
         /\ \A k \in LeadingScans(plan') : k < ssdAt' =>
              k < ssdAt /\ k \in DOMAIN tableRowList' /\ tableRowList'[k].of = plan'[k].alias
<1>1. /\ ssdAt \in 1..Len(plan) /\ ssdAt' = ssdAt + 1 /\ plan' = plan /\ Entries' = Entries
  BY ListGrows
<1>2. ScansBefore(ssdAt + 1) = ScansBefore(ssdAt)
  BY <1>1, OneMore DEF ListInv, ScansBefore, Scans
<1>3. ASSUME NEW k \in LeadingScans(plan), k < ssdAt + 1
      PROVE  k < ssdAt /\ k \in DOMAIN tableRowList /\ tableRowList[k].of = plan[k].alias
  <2>1. k \in Scans /\ k \in 1..Len(plan)
    BY LeadingCount DEF ListInv
  <2>2. k # ssdAt
    BY <2>1
  <2>3. k < ssdAt
    BY <1>1, <1>3, <2>1, <2>2 DEF ListInv
  <2> QED BY <1>3, <2>3 DEF ListInv
<1>4. ScansBefore(ssdAt)' = ScansBefore(ssdAt + 1)
  BY <1>1 DEF ScansBefore
<1> QED BY <1>1, <1>2, <1>3, <1>4 DEF ListInv

\* A scan adds its own rows, which an index within the leading scans finds.
LEMMA RowsGrow ==
  ASSUME ListInv, ScanTable
  PROVE  /\ tableRowList' \in Seq(Entries')
         /\ Len(tableRowList') = ScansBefore(ssdAt)'
         /\ \A k \in LeadingScans(plan') : k < ssdAt' =>
              k \in DOMAIN tableRowList' /\ tableRowList'[k].of = plan'[k].alias
<1> DEFINE entry == [of |-> plan[ssdAt].alias, rows |-> RowsKept(ssdAt)]
<1>1. /\ ssdAt \in 1..Len(plan) /\ ssdAt' = ssdAt + 1 /\ plan' = plan /\ Entries' = Entries
  BY ListGrows DEF ScanTable
<1>2. /\ tableRowList' = Append(tableRowList, entry) /\ ssdAt \in Scans
  BY DEF ScanTable, RowListWith
<1>3. entry \in Entries /\ entry.of = plan[ssdAt].alias
  BY <1>2 DEF Entries, Scans
<1>4. /\ ScansBefore(ssdAt) \in Nat /\ ScansBefore(ssdAt + 1) = ScansBefore(ssdAt) + 1
  BY <1>1, <1>2, OneMore DEF ListInv, ScansBefore, Scans
<1>5. tableRowList \in Seq(Entries) /\ Len(tableRowList) = ScansBefore(ssdAt)
  BY DEF ListInv
<1> HIDE DEF entry
<1>6. /\ tableRowList' \in Seq(Entries) /\ Len(tableRowList') = Len(tableRowList) + 1
      /\ DOMAIN tableRowList' = 1..Len(tableRowList) + 1
      /\ \A k \in DOMAIN tableRowList : k \in DOMAIN tableRowList' /\ tableRowList'[k] = tableRowList[k]
      /\ tableRowList'[Len(tableRowList) + 1] = entry
  BY <1>2, <1>3, <1>5
<1>7. ASSUME NEW k \in LeadingScans(plan), k < ssdAt + 1
      PROVE  k \in DOMAIN tableRowList' /\ tableRowList'[k].of = plan[k].alias
  <2>1. k \in 1..Len(plan) /\ ScansBefore(k) = k - 1
    BY LeadingCount DEF ListInv
  <2>2. CASE k < ssdAt
    BY <1>6, <2>2 DEF ListInv
  <2>3. CASE k = ssdAt
    <3>1. k = Len(tableRowList) + 1
      BY <1>1, <1>5, <2>1, <2>3
    <3>2. k \in DOMAIN tableRowList'
      BY <1>4, <1>5, <1>6, <3>1
    <3> QED BY <1>3, <1>6, <2>3, <3>1, <3>2
  <2> QED BY <1>1, <1>7, <2>1, <2>2, <2>3
<1>8. ScansBefore(ssdAt)' = ScansBefore(ssdAt + 1)
  BY <1>1 DEF ScansBefore
<1> QED BY <1>1, <1>4, <1>5, <1>6, <1>7, <1>8

\* An aggregation of a plan that finds its rows gets those of the snippet it
\* names, or a value from behind the list.
LEMMA AggregationReads ==
  ASSUME ListInv, AggregateRows, FindsItsRows(plan),
         NEW read \in RowsRead(plan[ssdAt].in[1])
  PROVE  read.of \in {plan[ssdAt].in[1], "beyond"}
<1> DEFINE name == plan[ssdAt].in[1]
           matches == {m \in 1..ssdAt : plan[m].alias = name}
           last == Max(matches)
<1>1. /\ ssdAt \in 1..Len(plan) /\ tableList' = [k \in 1..ssdAt |-> plan[k].alias]
  BY ListGrows DEF AggregateRows
<1>2. Len(plan) \in Nat /\ DOMAIN plan = 1..Len(plan)
  BY PlanIsSequence DEF ListInv
<1>3. plan[ssdAt].type = "Aggregation" /\ UNCHANGED tableRowList
  BY DEF AggregateRows
<1>4. matches # {} /\ (last \in LeadingScans(plan) \/ last > ScansBefore(ssdAt))
  BY <1>1, <1>2, <1>3 DEF FindsItsRows, ScansBefore
<1>5. {j \in DOMAIN tableList' : tableList'[j] = name} = matches
  BY <1>1
<1>6. last \in matches
  <2>1. matches \subseteq 1..ssdAt /\ matches # {} /\ ssdAt \in Int /\ 1 \in Int
    BY <1>1, <1>4
  <2> HIDE DEF matches
  <2> QED BY <2>1, Greatest
<1>7. last \in 1..ssdAt /\ plan[last].alias = name
  BY <1>6
<1>8. read \in IF last \in DOMAIN tableRowList THEN {tableRowList[last]}
               ELSE {[of |-> "beyond", rows |-> n] : n \in Beyond}
  BY <1>4, <1>5 DEF RowsRead
<1> HIDE DEF last, matches
<1>9. CASE last \in LeadingScans(plan)
  <2>1. last \in Scans
    BY <1>9, LeadingCount DEF ListInv
  <2>2. ssdAt \notin Scans
    BY <1>3 DEF Scans
  <2>3. last < ssdAt
    BY <1>1, <1>7, <2>1, <2>2
  <2>4. last \in DOMAIN tableRowList /\ tableRowList[last].of = plan[last].alias
    BY <1>9, <2>3 DEF ListInv
  <2> QED BY <1>7, <1>8, <2>4
<1>10. CASE last > ScansBefore(ssdAt)
  <2>1. DOMAIN tableRowList = 1..ScansBefore(ssdAt) /\ ScansBefore(ssdAt) \in Nat
    BY <1>1, OneMore DEF ListInv, ScansBefore, Scans
  <2>2. last \notin DOMAIN tableRowList
    BY <1>7, <1>10, <2>1
  <2> QED BY <1>8, <2>2
<1> QED BY <1>4, <1>9, <1>10

\* ListInv survives every step.
LEMMA ListStep ==
  ASSUME ListInv, [Next]_vars
  PROVE  ListInv'
<1>1. query' = query /\ kept' = kept
  BY PlanKept
<1>2. plan' = plan
  BY <1>1 DEF plan
<1>3. ASSUME NextSnippet
      PROVE  /\ tableList' = [k \in 1..ssdAt' - 1 |-> plan'[k].alias]
             /\ PlanInv' /\ ssdAt' \in Nat \ {0} /\ ssdAt' <= Len(plan') + 1
  BY <1>3, ListGrows
<1>4. CASE ScanTable
  <2>1. NextSnippet
    BY <1>4 DEF ScanTable
  <2> QED BY <1>3, <1>4, <2>1, RowsGrow DEF ListInv
<1>5. CASE AggregateRows \/ PassSnippet
  <2>1. NextSnippet /\ ssdAt \notin Scans /\ UNCHANGED tableRowList
    BY <1>5 DEF AggregateRows, PassSnippet, Scans
  <2> QED BY <1>3, <2>1, RowsStay DEF ListInv
<1>6. CASE UNCHANGED ssdVars
  BY <1>1, <1>2, <1>6 DEF ListInv, ssdVars, PlanInv, Entries, RowsKept, LeadingScans, ScansBefore
<1> QED
  BY <1>4, <1>5, <1>6 DEF Next, Validate_CSD, Validate_SSD, SSDNext, Done, vars

\* Nor does any step make an aggregation read the rows of another snippet.
LEMMA ReadsStep ==
  ASSUME \A q \in DOMAIN Plans : q # 15 => FindsItsRows(Plans[q]),
         ListInv, OwnRowsAggregated, [Next]_vars
  PROVE  OwnRowsAggregated'
<1>1. query' = query
  BY PlanKept
<1>2. CASE AggregateRows
  <2> SUFFICES ASSUME query # 15, NEW r \in reads' PROVE r.of \in {r.name, "beyond"}
    BY <1>1 DEF OwnRowsAggregated
  <2>1. PICK read \in RowsRead(plan[ssdAt].in[1]) :
          reads' = reads \union {[name |-> plan[ssdAt].in[1], of |-> read.of]}
    BY <1>2 DEF AggregateRows
  <2>2. FindsItsRows(plan)
    BY DEF ListInv, PlanInv, plan
  <2>3. read.of \in {plan[ssdAt].in[1], "beyond"}
    BY <1>2, <2>2, AggregationReads
  <2> QED BY <2>1, <2>3 DEF OwnRowsAggregated
<1>3. CASE ScanTable \/ PassSnippet \/ UNCHANGED ssdVars
  BY <1>1, <1>3 DEF ScanTable, PassSnippet, ssdVars, OwnRowsAggregated
<1> QED
  BY <1>2, <1>3 DEF Next, Validate_CSD, Validate_SSD, SSDNext, Done, vars

\* Both lists start empty.
LEMMA ListInit == Init => ListInv
<1> SUFFICES ASSUME Init PROVE ListInv
  OBVIOUS
<1>1. PlanInv
  BY DEF Init, CSDInit, StorageInit, ChosenPlan, PlanInv
<1>2. Len(plan) \in Nat /\ DOMAIN plan = 1..Len(plan)
  BY <1>1, PlanIsSequence
<1>3. ScansBefore(1) = 0
  <2>1. {m \in 1..1 - 1 : plan[m].type = "CSD_Scan"} = {}
    OBVIOUS
  <2> QED BY <2>1, FS_EmptySet DEF ScansBefore, CountBefore
<1>4. ssdAt = 1 /\ tableList = <<>> /\ tableRowList = <<>>
  BY DEF Init, SSDInit
<1>5. tableList = [k \in 1..(ssdAt - 1) |-> plan[k].alias]
  BY <1>4
<1>6. \A k \in LeadingScans(plan) : ~ (k < ssdAt)
  BY <1>1, <1>4, LeadingCount
<1>7. tableRowList \in Seq(Entries) /\ Len(tableRowList) = 0
  BY <1>4
<1> QED BY <1>1, <1>2, <1>3, <1>4, <1>5, <1>6, <1>7 DEF ListInv

\* executeSSDValidate adds up, for whatever plans it finds the rows of, the rows
\* of the very snippet each aggregation reads, or a value from behind the list.
THEOREM OwnRows ==
  ASSUME \A q \in DOMAIN Plans : q # 15 => FindsItsRows(Plans[q])
  PROVE  Spec => []OwnRowsAggregated
<1>1. Init => OwnRowsAggregated
  BY DEF Init, SSDInit, OwnRowsAggregated
<1>2. ListInv /\ [Next]_vars => ListInv'
  BY ListStep
<1>3. ListInv /\ OwnRowsAggregated /\ [Next]_vars => OwnRowsAggregated'
  BY ReadsStep
<1> QED BY ListInit, <1>1, <1>2, <1>3, PTL DEF Spec

(***************************************************************************)
(* What executeSSDValidate adds up.  A value read counts for 6000000 at    *)
(* most, whatever it is, and a plan has three aggregations at most.        *)
(***************************************************************************)
AggregationsBefore(k) == CountBefore(plan, "Aggregation", k)

SumInv ==
  /\ PlanInv
  /\ kept \in [Scans -> Ratio]
  /\ ssdAt \in 1..Len(plan) + 1
  /\ \A k \in DOMAIN tableRowList : tableRowList[k].rows \in Int
  /\ tableRowList \in Seq(Entries)
  /\ aggregaterow \in Int
  /\ aggregaterow <= 6000000 * AggregationsBefore(ssdAt)

\* What a filter keeps is a number of rows.
LEMMA RowsKeptType ==
  ASSUME PlanInv, kept \in [Scans -> Ratio], NEW k \in Scans
  PROVE  RowsKept(k) \in Int
<1> DEFINE size == TableRows[plan[k].in[1]]
           num == kept[k].num
           den == kept[k].den
<1>1. size \in Nat
  BY TablesAssumption DEF PlanInv, plan, Scans
<1>2. num \in Nat /\ den \in Nat \ {0}
  BY DEF Ratio
<1>3. RowsKept(k) = (size * num) \div den
  BY DEF RowsKept, Share
<1> HIDE DEF size, num, den
<1>4. size * num \in Int
  BY <1>1, <1>2
<1> QED BY <1>2, <1>3, <1>4

\* What an aggregation reads is an integer, and little of it counts.
LEMMA LimitedRead ==
  ASSUME SumInv, NEW name, NEW read \in RowsRead(name)
  PROVE  Limited(read.rows) \in Int /\ Limited(read.rows) <= 6000000
<1>1. read.rows \in Int
  BY BeyondAssumption DEF RowsRead, SumInv
<1> QED BY <1>1 DEF Limited

\* The sum starts at nothing.
LEMMA SumInit == Init => SumInv
<1> SUFFICES ASSUME Init PROVE SumInv
  OBVIOUS
<1>1. PlanInv
  BY DEF Init, CSDInit, StorageInit, ChosenPlan, PlanInv
<1>2. Len(plan) \in Nat /\ DOMAIN plan = 1..Len(plan)
  BY <1>1, PlanIsSequence
<1>3. kept \in [Scans -> Ratio]
  <2>1. /\ kept \in [Scans -> UNION {KeptByScan(k) : k \in Scans}]
        /\ \A k \in Scans : kept[k] \in KeptByScan(k)
    BY DEF Init, CSDInit, StorageInit, ChosenPlan
  <2>2. \A k \in Scans : KeptByScan(k) \subseteq Ratio
    BY <1>1, RatiosAssumption DEF PlanInv, plan, Scans, KeptByScan, One, Ratio
  <2> QED BY <2>1, <2>2
<1>4. AggregationsBefore(1) = 0
  <2>1. {m \in 1..1 - 1 : plan[m].type = "Aggregation"} = {}
    OBVIOUS
  <2> QED BY <2>1, FS_EmptySet DEF AggregationsBefore, CountBefore
<1>5. ssdAt = 1 /\ tableRowList = <<>> /\ aggregaterow = 0
  BY DEF Init, SSDInit
<1>6. tableRowList \in Seq(Entries) /\ DOMAIN tableRowList = {}
  BY <1>5
<1> QED BY <1>1, <1>2, <1>3, <1>4, <1>5, <1>6 DEF SumInv

\* SumInv survives every step.
LEMMA SumStep ==
  ASSUME SumInv, [Next]_vars
  PROVE  SumInv'
<1>1. query' = query /\ kept' = kept
  BY PlanKept
<1>2. /\ PlanInv' /\ plan' = plan /\ Scans' = Scans /\ Entries' = Entries
      /\ kept' \in [Scans' -> Ratio]
  BY <1>1 DEF SumInv, PlanInv, plan, Scans, Entries, RowsKept
<1>3. Len(plan) \in Nat /\ DOMAIN plan = 1..Len(plan)
  BY PlanIsSequence DEF SumInv
<1>4. ASSUME NextSnippet
      PROVE  /\ ssdAt \in 1..Len(plan) /\ ssdAt' = ssdAt + 1 /\ ssdAt' \in 1..Len(plan') + 1
             /\ AggregationsBefore(ssdAt) \in Nat
             /\ AggregationsBefore(ssdAt)' =
                  AggregationsBefore(ssdAt) + (IF plan[ssdAt].type = "Aggregation" THEN 1 ELSE 0)
  <2>1. ssdAt \in 1..Len(plan) /\ ssdAt' = ssdAt + 1
    BY <1>3, <1>4 DEF NextSnippet, SumInv
  <2>2. AggregationsBefore(ssdAt)' = AggregationsBefore(ssdAt + 1)
    BY <1>2, <2>1 DEF AggregationsBefore
  <2> QED BY <1>2, <1>3, <2>1, <2>2, OneMore DEF SumInv, AggregationsBefore
<1>5. CASE ScanTable
  <2>1. NextSnippet /\ UNCHANGED aggregaterow /\ ssdAt \in Scans
    BY <1>5 DEF ScanTable
  <2>2. aggregaterow' <= 6000000 * AggregationsBefore(ssdAt)'
    BY <1>4, <2>1 DEF SumInv, Scans
  <2> DEFINE entry == [of |-> plan[ssdAt].alias, rows |-> RowsKept(ssdAt)]
  <2>3. entry \in Entries /\ entry.rows \in Int
    BY <1>1, <2>1, RowsKeptType DEF SumInv, Entries, Scans
  <2>4. tableRowList' = Append(tableRowList, entry)
    BY <1>5 DEF ScanTable, RowListWith
  <2> HIDE DEF entry
  <2>5. tableRowList' \in Seq(Entries) /\ \A k \in DOMAIN tableRowList' : tableRowList'[k].rows \in Int
    BY <2>3, <2>4 DEF SumInv
  <2> QED BY <1>2, <1>4, <2>1, <2>2, <2>5 DEF SumInv
<1>6. CASE AggregateRows
  <2>1. NextSnippet /\ plan[ssdAt].type = "Aggregation" /\ UNCHANGED tableRowList
    BY <1>6 DEF AggregateRows
  <2>2. PICK read \in RowsRead(plan[ssdAt].in[1]) : aggregaterow' = aggregaterow + Limited(read.rows)
    BY <1>6 DEF AggregateRows
  <2>3. Limited(read.rows) \in Int /\ Limited(read.rows) <= 6000000
    BY LimitedRead
  <2>4. aggregaterow' \in Int /\ aggregaterow' <= 6000000 * AggregationsBefore(ssdAt)'
    BY <1>4, <2>1, <2>2, <2>3 DEF SumInv
  <2> QED BY <1>2, <1>4, <2>1, <2>4 DEF SumInv
<1>7. CASE PassSnippet
  <2>1. NextSnippet /\ plan[ssdAt].type # "Aggregation" /\ UNCHANGED <<tableRowList, aggregaterow>>
    BY <1>7 DEF PassSnippet
  <2>2. aggregaterow' <= 6000000 * AggregationsBefore(ssdAt)'
    BY <1>4, <2>1 DEF SumInv
  <2> QED BY <1>2, <1>4, <2>1, <2>2 DEF SumInv
<1>8. CASE UNCHANGED ssdVars
  BY <1>2, <1>8 DEF SumInv, ssdVars, AggregationsBefore
<1> QED
  BY <1>5, <1>6, <1>7, <1>8 DEF Next, Validate_CSD, Validate_SSD, SSDNext, Done, vars

\* Whatever the tables and whatever lies behind tableRowList, a hundred times the
\* rows executeSSDValidate aggregates fit into an int, for plans with at most
\* three aggregations.
THEOREM AggregatedFit ==
  ASSUME \A q \in DOMAIN Plans : FewAggregations(Plans[q])
  PROVE  Spec => []AggregatedRowsFit
<1>1. SumInv => AggregatedRowsFit
  <2> SUFFICES ASSUME SumInv PROVE AggregatedRowsFit
    OBVIOUS
  <2>1. AggregationsBefore(ssdAt) \in Nat /\ AggregationsBefore(ssdAt) <= AggregationsBefore(Len(plan) + 1)
    BY NoMoreThanAll DEF SumInv, AggregationsBefore
  <2>2. AggregationsBefore(Len(plan) + 1) <= 3 /\ AggregationsBefore(Len(plan) + 1) \in Nat
    BY NoMoreThanAll DEF SumInv, PlanInv, plan, FewAggregations, AggregationsBefore
  <2>3. aggregaterow \in Int /\ aggregaterow <= 6000000 * AggregationsBefore(ssdAt)
    BY DEF SumInv
  <2>4. aggregaterow <= 18000000
    BY <2>1, <2>2, <2>3
  <2> QED BY <2>3, <2>4 DEF AggregatedRowsFit, MaxInt
<1> QED BY <1>1, SumInit, SumStep, PTL DEF Spec

-----------------------------------------------------------------------------
(***************************************************************************)
(* A sequence of values may be given by its first and by how each follows  *)
(* from the one before.  (The library's theorem takes an operator for the  *)
(* latter; here it is a function.)                                         *)
(***************************************************************************)
Follows(s, V, a, g, n) == s \in [0..n -> V] /\ s[0] = a /\ \A m \in 0..n - 1 : s[m + 1] = g[m][s[m]]

\* Every beginning of the sequence exists.
LEMMA Beginnings ==
  ASSUME NEW V, NEW a \in V, NEW g \in [Nat -> [V -> V]], NEW n \in Nat
  PROVE  \E s : Follows(s, V, a, g, n)
<1> DEFINE T == {m \in Nat : ~\E s : Follows(s, V, a, g, m)}
<1> SUFFICES ASSUME T # {} PROVE FALSE
  OBVIOUS
<1>1. PICK m \in T : \A k \in T : m <= k
  <2>1. T \subseteq Nat
    OBVIOUS
  <2> HIDE DEF T
  <2> QED BY <2>1, Least
<1>2. CASE m = 0
  <2> DEFINE s == [x \in 0..0 |-> a]
  <2>1. Follows(s, V, a, g, 0)
    BY DEF Follows
  <2> QED BY <1>2, <2>1
<1>3. CASE m # 0
  <2>1. PICK k \in Nat : m = k + 1
    <3>1. m - 1 \in Nat /\ m = (m - 1) + 1
      BY <1>3
    <3> QED BY <3>1
  <2>2. k \notin T
    BY <1>1, <2>1
  <2>3. PICK s : Follows(s, V, a, g, k)
    BY <2>2
  <2> DEFINE t == [x \in 0..m |-> IF x = m THEN g[k][s[k]] ELSE s[x]]
  <2>4. s \in [0..k -> V] /\ s[0] = a /\ \A x \in 0..k - 1 : s[x + 1] = g[x][s[x]]
    BY <2>3 DEF Follows
  <2>5. \A x \in 0..m : x = m \/ x \in 0..k
    BY <2>1
  <2>6. g[k][s[k]] \in V
    <3>1. s[k] \in V /\ g[k] \in [V -> V]
      BY <2>1, <2>4
    <3> QED BY <3>1
  <2>7. t \in [0..m -> V]
    BY <2>4, <2>5, <2>6
  <2>8. t[0] = a
    BY <2>1, <2>4
  <2>9. ASSUME NEW x \in 0..m - 1 PROVE t[x + 1] = g[x][t[x]]
    <3>1. x \in 0..k /\ x + 1 \in 0..m /\ t[x] = s[x]
      BY <2>1
    <3>2. CASE x = k
      BY <2>1, <3>1, <3>2
    <3>3. CASE x # k
      <4>1. x \in 0..k - 1 /\ x + 1 # m
        BY <2>1, <3>1, <3>3
      <4> QED BY <2>4, <3>1, <4>1
    <3> QED BY <3>2, <3>3
  <2> HIDE DEF t
  <2>10. Follows(t, V, a, g, m)
    BY <2>7, <2>8, <2>9 DEF Follows
  <2> QED BY <2>10
<1> QED BY <1>2, <1>3

\* Two beginnings agree as far as both go.
LEMMA BeginningsAgree ==
  ASSUME NEW V, NEW a, NEW g, NEW n \in Nat, NEW k \in Nat, k <= n, NEW s, NEW t,
         Follows(s, V, a, g, n), Follows(t, V, a, g, k)
  PROVE  s[k] = t[k]
<1> DEFINE T == {m \in 0..k : s[m] # t[m]}
<1>1. CASE T = {}
  BY <1>1
<1>2. CASE T # {}
  <2>1. PICK m \in T : \A x \in T : m <= x
    <3>1. T \subseteq Nat
      OBVIOUS
    <3> HIDE DEF T
    <3> QED BY <1>2, <3>1, Least
  <2>2. m # 0
    BY DEF Follows
  <2>3. PICK x \in Nat : m = x + 1
    <3>1. m - 1 \in Nat /\ m = (m - 1) + 1
      BY <2>2
    <3> QED BY <3>1
  <2>4. x \in 0..k - 1 /\ x \in 0..n - 1 /\ s[x] = t[x]
    BY <2>1, <2>3
  <2> QED BY <2>1, <2>3, <2>4 DEF Follows
<1> QED BY <1>1, <1>2

Leads(V, g) == g \in [Nat -> [V -> V]]
Goes(s, V, a, g) == s \in [Nat -> V] /\ s[0] = a /\ \A n \in Nat : s[n + 1] = g[n][s[n]]

\* So the whole sequence exists.
LEMMA Recursion ==
  ASSUME NEW V, NEW a, NEW g, a \in V, Leads(V, g)
  PROVE  \E s : Goes(s, V, a, g)
<1> USE DEF Leads, Goes
<1> DEFINE b(n) == CHOOSE s : Follows(s, V, a, g, n)
           s == [n \in Nat |-> b(n)[n]]
<1>1. \A n \in Nat : Follows(b(n), V, a, g, n)
  BY Beginnings
<1> HIDE DEF b
<1>2. s \in [Nat -> V]
  BY <1>1 DEF Follows
<1>3. s[0] = a
  BY <1>1 DEF Follows
<1>4. ASSUME NEW n \in Nat PROVE s[n + 1] = g[n][s[n]]
  <2>1. b(n + 1)[n + 1] = g[n][b(n + 1)[n]]
    BY <1>1 DEF Follows
  <2>2. b(n + 1)[n] = b(n)[n]
    <3>1. n + 1 \in Nat /\ n <= n + 1
      OBVIOUS
    <3> QED BY <1>1, <3>1, BeginningsAgree
  <2> QED BY <2>1, <2>2
<1> QED BY <1>2, <1>3, <1>4

\* The divisor after any number of equalities is positive.
LEMMA DivisorsType ==
  ASSUME NEW m \in Nat \ {0}
  PROVE  Divisors(m) \in [Nat -> Nat \ {0}]
<1> DEFINE V == Nat \ {0}
           g == [n \in Nat |-> [v \in V |-> m * v]]
<1>1. \A v \in V : m * v \in V
  OBVIOUS
<1>2. g \in [Nat -> [V -> V]] /\ 1 \in V /\ \A n \in Nat, v \in V : g[n][v] = m * v
  BY <1>1
<1> HIDE DEF V, g
<1>3. PICK s \in [Nat -> V] : s[0] = 1 /\ \A n \in Nat : s[n + 1] = g[n][s[n]]
  <2>1. Leads(V, g) /\ 1 \in V
    BY <1>2 DEF Leads
  <2>2. PICK s : Goes(s, V, 1, g)
    BY <2>1, Recursion, Zenon
  <2> QED BY <2>2 DEF Goes
<1>4. \A n \in Nat : s[n] = IF n = 0 THEN 1 ELSE m * s[n - 1]
  <2> SUFFICES ASSUME NEW n \in Nat, n # 0 PROVE s[n] = m * s[n - 1]
    BY <1>3
  <2>1. n - 1 \in Nat /\ (n - 1) + 1 = n
    OBVIOUS
  <2> QED BY <1>2, <1>3, <2>1
<1>5. s = [n \in Nat |-> IF n = 0 THEN 1 ELSE m * s[n - 1]]
  BY <1>4
<1>6. Divisors(m) = [n \in Nat |-> IF n = 0 THEN 1 ELSE m * Divisors(m)[n - 1]]
  BY <1>5 DEF Divisors
<1> DEFINE T == {n \in Nat : Divisors(m)[n] \notin V}
<1>7. T = {}
  <2> SUFFICES ASSUME T # {} PROVE FALSE
    OBVIOUS
  <2>1. PICK n \in T : \A x \in T : n <= x
    <3>1. T \subseteq Nat
      OBVIOUS
    <3> HIDE DEF T
    <3> QED BY <3>1, Least
  <2>2. CASE n = 0
    BY <1>2, <1>6, <2>2
  <2>3. CASE n # 0
    <3>1. n - 1 \in Nat /\ ~(n <= n - 1)
      BY <2>3
    <3>2. Divisors(m)[n - 1] \in V
      BY <2>1, <3>1
    <3> QED BY <1>1, <1>6, <2>3, <3>2
  <2> QED BY <2>2, <2>3
<1> QED BY <1>6, <1>7 DEF V

(***************************************************************************)
(* StorageValidatorMain.  Shares of a whole are at most 1, and so are      *)
(* their products and complements: no estimate but a union's exceeds the   *)
(* largest table the plan scans.                                           *)
(***************************************************************************)
Estimates == [rows : Nat, ratio : Ratio, top : Nat]

Calculations ==
  [workID : Int, curRatio : Ratio, top : Nat, join : Int, joinTable : Int, agg : Int,
   groupBy : Int, exist : Int, depJoin : Int, union : Int, storFilter : Int, leftOuter : Int, in : Int]

Proper(r) == r.num <= r.den

Small(e) == e.rows <= LargestTable /\ Proper(e.ratio) /\ e.top <= LargestTable

Shrinks == OnlyShrinks(plan) /\ \A k \in Scans : Proper(kept[k])

\* NOT IN takes a complement, which is a share of the rows only if the ratio was one.
Complements == (\E k \in DOMAIN plan : plan[k].negated) => Shrinks

BoundsInv ==
  /\ PlanInv /\ kept \in [Scans -> Ratio]
  /\ i \in 0..Len(plan) + 1
  /\ i > 0 => est \in [DOMAIN plan -> Estimates] /\ \A k \in DOMAIN plan : k >= i => est[k] = Handed[k]
  /\ calc \in Calculations
  /\ Shrinks => /\ Proper(calc.curRatio) /\ calc.top <= LargestTable
                /\ \A k \in 1..i - 1 : Small(est[k])

\* A product of two numbers is at most the product of two larger ones.
LEMMA ProductLess ==
  ASSUME NEW a \in Nat, NEW b \in Nat, NEW c \in Nat, NEW d \in Nat, a <= b, c <= d
  PROVE  a * c <= b * d /\ a * c \in Nat
<1>1. PICK x \in Nat : b = a + x
  <2>1. b - a \in Nat /\ b = a + (b - a)
    OBVIOUS
  <2> QED BY <2>1
<1>2. PICK y \in Nat : d = c + y
  <2>1. d - c \in Nat /\ d = c + (d - c)
    OBVIOUS
  <2> QED BY <2>1
<1>3. b * d = a * c + (a * y + x * c + x * y)
  BY <1>1, <1>2
<1>4. a * c \in Nat /\ a * y \in Nat /\ x * c \in Nat /\ x * y \in Nat
  OBVIOUS
<1> QED BY <1>3, <1>4

\* A quotient by a number is at most another if the dividend is at most its multiple.
LEMMA QuotientLess ==
  ASSUME NEW n \in Nat, NEW r \in Nat, NEW d \in Nat \ {0}, n <= r * d
  PROVE  n \div d \in Nat /\ n \div d <= r
<1>1. PICK q \in Int : q = n \div d
  OBVIOUS
<1>2. d * q <= n /\ n < d * q + d
  BY <1>1
<1>3. q >= 0
  <2> SUFFICES ASSUME q < 0 PROVE FALSE
    BY <1>1
  <2>1. PICK p \in Nat : q = -1 - p
    <3>1. -1 - q \in Nat /\ q = -1 - (-1 - q)
      OBVIOUS
    <3> QED BY <3>1
  <2>2. d * q + d = -(d * p)
    BY <2>1
  <2>3. d * p \in Nat
    BY <2>1
  <2> QED BY <1>2, <2>2, <2>3
<1>4. q <= r
  <2> SUFFICES ASSUME q > r PROVE FALSE
    OBVIOUS
  <2>1. PICK p \in Nat : q = r + 1 + p
    <3>1. q - r - 1 \in Nat /\ q = r + 1 + (q - r - 1)
      OBVIOUS
    <3> QED BY <3>1
  <2>2. d * q = r * d + d + d * p
    BY <2>1
  <2>3. d * p \in Nat
    BY <2>1
  <2> QED BY <1>2, <2>2, <2>3
<1> QED BY <1>1, <1>3, <1>4

\* A share of some rows is a number of rows, and of a proper share not more of them.
LEMMA ShareOf ==
  ASSUME NEW n \in Nat, NEW r \in Ratio
  PROVE  /\ Share(n, r) \in Nat
         /\ Proper(r) => Share(n, r) <= n
<1>1. PICK num \in Nat, den \in Nat \ {0} : num = r.num /\ den = r.den
  BY DEF Ratio
<1>2. n * num \in Nat
  OBVIOUS
<1>3. PICK total \in Nat : total = n * num
  BY <1>2
<1>4. Share(n, r) = total \div den
  BY <1>1, <1>3 DEF Share
<1>5. total \div den \in Nat
  <2>1. total <= total * den
    <3>1. total * 1 <= total * den
      BY ProductLess
    <3> QED BY <3>1
  <2> QED BY <2>1, QuotientLess
<1>6. ASSUME Proper(r) PROVE total \div den <= n
  <2>1. n * num <= n * den
    BY <1>1, <1>6, ProductLess DEF Proper
  <2> QED BY <1>3, <2>1, QuotientLess
<1> QED BY <1>4, <1>5, <1>6

\* The product of two ratios is one, proper if both are.
LEMMA ProductOf ==
  ASSUME NEW r \in Ratio, NEW s \in Ratio
  PROVE  /\ ScalesWith(r, s) \in Ratio
         /\ Proper(r) /\ Proper(s) => Proper(ScalesWith(r, s))
<1>1. PICK a \in Nat, b \in Nat \ {0} : a = r.num /\ b = r.den
  BY DEF Ratio
<1>2. PICK c \in Nat, d \in Nat \ {0} : c = s.num /\ d = s.den
  BY DEF Ratio
<1>3. ScalesWith(r, s) = [num |-> a * c, den |-> b * d]
  BY <1>1, <1>2 DEF ScalesWith
<1>4. a * c \in Nat /\ b * d \in Nat \ {0}
  OBVIOUS
<1>5. Proper(r) /\ Proper(s) => a * c <= b * d
  BY <1>1, <1>2, ProductLess DEF Proper
<1> QED BY <1>3, <1>4, <1>5 DEF Ratio, Proper

\* The complement of a proper ratio is one.
LEMMA ComplementOf ==
  ASSUME NEW r \in Ratio, Proper(r)
  PROVE  Complement(r) \in Ratio /\ Proper(Complement(r))
<1>1. PICK a \in Nat, b \in Nat \ {0} : a = r.num /\ b = r.den /\ a <= b
  BY DEF Ratio, Proper
<1>2. Complement(r) = [num |-> b - a, den |-> b]
  BY <1>1 DEF Complement
<1>3. b - a \in Nat /\ b - a <= b
  BY <1>1
<1> QED BY <1>2, <1>3 DEF Ratio, Proper

\* The sum of two ratios is one.
LEMMA SumOf ==
  ASSUME NEW r \in Ratio, NEW s \in Ratio
  PROVE  Plus(r, s) \in Ratio
<1>1. PICK a \in Nat, b \in Nat \ {0} : a = r.num /\ b = r.den
  BY DEF Ratio
<1>2. PICK c \in Nat, d \in Nat \ {0} : c = s.num /\ d = s.den
  BY DEF Ratio
<1>3. a + c \in Nat /\ a * d + c * b \in Nat /\ b * d \in Nat \ {0}
  OBVIOUS
<1>4. Plus(r, s) = IF b = d THEN [num |-> a + c, den |-> b] ELSE [num |-> a * d + c * b, den |-> b * d]
  BY <1>1, <1>2 DEF Plus
<1> QED BY <1>3, <1>4 DEF Ratio

\* The larger of three numbers, and the larger and the smaller of two.
LEMMA LargerOf ==
  ASSUME NEW a \in Nat, NEW b \in Nat, NEW c \in Nat
  PROVE  /\ Max({a, b, c}) \in {a, b, c}
         /\ Max({a, b}) \in Nat
         /\ Min({a, b}) \in Nat
<1>1. a + b + c \in Int /\ {a, b, c} \subseteq 0..a + b + c /\ {a, b} \subseteq 0..a + b + c
  OBVIOUS
<1>2. Max({a, b, c}) \in {a, b, c}
  BY <1>1, Greatest
<1>3. Max({a, b}) \in {a, b}
  BY <1>1, Greatest
<1>4. Min({a, b}) \in {a, b}
  <2>1. \E x \in {a, b} : \A y \in {a, b} : x <= y
    BY Least
  <2> QED BY <2>1 DEF Min
<1> QED BY <1>2, <1>3, <1>4

\* Of finitely many tables one is the largest.
LEMMA LargestType ==
  ASSUME PlanInv, OnlyShrinks(plan)
  PROVE  /\ LargestTable \in Nat
         /\ \A k \in Scans : TableRows[plan[k].in[1]] \in Nat /\ TableRows[plan[k].in[1]] <= LargestTable
<1> DEFINE size(k) == TableRows[plan[k].in[1]]
           T == {n \in Nat : n <= Len(plan) /\ ~\E b \in Nat : \A k \in Scans : k <= n => size(k) <= b}
<1>1. Len(plan) \in Nat /\ DOMAIN plan = 1..Len(plan)
  BY PlanIsSequence
<1>2. \A k \in Scans : k \in 1..Len(plan) /\ size(k) \in Nat
  BY <1>1, TablesAssumption DEF PlanInv, plan, Scans
<1> HIDE DEF size
<1>3. CASE T = {}
  <2>1. Len(plan) \notin T
    BY <1>3
  <2>2. PICK b \in Nat : \A k \in Scans : k <= Len(plan) => size(k) <= b
    BY <1>1, <2>1
  <2> DEFINE S == {size(k) : k \in Scans}
  <2>3. S \subseteq 0..b
    BY <1>1, <1>2, <2>2
  <2>4. S # {}
    BY DEF OnlyShrinks, Scans
  <2>5. LargestTable = Max(S)
    BY DEF LargestTable, LargestOf, Scans, size
  <2>6. Max(S) \in S /\ \A y \in S : y <= Max(S)
    <3> HIDE DEF S
    <3>1. 0 \in Int /\ b \in Int
      OBVIOUS
    <3> QED BY <2>3, <2>4, <3>1, Greatest
  <2> QED BY <1>2, <2>3, <2>5, <2>6 DEF size
<1>4. CASE T # {}
  <2>1. PICK n \in T : \A x \in T : n <= x
    <3>1. T \subseteq Nat
      OBVIOUS
    <3> HIDE DEF T
    <3> QED BY <1>4, <3>1, Least
  <2>2. n \in Nat /\ n <= Len(plan) /\ ~\E b \in Nat : \A k \in Scans : k <= n => size(k) <= b
    BY <2>1
  <2>3. n # 0
    <3>1. \A k \in Scans : ~(k <= 0)
      BY <1>2
    <3> QED BY <2>2, <3>1
  <2>4. PICK b \in Nat : \A k \in Scans : k <= n - 1 => size(k) <= b
    <3>1. n - 1 \in Nat /\ n - 1 <= Len(plan) /\ ~(n <= n - 1)
      BY <1>1, <2>2, <2>3
    <3>2. n - 1 \notin T
      BY <2>1, <3>1
    <3> QED BY <3>1, <3>2
  <2> HIDE DEF T
  <2>5. PICK c \in Nat : b <= c /\ (n \in Scans => size(n) <= c)
    <3>1. CASE n \in Scans
      <4>1. PICK a \in Nat : a = size(n)
        BY <1>2, <3>1
      <4>2. b + a \in Nat /\ b <= b + a /\ a <= b + a
        OBVIOUS
      <4> QED BY <4>1, <4>2
    <3>2. CASE n \notin Scans
      BY <3>2
    <3> QED BY <3>1, <3>2
  <2>6. \A k \in Scans : k <= n => size(k) <= c
    <3> SUFFICES ASSUME NEW k \in Scans, k <= n PROVE size(k) <= c
      OBVIOUS
    <3>1. PICK a \in Nat : a = size(k)
      BY <1>2
    <3>2. k \in Int /\ (k = n \/ k <= n - 1)
      BY <1>1, <1>2, <2>2
    <3>3. CASE k = n
      BY <2>5, <3>3
    <3>4. CASE k <= n - 1
      <4>1. a <= b
        BY <2>4, <3>1, <3>4
      <4> QED BY <2>5, <3>1, <4>1
    <3> QED BY <3>2, <3>3, <3>4
  <2> QED BY <2>2, <2>6
<1> QED BY <1>3, <1>4

\* What the loop starts from: a scan has a share of its table, and any other
\* snippet the number of its filters.
LEMMA HandedType ==
  ASSUME PlanInv, kept \in [Scans -> Ratio], NEW k \in DOMAIN plan
  PROVE  /\ Handed[k] \in Estimates
         /\ Shrinks => Proper(Handed[k].ratio) /\ Handed[k].top <= LargestTable
         /\ Shrinks /\ k \in Scans => Small(Handed[k])
         /\ k \notin Scans => Handed[k].rows = plan[k].filters
<1>1. Proper(One) /\ One \in Ratio
  BY DEF Proper, One, Ratio
<1>2. Shrinks => LargestTable \in Nat
  BY LargestType DEF Shrinks
<1>3. CASE k \in Scans
  <2> DEFINE size == TableRows[plan[k].in[1]]
  <2>1. size \in Nat /\ kept[k] \in Ratio
    BY <1>3, TablesAssumption DEF PlanInv, plan, Scans
  <2>2. Handed[k] = [rows |-> Share(size, kept[k]), ratio |-> kept[k], top |-> size]
    BY <1>3 DEF Handed, ScanEstimate, RowsKept
  <2>3. Shrinks => size <= LargestTable /\ Proper(kept[k])
    BY <1>3, LargestType DEF Shrinks
  <2> HIDE DEF size
  <2>4. Share(size, kept[k]) \in Nat /\ (Proper(kept[k]) => Share(size, kept[k]) <= size)
    BY <2>1, ShareOf
  <2>5. PICK n \in Nat : n = Share(size, kept[k])
    BY <2>4
  <2>6. Shrinks => n <= LargestTable
    BY <1>2, <2>1, <2>3, <2>4, <2>5
  <2> QED BY <1>3, <2>1, <2>2, <2>3, <2>5, <2>6 DEF Estimates, Small
<1>4. CASE k \notin Scans
  <2>1. plan[k].filters \in Nat
    BY SnippetsAssumption DEF PlanInv, plan
  <2>2. Handed[k] = [rows |-> plan[k].filters, ratio |-> One, top |-> 0]
    BY <1>4 DEF Handed, Parsed
  <2> QED BY <1>1, <1>2, <1>4, <2>1, <2>2 DEF Estimates
<1> QED BY <1>3, <1>4

\* What a snippet reads is an estimate before it, or the default.
LEMMA Inputs ==
  ASSUME BoundsInv, i \in DOMAIN plan, NEW name
  PROVE  Target(name) \in Estimates /\ (Shrinks => Small(Target(name)))
<1>1. Len(plan) \in Nat /\ DOMAIN plan = 1..Len(plan)
  BY PlanIsSequence DEF BoundsInv
<1>2. CASE Producers(name) = {}
  <2>1. Target(name) = [rows |-> 0, ratio |-> One, top |-> 0]
    BY <1>2 DEF Target, NoSnippet
  <2>2. Shrinks => LargestTable \in Nat
    BY LargestType DEF BoundsInv, Shrinks
  <2>3. Proper(One) /\ One \in Ratio
    BY DEF Proper, One, Ratio
  <2> QED BY <2>1, <2>2, <2>3 DEF Estimates, Small
<1>3. CASE Producers(name) # {}
  <2>1. i \in 1..Len(plan)
    BY <1>1
  <2>2. Producers(name) \subseteq 1..i - 1 /\ 1 \in Int /\ i - 1 \in Int
    BY <2>1 DEF Producers
  <2>3. Max(Producers(name)) \in Producers(name)
    BY <1>3, <2>2, Greatest
  <2>4. PICK m \in 1..i - 1 : m = Max(Producers(name))
    BY <2>2, <2>3
  <2>5. Target(name) = est[m]
    BY <1>3, <2>4 DEF Target
  <2>6. m \in DOMAIN plan /\ i > 0
    BY <1>1, <2>1
  <2> QED BY <2>5, <2>6 DEF BoundsInv
<1> QED BY <1>2, <1>3

\* One more estimate.
LEMMA OneEstimate ==
  ASSUME BoundsInv, i \in DOMAIN plan, Advance,
         NEW e \in Estimates, est' = [est EXCEPT ![i] = e], Shrinks => Small(e),
         calc' \in Calculations, Shrinks => Proper(calc'.curRatio) /\ calc'.top <= LargestTable
  PROVE  BoundsInv'
<1>1. Len(plan) \in Nat /\ DOMAIN plan = 1..Len(plan)
  BY PlanIsSequence DEF BoundsInv
<1>2. query' = query /\ kept' = kept /\ i' = i + 1
  BY DEF Advance
<1>3. plan' = plan /\ Scans' = Scans /\ LargestTable' = LargestTable /\ PlanInv'
  BY <1>2 DEF plan, Scans, LargestTable, PlanInv, BoundsInv
<1>4. Handed' = Handed /\ (Shrinks' <=> Shrinks)
  BY <1>2, <1>3 DEF Handed, ScanEstimate, RowsKept, Parsed, Shrinks
<1>5. i \in 1..Len(plan) /\ i' > 0 /\ i' \in 0..Len(plan) + 1
  BY <1>1, <1>2
<1>6. est \in [DOMAIN plan -> Estimates] /\ \A k \in DOMAIN plan : k >= i => est[k] = Handed[k]
  BY <1>5 DEF BoundsInv
<1>7. est' \in [DOMAIN plan -> Estimates]
  BY <1>6
<1>8. \A k \in DOMAIN plan : k >= i' => est'[k] = Handed[k]
  <2>1. \A k \in DOMAIN plan : k >= i' => k >= i /\ k # i
    BY <1>1, <1>2
  <2> QED BY <1>6, <2>1
<1>9. ASSUME Shrinks, NEW k \in 1..i' - 1 PROVE Small(est'[k])
  <2>1. k \in DOMAIN plan /\ (k = i \/ k \in 1..i - 1)
    BY <1>1, <1>2, <1>5
  <2>2. CASE k = i
    BY <1>6, <1>9, <2>2
  <2>3. CASE k # i
    <3>1. est'[k] = est[k] /\ k \in 1..i - 1
      BY <1>6, <2>1, <2>3
    <3> QED BY <1>9, <3>1 DEF BoundsInv
  <2> QED BY <2>2, <2>3
<1>10. (\A k \in 1..i - 1 : Small(est[k]))' <=> \A k \in 1..i' - 1 : Small(est'[k])
  BY <1>3 DEF Small
<1>11. Proper(calc.curRatio)' <=> Proper(calc'.curRatio)
  BY DEF Proper
<1>12. kept' \in [Scans' -> Ratio]
  BY <1>2, <1>3 DEF BoundsInv
<1> QED BY <1>3, <1>4, <1>5, <1>7, <1>8, <1>9, <1>10, <1>11, <1>12 DEF BoundsInv

\* What the joins make of their two inputs.
LEMMA JoinedInputs ==
  ASSUME BoundsInv, i \in DOMAIN plan
  PROVE  /\ In1.rows \in Nat /\ In2.rows \in Nat /\ Smaller \in Nat /\ Larger \in Nat
         /\ TopRow \in Nat /\ (Shrinks => TopRow <= LargestTable)
         /\ JoinRatio \in Ratio /\ (Shrinks => Proper(JoinRatio))
<1>1. /\ In1 \in Estimates /\ In2 \in Estimates
      /\ Shrinks => Small(In1) /\ Small(In2)
  BY Inputs DEF In1, In2
<1>2. In1.rows \in Nat /\ In2.rows \in Nat /\ In1.top \in Nat /\ In2.top \in Nat /\ calc.top \in Nat
  BY <1>1 DEF Estimates, BoundsInv, Calculations
<1>3. Smaller \in Nat /\ Larger \in Nat
  BY <1>2, LargerOf DEF Smaller, Larger
<1>4. TopRow \in {calc.top, In1.top, In2.top}
  BY <1>2, LargerOf DEF TopRow
<1>5. Shrinks => TopRow <= LargestTable
  BY <1>1, <1>4 DEF BoundsInv, Small
<1>6. JoinRatio \in Ratio /\ (Shrinks => Proper(JoinRatio))
  <2>1. In1.ratio \in Ratio /\ In2.ratio \in Ratio
    BY <1>1 DEF Estimates
  <2> QED BY <1>1, <2>1, ProductOf DEF JoinRatio, Small
<1> QED BY <1>2, <1>3, <1>4, <1>5, <1>6

\* An estimate with other rows and another ratio.
LEMMA RowsAndRatio ==
  ASSUME NEW e \in Estimates, NEW n \in Nat, NEW r \in Ratio
  PROVE  [e EXCEPT !.rows = n, !.ratio = r] = [rows |-> n, ratio |-> r, top |-> e.top]
<1>1. PICK d : d = [e EXCEPT !.rows = n]
  OBVIOUS
<1>2. d \in Estimates /\ d.top = e.top /\ d.rows = n
  BY <1>1 DEF Estimates
<1>3. [d EXCEPT !.ratio = r] = [rows |-> n, ratio |-> r, top |-> e.top]
  BY <1>2 DEF Estimates
<1> QED BY <1>1, <1>3

\* A share of the largest top table, as joins estimate.
LEMMA JoinedEstimate ==
  ASSUME BoundsInv, i \in DOMAIN plan, NEW r \in Ratio, Shrinks => Proper(r)
  PROVE  /\ Share(TopRow, r) \in Nat /\ (Shrinks => Share(TopRow, r) <= LargestTable)
         /\ JoinEstimate(r) \in Estimates /\ (Shrinks => Small(JoinEstimate(r)))
<1>1. TopRow \in Nat /\ (Shrinks => TopRow <= LargestTable)
  BY JoinedInputs
<1>2. Share(TopRow, r) \in Nat /\ (Proper(r) => Share(TopRow, r) <= TopRow)
  BY <1>1, ShareOf
<1>3. Shrinks => LargestTable \in Nat
  BY LargestType DEF BoundsInv, Shrinks
<1>4. Shrinks => Share(TopRow, r) <= LargestTable
  BY <1>1, <1>2, <1>3
<1>5. est[i] = Handed[i] /\ Handed[i] \in Estimates /\ (Shrinks => Handed[i].top <= LargestTable)
  <2>1. i \in Nat /\ i > 0 /\ i >= i
    BY PlanIsSequence DEF BoundsInv
  <2> QED BY <2>1, HandedType DEF BoundsInv
<1>6. JoinEstimate(r) = [rows |-> Share(TopRow, r), ratio |-> r, top |-> Handed[i].top]
  BY <1>2, <1>5, RowsAndRatio DEF JoinEstimate
<1> QED BY <1>2, <1>4, <1>5, <1>6 DEF Estimates, Small

\* A step that leaves the estimate of a snippet leaves what was handed over.
LEMMA SameEstimate ==
  ASSUME BoundsInv, i \in DOMAIN plan
  PROVE  /\ est[i] = Handed[i] /\ est[i] \in Estimates /\ est = [est EXCEPT ![i] = est[i]]
         /\ est[i] = [rows |-> est[i].rows, ratio |-> est[i].ratio, top |-> est[i].top]
<1>1. i \in Nat /\ i > 0 /\ i >= i
  BY PlanIsSequence DEF BoundsInv
<1> QED BY <1>1 DEF BoundsInv, Estimates

\* Each of the steps stays within the bounds: passing a scan,
LEMMA CsdScannedStep ==
  ASSUME BoundsInv, CsdScanned
  PROVE  BoundsInv'
<1>1. i \in DOMAIN plan /\ i \in Scans /\ Advance /\ est' = est /\ calc' = calc
  BY DEF CsdScanned, AtType, This, Scans
<1>2. est[i] \in Estimates /\ est' = [est EXCEPT ![i] = est[i]] /\ est[i] = Handed[i]
  BY <1>1, SameEstimate
<1>3. Shrinks => Small(est[i])
  BY <1>1, <1>2, HandedType DEF BoundsInv
<1>4. calc' \in Calculations /\ (Shrinks => Proper(calc'.curRatio) /\ calc'.top <= LargestTable)
  BY <1>1 DEF BoundsInv
<1> QED BY <1>1, <1>2, <1>3, <1>4, OneEstimate

\* an aggregation,
LEMMA AggregationStep ==
  ASSUME BoundsInv, Aggregation
  PROVE  BoundsInv'
<1> DEFINE e == IF IsLargeOrders THEN [rows |-> 9, ratio |-> LargeOrders, top |-> 6000000]
                ELSE [est[i] EXCEPT !.rows = In1.rows]
           r == IF IsLargeOrders THEN LargeOrders ELSE In1.ratio
           s == This.projected - This.groupBy
           g == IF This.groupBy # 0 THEN In1.rows ELSE 0
<1>1. i \in DOMAIN plan /\ Advance /\ plan[i].type = "Aggregation" /\ i \notin Scans
  BY DEF Aggregation, AtType, This, Scans
<1>2. In1 \in Estimates /\ (Shrinks => Small(In1))
  BY <1>1, Inputs DEF In1
<1>3. In1.rows \in Nat /\ In1.ratio \in Ratio
  BY <1>2 DEF Estimates
<1>4. s \in Int
  <2>1. plan[i].projected \in Int /\ plan[i].groupBy \in Int
    BY <1>1, SnippetsAssumption DEF BoundsInv, PlanInv, plan
  <2> QED BY <2>1 DEF This
<1>5. g \in Int /\ i - 1 \in Int
  BY <1>3 DEF BoundsInv
<1>6. LargeOrders \in Ratio /\ Proper(LargeOrders)
  BY DEF LargeOrders, Ratio, Proper
<1>7. r \in Ratio /\ (Shrinks => Proper(r))
  BY <1>2, <1>3, <1>6 DEF Small
<1>8. e \in Estimates /\ (Shrinks => Small(e))
  <2>1. CASE IsLargeOrders
    <3>1. e = [rows |-> 9, ratio |-> LargeOrders, top |-> 6000000]
      BY <2>1
    <3>2. Shrinks => LargestTable \in Nat /\ LargestTable >= 6000000
      BY <1>1, <2>1, LargestType DEF BoundsInv, Shrinks, OnlyShrinks, LargestTable, IsLargeOrders, This
    <3> QED BY <1>6, <3>1, <3>2 DEF Estimates, Small
  <2>2. CASE ~IsLargeOrders
    <3>1. e = [rows |-> In1.rows, ratio |-> est[i].ratio, top |-> est[i].top]
      BY <1>1, <2>2, SameEstimate DEF Estimates
    <3>2. est[i] \in Estimates /\ (Shrinks => Proper(est[i].ratio) /\ est[i].top <= LargestTable)
      BY <1>1, SameEstimate, HandedType DEF BoundsInv
    <3> QED BY <1>2, <1>3, <3>1, <3>2 DEF Estimates, Small
  <2> QED BY <2>1, <2>2
<1>9. est' = [est EXCEPT ![i] = e]
  BY DEF Aggregation, Estimate
<1>10. calc' = [calc EXCEPT !.agg = @ + In1.rows * s, !.groupBy = @ + g, !.curRatio = r, !.workID = i - 1]
  BY DEF Aggregation
<1> HIDE DEF e, r, s, g
<1>11. calc' \in Calculations /\ (Shrinks => Proper(calc'.curRatio) /\ calc'.top <= LargestTable)
  <2>1. calc.agg + In1.rows * s \in Int /\ calc.groupBy + g \in Int
    <3>1. calc.agg \in Int /\ calc.groupBy \in Int
      BY DEF BoundsInv, Calculations
    <3>2. PICK n \in Int : n = In1.rows * s
      BY <1>3, <1>4
    <3> QED BY <1>5, <3>1, <3>2
  <2>2. PICK m \in Int, n \in Int : calc' = [calc EXCEPT !.agg = m, !.groupBy = n, !.curRatio = r, !.workID = i - 1]
    BY <1>10, <2>1
  <2>3. calc' \in Calculations
    BY <1>5, <1>7, <2>2 DEF Calculations, BoundsInv
  <2>4. calc'.curRatio = r /\ calc'.top = calc.top
    BY <2>2 DEF Calculations, BoundsInv
  <2> QED BY <1>7, <2>3, <2>4 DEF BoundsInv
<1> QED BY <1>1, <1>8, <1>9, <1>11, OneEstimate

\* a filter, which divides,
LEMMA Storage_FilterStep ==
  ASSUME BoundsInv, Storage_Filter
  PROVE  BoundsInv'
<1> DEFINE r == StorageFilterRate
           e == [est[i] EXCEPT !.rows = Share(In1.rows, r), !.ratio = ScalesWith(In1.ratio, r)]
<1>1. i \in DOMAIN plan /\ Advance
  BY DEF Storage_Filter, AtType
<1>2. In1 \in Estimates /\ (Shrinks => Small(In1))
  BY <1>1, Inputs DEF In1
<1>3. In1.rows \in Nat /\ In1.ratio \in Ratio
  BY <1>2 DEF Estimates
<1>4. r \in Ratio /\ Proper(r)
  <2>1. Target(This.column).rows \in Nat \ {0}
    BY <1>1, Inputs DEF Storage_Filter, Estimates
  <2>2. Equalities \in Nat
    <3>1. plan[i].filters \in Nat
      BY <1>1, SnippetsAssumption DEF BoundsInv, PlanInv, plan
    <3> QED BY <3>1 DEF Equalities, This
  <2>3. Divisors(Target(This.column).rows)[Equalities] \in Nat \ {0}
    BY <2>1, <2>2, DivisorsType
  <2> QED BY <2>3 DEF StorageFilterRate, Ratio, Proper
<1>5. Share(In1.rows, r) \in Nat /\ Share(In1.rows, r) <= In1.rows
  BY <1>3, <1>4, ShareOf
<1>6. ScalesWith(In1.ratio, r) \in Ratio /\ (Proper(In1.ratio) => Proper(ScalesWith(In1.ratio, r)))
  BY <1>3, <1>4, ProductOf
<1>7. est' = [est EXCEPT ![i] = e] /\ calc' = [calc EXCEPT !.storFilter = @ + In1.rows]
  BY DEF Storage_Filter, Estimate
<1> HIDE DEF r
<1>8. e \in Estimates /\ (Shrinks => Small(e))
  <2>1. e = [rows |-> Share(In1.rows, r), ratio |-> ScalesWith(In1.ratio, r), top |-> est[i].top]
    BY <1>1, <1>5, <1>6, SameEstimate, RowsAndRatio DEF e
  <2>2. est[i] \in Estimates /\ (Shrinks => est[i].top <= LargestTable)
    BY <1>1, SameEstimate, HandedType DEF BoundsInv
  <2>3. Shrinks => Share(In1.rows, r) <= LargestTable
    <3>1. PICK n \in Nat : n = Share(In1.rows, r)
      BY <1>5
    <3>2. Shrinks => LargestTable \in Nat
      BY LargestType DEF BoundsInv, Shrinks
    <3>3. Shrinks => In1.rows <= LargestTable
      BY <1>2 DEF Small
    <3> QED BY <1>3, <1>5, <3>1, <3>2, <3>3
  <2> QED BY <1>2, <1>5, <1>6, <2>1, <2>2, <2>3 DEF Estimates, Small
<1> HIDE DEF e
<1>9. calc' \in Calculations /\ (Shrinks => Proper(calc'.curRatio) /\ calc'.top <= LargestTable)
  <2>1. PICK n \in Int : calc' = [calc EXCEPT !.storFilter = n]
    <3>1. calc.storFilter \in Int
      BY DEF BoundsInv, Calculations
    <3>2. calc.storFilter + In1.rows \in Int
      BY <1>3, <3>1
    <3> QED BY <1>7, <3>2
  <2>2. calc' \in Calculations
    BY <2>1 DEF Calculations, BoundsInv
  <2>3. calc'.curRatio = calc.curRatio /\ calc'.top = calc.top
    BY <2>1 DEF Calculations, BoundsInv
  <2> QED BY <2>2, <2>3 DEF BoundsInv
<1> QED BY <1>1, <1>7, <1>8, <1>9, OneEstimate

\* a join,
LEMMA Inner_JoinStep ==
  ASSUME BoundsInv, Inner_Join
  PROVE  BoundsInv'
<1>1. i \in DOMAIN plan /\ Advance /\ est' = [est EXCEPT ![i] = JoinEstimate(JoinRatio)]
  BY DEF Inner_Join, AtType, Estimate
<1>2. /\ JoinRatio \in Ratio /\ (Shrinks => Proper(JoinRatio)) /\ Smaller \in Nat /\ Larger \in Nat
      /\ TopRow \in Nat /\ (Shrinks => TopRow <= LargestTable)
  BY <1>1, JoinedInputs
<1>3. JoinEstimate(JoinRatio) \in Estimates /\ (Shrinks => Small(JoinEstimate(JoinRatio)))
  BY <1>1, <1>2, JoinedEstimate
<1>4. i - 1 \in Int /\ calc.joinTable + Smaller \in Int /\ calc.join + Larger \in Int
  BY <1>2 DEF BoundsInv, Calculations
<1>5. PICK m \in Int, n \in Int :
        calc' = [calc EXCEPT !.top = TopRow, !.curRatio = JoinRatio, !.workID = i - 1, !.joinTable = m, !.join = n]
  BY <1>4 DEF Inner_Join
<1>6. calc' \in Calculations
  BY <1>2, <1>4, <1>5 DEF Calculations, BoundsInv
<1>7. calc'.curRatio = JoinRatio /\ calc'.top = TopRow
  BY <1>5 DEF Calculations, BoundsInv
<1> QED BY <1>1, <1>2, <1>3, <1>6, <1>7, OneEstimate

\* an outer join, whose ratio is of all joins so far,
LEMMA Left_Outer_JoinStep ==
  ASSUME BoundsInv, Left_Outer_Join
  PROVE  BoundsInv'
<1> DEFINE r == ScalesWith(calc.curRatio, JoinRatio)
           e == [est[i] EXCEPT !.rows = Share(TopRow, r)]
<1>1. i \in DOMAIN plan /\ Advance /\ est' = [est EXCEPT ![i] = e]
  BY DEF Left_Outer_Join, AtType, Estimate
<1>2. /\ JoinRatio \in Ratio /\ (Shrinks => Proper(JoinRatio)) /\ Larger \in Nat
      /\ TopRow \in Nat /\ (Shrinks => TopRow <= LargestTable)
  BY <1>1, JoinedInputs
<1>3. r \in Ratio /\ (Shrinks => Proper(r))
  <2>1. calc.curRatio \in Ratio /\ (Shrinks => Proper(calc.curRatio))
    BY DEF BoundsInv, Calculations
  <2> QED BY <1>2, <2>1, ProductOf
<1>4. calc' = [calc EXCEPT !.top = TopRow, !.curRatio = r, !.leftOuter = @ + Larger]
  BY DEF Left_Outer_Join
<1> HIDE DEF r
<1>5. Share(TopRow, r) \in Nat /\ (Shrinks => Share(TopRow, r) <= LargestTable)
  BY <1>1, <1>3, JoinedEstimate
<1>6. e \in Estimates /\ (Shrinks => Small(e))
  <2>1. e = [rows |-> Share(TopRow, r), ratio |-> est[i].ratio, top |-> est[i].top]
    BY <1>1, SameEstimate DEF Estimates
  <2>2. est[i] \in Estimates /\ (Shrinks => Proper(est[i].ratio) /\ est[i].top <= LargestTable)
    BY <1>1, SameEstimate, HandedType DEF BoundsInv
  <2> QED BY <1>5, <2>1, <2>2 DEF Estimates, Small
<1> HIDE DEF e
<1>7. calc.leftOuter + Larger \in Int
  BY <1>2 DEF BoundsInv, Calculations
<1>8. PICK n \in Int : calc' = [calc EXCEPT !.top = TopRow, !.curRatio = r, !.leftOuter = n]
  BY <1>4, <1>7
<1>9. calc' \in Calculations
  BY <1>2, <1>3, <1>8 DEF Calculations, BoundsInv
<1>10. calc'.curRatio = r /\ calc'.top = TopRow
  BY <1>8 DEF Calculations, BoundsInv
<1> QED BY <1>1, <1>2, <1>3, <1>6, <1>9, <1>10, OneEstimate

\* a union, which no plan that only shrinks has,
LEMMA UnionStep ==
  ASSUME BoundsInv, Union
  PROVE  BoundsInv'
<1> DEFINE r == Plus(In1.ratio, In2.ratio)
           e == [est[i] EXCEPT !.rows = In1.rows + In2.rows, !.ratio = r]
<1>1. i \in DOMAIN plan /\ Advance /\ est' = [est EXCEPT ![i] = e]
  BY DEF Union, AtType, Estimate
<1>2. ~Shrinks
  BY <1>1 DEF Union, AtType, This, Shrinks, OnlyShrinks
<1>3. In1 \in Estimates /\ In2 \in Estimates
  BY <1>1, Inputs DEF In1, In2
<1>4. In1.rows + In2.rows \in Nat
  BY <1>3 DEF Estimates
<1>5. r \in Ratio
  BY <1>3, SumOf DEF Estimates
<1>6. calc' = [calc EXCEPT !.union = @ + In1.rows + In2.rows]
  BY DEF Union
<1> HIDE DEF r
<1>7. e \in Estimates
  <2>1. e = [rows |-> In1.rows + In2.rows, ratio |-> r, top |-> est[i].top]
    BY <1>1, <1>4, <1>5, SameEstimate, RowsAndRatio DEF e
  <2>2. est[i].top \in Nat
    BY <1>1, SameEstimate DEF Estimates
  <2> QED BY <1>4, <1>5, <2>1, <2>2 DEF Estimates
<1> HIDE DEF e
<1>8. calc' \in Calculations
  <2>1. calc.union + In1.rows + In2.rows \in Int
    BY <1>3 DEF BoundsInv, Calculations, Estimates
  <2>2. PICK n \in Int : calc' = [calc EXCEPT !.union = n]
    BY <1>6, <2>1
  <2> QED BY <2>2 DEF Calculations, BoundsInv
<1> QED BY <1>1, <1>2, <1>7, <1>8, OneEstimate

\* IN and NOT IN,
LEMMA InStep ==
  ASSUME BoundsInv, Complements, In
  PROVE  BoundsInv'
<1> DEFINE r == IF This.negated THEN Complement(JoinRatio) ELSE JoinRatio
<1>1. i \in DOMAIN plan /\ Advance /\ est' = [est EXCEPT ![i] = JoinEstimate(r)]
  BY DEF In, AtType, Estimate
<1>2. /\ JoinRatio \in Ratio /\ (Shrinks => Proper(JoinRatio)) /\ In1.rows \in Nat /\ In2.rows \in Nat
      /\ TopRow \in Nat /\ (Shrinks => TopRow <= LargestTable)
  BY <1>1, JoinedInputs
<1>3. r \in Ratio /\ (Shrinks => Proper(r))
  <2>1. CASE This.negated
    <3>1. Shrinks
      BY <1>1, <2>1 DEF Complements, This
    <3> QED BY <1>2, <2>1, <3>1, ComplementOf
  <2>2. CASE ~This.negated
    BY <1>2, <2>2
  <2> QED BY <2>1, <2>2
<1>4. calc' = [calc EXCEPT !.top = TopRow, !.curRatio = r, !.workID = i - 1, !.in = @ + In1.rows + In2.rows]
  BY DEF In
<1> HIDE DEF r
<1>5. JoinEstimate(r) \in Estimates /\ (Shrinks => Small(JoinEstimate(r)))
  BY <1>1, <1>3, JoinedEstimate
<1>6. i - 1 \in Int /\ calc.in + In1.rows + In2.rows \in Int
  BY <1>2 DEF BoundsInv, Calculations
<1>7. PICK n \in Int : calc' = [calc EXCEPT !.top = TopRow, !.curRatio = r, !.workID = i - 1, !.in = n]
  BY <1>4, <1>6
<1>8. calc' \in Calculations
  BY <1>2, <1>3, <1>6, <1>7 DEF Calculations, BoundsInv
<1>9. calc'.curRatio = r /\ calc'.top = TopRow
  BY <1>7 DEF Calculations, BoundsInv
<1> QED BY <1>1, <1>2, <1>3, <1>5, <1>8, <1>9, OneEstimate

\* and the two dependent forms, in the last snippet or before it.
LEMMA DependStep ==
  ASSUME BoundsInv, NEW type \in {"Depend_Inner_Join", "Depend_Exist"},
         NEW sum \in Calculations, NEW added \in Calculations,
         added.curRatio = calc.curRatio, added.top = calc.top, Depend(type, sum, added)
  PROVE  BoundsInv'
<1>1. i \in DOMAIN plan /\ Advance /\ i \notin Scans /\ plan[i].type = type
  BY DEF Depend, AtType, This, Scans
<1>2. CASE IsLast
  <2>1. calc' = added /\ est' = est
    BY <1>2 DEF Depend
  <2>2. est[i] \in Estimates /\ est' = [est EXCEPT ![i] = est[i]] /\ est[i] = Handed[i]
    BY <1>1, <2>1, SameEstimate
  <2>3. Shrinks => Small(est[i])
    <3>1. Shrinks => plan[i].filters <= LargestTable
      BY <1>1 DEF Shrinks, OnlyShrinks, LargestTable
    <3> QED BY <1>1, <2>2, <3>1, HandedType DEF BoundsInv, Small
  <2>4. calc' \in Calculations /\ (Shrinks => Proper(calc'.curRatio) /\ calc'.top <= LargestTable)
    BY <2>1 DEF BoundsInv
  <2> QED BY <1>1, <2>2, <2>3, <2>4, OneEstimate
<1>3. CASE ~IsLast
  <2>1. /\ calc' = [sum EXCEPT !.top = TopRow, !.curRatio = JoinRatio, !.workID = i - 1]
        /\ est' = [est EXCEPT ![i] = JoinEstimate(JoinRatio)]
    BY <1>3 DEF Depend, Estimate
  <2>2. /\ JoinRatio \in Ratio /\ (Shrinks => Proper(JoinRatio))
        /\ TopRow \in Nat /\ (Shrinks => TopRow <= LargestTable)
    BY <1>1, JoinedInputs
  <2>3. JoinEstimate(JoinRatio) \in Estimates /\ (Shrinks => Small(JoinEstimate(JoinRatio)))
    BY <1>1, <2>2, JoinedEstimate
  <2>4. i - 1 \in Int
    BY DEF BoundsInv
  <2>5. calc' \in Calculations
    BY <2>1, <2>2, <2>4 DEF Calculations
  <2>6. calc'.curRatio = JoinRatio /\ calc'.top = TopRow
    BY <2>1 DEF Calculations
  <2> QED BY <1>1, <2>1, <2>2, <2>3, <2>5, <2>6, OneEstimate
<1> QED BY <1>2, <1>3

\* The product of the hundredths of two counts up to 3276799, which is half of what an int can be.
OneProduct == 1073676289

SmallTables == Shrinks /\ LargestTable <= 3276799

\* A product of the counts is an integer, and no more than that.
LEMMA PairsType ==
  ASSUME BoundsInv, i \in DOMAIN plan
  PROVE  Pairs \in Int /\ (SmallTables => 0 <= Pairs /\ Pairs <= OneProduct)
<1>1. In1.rows \in Nat /\ In2.rows \in Nat
  BY JoinedInputs
<1>2. Shrinks => In1.rows <= LargestTable /\ In2.rows <= LargestTable
  BY Inputs DEF In1, In2, Small
<1>3. Shrinks => LargestTable \in Nat
  BY LargestType DEF BoundsInv, Shrinks
<1>4. PICK m \in Int : m = In1.rows \div 100
  BY <1>1
<1>5. PICK n \in Int : n = In2.rows \div 100
  BY <1>1
<1>6. m >= 0 /\ n >= 0
  BY <1>1, <1>4, <1>5
<1>7. Pairs = IF n = 0 \/ m <= 2147483647 \div n THEN m * n ELSE -1
  BY <1>4, <1>5, SMT DEF Pairs, Times, Overflow, MaxInt
<1>8. m * n \in Nat
  BY <1>6
<1>9. ASSUME SmallTables PROVE (n = 0 \/ m <= 2147483647 \div n) /\ m * n <= OneProduct
  <2>1. m <= 32767 /\ n <= 32767
    BY <1>1, <1>2, <1>3, <1>4, <1>5, <1>9 DEF SmallTables
  <2>2. m * n <= 32767 * 32767
    BY <1>6, <2>1, ProductLess
  <2>3. m * n <= OneProduct
    BY <1>8, <2>2, SMT DEF OneProduct
  <2> SUFFICES ASSUME n # 0 PROVE m <= 2147483647 \div n
    BY <2>3
  <2>4. PICK q \in Int : q = 2147483647 \div n
    BY <1>6
  <2>5. 2147483647 < n * q + n
    BY <1>6, <2>4
  <2>6. q >= 32767
    <3> SUFFICES ASSUME q <= 32766 PROVE FALSE
      BY <2>4
    <3>1. CASE q < 0
      <4>1. PICK p \in Nat : q = -1 - p
        <5>1. -1 - q \in Nat /\ q = -1 - (-1 - q)
          BY <3>1
        <5> QED BY <5>1
      <4>2. n * q + n = -(n * p) /\ n * p \in Nat
        BY <1>6, <4>1
      <4> QED BY <2>5, <4>2
    <3>2. CASE q >= 0
      <4>1. n * q <= 32767 * 32766
        BY <1>6, <2>1, <3>2, ProductLess
      <4>2. n * q \in Int
        OBVIOUS
      <4> QED BY <2>1, <2>5, <4>1, <4>2
    <3> QED BY <3>1, <3>2
  <2> QED BY <2>1, <2>4, <2>6
<1> QED BY <1>7, <1>8, <1>9

\* If the tables are small there is at most one product before the last snippet, and the last
\* adds one.
ProductInv ==
  SmallTables => /\ ProductsFit
                 /\ i <= Len(plan) => calc.depJoin <= OneProduct /\ calc.exist <= OneProduct

\* One of the dependent forms: neither its estimate nor its product grows.
LEMMA DependentStep ==
  ASSUME BoundsInv, ProductInv, Depend_Inner_Join \/ Depend_Exist
  PROVE  BoundsInv' /\ ProductInv'
<1>1. i \in DOMAIN plan /\ query' = query /\ kept' = kept
  BY DEF Depend_Inner_Join, Depend_Exist, Depend, AtType, Advance
<1>2. plan' = plan /\ (SmallTables' <=> SmallTables) /\ i \in Nat /\ Len(plan) \in Nat /\ i <= Len(plan)
  BY <1>1, PlanIsSequence DEF SmallTables, Shrinks, LargestTable, plan, Scans, BoundsInv
<1>3. PICK n \in Int : n = Pairs /\ (SmallTables => 0 <= n /\ n <= OneProduct)
  BY <1>1, PairsType
<1>4. calc \in Calculations /\ calc.depJoin \in Int /\ calc.exist \in Int
  BY DEF BoundsInv, Calculations
<1>5. PICK a \in Int, b \in Int : a = calc.depJoin + n /\ b = calc.exist + n
  BY <1>4
<1>0. ASSUME SmallTables
      PROVE  /\ calc.depJoin <= OneProduct /\ calc.exist <= OneProduct
             /\ FitsInt(calc.depJoin) /\ FitsInt(calc.exist) /\ FitsInt(n) /\ FitsInt(a) /\ FitsInt(b)
  <2>1. ProductsFit /\ calc.depJoin <= OneProduct /\ calc.exist <= OneProduct
    BY <1>0, <1>2 DEF ProductInv
  <2>2. PICK x \in Int, y \in Int : x = calc.depJoin /\ y = calc.exist
    BY <1>4
  <2>3. FitsInt(x) /\ FitsInt(y) /\ x <= OneProduct /\ y <= OneProduct
    BY <2>1, <2>2 DEF ProductsFit
  <2>4. FitsInt(n) /\ FitsInt(x + n) /\ FitsInt(y + n)
    BY <1>0, <1>3, <2>3, SMT DEF FitsInt, OneProduct, MaxInt
  <2> QED BY <1>5, <2>1, <2>2, <2>3, <2>4
<1>6. CASE Depend_Inner_Join
  <2>1. Depend("Depend_Inner_Join", [calc EXCEPT !.depJoin = n], [calc EXCEPT !.depJoin = a])
    BY <1>3, <1>5, <1>6 DEF Depend_Inner_Join
  <2>2. [calc EXCEPT !.depJoin = n] \in Calculations /\ [calc EXCEPT !.depJoin = a] \in Calculations
    BY <1>4 DEF Calculations
  <2>3. [calc EXCEPT !.depJoin = a].curRatio = calc.curRatio /\ [calc EXCEPT !.depJoin = a].top = calc.top
    BY <1>4 DEF Calculations
  <2>4. BoundsInv'
    BY <2>1, <2>2, <2>3, DependStep
  <2>5. /\ calc'.exist = calc.exist /\ i' = i + 1
        /\ IF IsLast THEN calc'.depJoin = a ELSE calc'.depJoin = n
    BY <1>4, <2>1 DEF Depend, Calculations, Advance
  <2>6. ASSUME SmallTables PROVE ProductsFit'
    <3>1. FitsInt(calc'.depJoin) /\ FitsInt(calc'.exist)
      BY <1>0, <2>5, <2>6
    <3> QED BY <3>1 DEF ProductsFit, FitsInt
  <2>7. ASSUME SmallTables, i' <= Len(plan) PROVE calc'.depJoin <= OneProduct /\ calc'.exist <= OneProduct
    <3>1. ~IsLast
      BY <1>2, <2>5, <2>7 DEF IsLast
    <3>2. n <= OneProduct /\ calc.exist <= OneProduct
      BY <1>0, <1>3, <2>7
    <3> QED BY <2>5, <3>1, <3>2
  <2> QED BY <1>2, <2>4, <2>6, <2>7 DEF ProductInv
<1>7. CASE Depend_Exist
  <2>1. Depend("Depend_Exist", [calc EXCEPT !.exist = n], [calc EXCEPT !.exist = b])
    BY <1>3, <1>5, <1>7 DEF Depend_Exist
  <2>2. [calc EXCEPT !.exist = n] \in Calculations /\ [calc EXCEPT !.exist = b] \in Calculations
    BY <1>4 DEF Calculations
  <2>3. [calc EXCEPT !.exist = b].curRatio = calc.curRatio /\ [calc EXCEPT !.exist = b].top = calc.top
    BY <1>4 DEF Calculations
  <2>4. BoundsInv'
    BY <2>1, <2>2, <2>3, DependStep
  <2>5. /\ calc'.depJoin = calc.depJoin /\ i' = i + 1
        /\ IF IsLast THEN calc'.exist = b ELSE calc'.exist = n
    BY <1>4, <2>1 DEF Depend, Calculations, Advance
  <2>6. ASSUME SmallTables PROVE ProductsFit'
    <3>1. FitsInt(calc'.exist) /\ FitsInt(calc'.depJoin)
      BY <1>0, <2>5, <2>6
    <3> QED BY <3>1 DEF ProductsFit, FitsInt
  <2>7. ASSUME SmallTables, i' <= Len(plan) PROVE calc'.depJoin <= OneProduct /\ calc'.exist <= OneProduct
    <3>1. ~IsLast
      BY <1>2, <2>5, <2>7 DEF IsLast
    <3>2. n <= OneProduct /\ calc.depJoin <= OneProduct
      BY <1>0, <1>3, <2>7
    <3> QED BY <2>5, <3>1, <3>2
  <2> QED BY <1>2, <2>4, <2>6, <2>7 DEF ProductInv
<1> QED BY <1>6, <1>7

\* Any other step of the loop leaves both products.
LEMMA ProductsKept ==
  ASSUME BoundsInv, ProductInv,
         CsdScanned \/ Aggregation \/ Storage_Filter \/ Inner_Join \/ Left_Outer_Join \/ Union \/ In
  PROVE  ProductInv'
<1>1. query' = query /\ kept' = kept
  BY DEF CsdScanned, Aggregation, Storage_Filter, Inner_Join, Left_Outer_Join, Union, In, Advance
<1>2. plan' = plan /\ (SmallTables' <=> SmallTables) /\ Len(plan) \in Nat
  BY <1>1, PlanIsSequence DEF SmallTables, Shrinks, LargestTable, plan, Scans, BoundsInv
<1>5. i \in Nat /\ i' = i + 1
  BY DEF BoundsInv, CsdScanned, Aggregation, Storage_Filter, Inner_Join, Left_Outer_Join, Union, In, Advance
<1>3. calc \in Calculations
  BY DEF BoundsInv
<1>4. calc'.depJoin = calc.depJoin /\ calc'.exist = calc.exist
  <2>1. CASE CsdScanned
    BY <2>1 DEF CsdScanned
  <2>2. CASE Aggregation
    BY <1>3, <2>2 DEF Aggregation, Calculations
  <2>3. CASE Storage_Filter \/ Union
    BY <1>3, <2>3 DEF Storage_Filter, Union, Calculations
  <2>4. CASE Inner_Join \/ Left_Outer_Join
    BY <1>3, <2>4 DEF Inner_Join, Left_Outer_Join, Calculations
  <2>5. CASE In
    BY <1>3, <2>5 DEF In, Calculations
  <2> QED BY <2>1, <2>2, <2>3, <2>4, <2>5
<1> QED BY <1>2, <1>4, <1>5 DEF ProductInv, ProductsFit, FitsInt

\* The call begins with what the scans have, and every step stays within the bounds.
LEMMA BoundsStep ==
  ASSUME BoundsInv, ProductInv, Complements, [StorageNext]_storageVars
  PROVE  BoundsInv' /\ ProductInv'
<1>1. CASE Called(Handed)
  <2>1. /\ query' = query /\ kept' = kept /\ calc' = calc /\ i' = 1 /\ est' = Handed
    BY <1>1 DEF Called
  <2>2. /\ plan' = plan /\ Scans' = Scans /\ LargestTable' = LargestTable /\ PlanInv'
        /\ Handed' = Handed /\ (Shrinks' <=> Shrinks)
    BY <2>1 DEF plan, Scans, LargestTable, PlanInv, BoundsInv, Handed, ScanEstimate, RowsKept, Parsed, Shrinks
  <2>3. Handed \in [DOMAIN plan -> Estimates]
    <3>1. \A k \in DOMAIN plan : Handed[k] \in Estimates
      BY HandedType DEF BoundsInv
    <3>2. Handed = [k \in DOMAIN plan |-> Handed[k]]
      BY DEF Handed
    <3> QED BY <3>1, <3>2
  <2>4. Len(plan) \in Nat
    BY PlanIsSequence DEF BoundsInv
  <2>5. 1..i' - 1 = {}
    BY <2>1
  <2>6. Proper(calc.curRatio)' <=> Proper(calc.curRatio)
    BY <2>1 DEF Proper
  <2>7. BoundsInv'
    BY <2>1, <2>2, <2>3, <2>4, <2>5, <2>6 DEF BoundsInv
  <2>8. SmallTables' => i <= Len(plan) /\ SmallTables
    BY <1>1, <2>2, <2>4 DEF Called, SmallTables
  <2> QED BY <2>1, <2>2, <2>7, <2>8 DEF ProductInv, ProductsFit, FitsInt
<1>2. CASE CsdScanned
  BY <1>2, CsdScannedStep, ProductsKept
<1>3. CASE Aggregation
  BY <1>3, AggregationStep, ProductsKept
<1>4. CASE Storage_Filter
  BY <1>4, Storage_FilterStep, ProductsKept
<1>5. CASE Inner_Join
  BY <1>5, Inner_JoinStep, ProductsKept
<1>6. CASE Left_Outer_Join
  BY <1>6, Left_Outer_JoinStep, ProductsKept
<1>7. CASE Union
  BY <1>7, UnionStep, ProductsKept
<1>8. CASE In
  BY <1>8, InStep, ProductsKept
<1>9. CASE Depend_Inner_Join \/ Depend_Exist
  BY <1>9, DependentStep
<1>10. CASE UNCHANGED storageVars
  BY <1>10 DEF storageVars, BoundsInv, ProductInv, PlanInv, plan, Scans, LargestTable, Handed, ScanEstimate,
       RowsKept, Parsed, Shrinks, SmallTables, Small, Proper, ProductsFit, FitsInt
<1> QED BY <1>1, <1>2, <1>3, <1>4, <1>5, <1>6, <1>7, <1>8, <1>9, <1>10 DEF StorageNext, StorageLoop

\* Nothing is estimated before the call.
LEMMA BoundsInit ==
  ASSUME Init
  PROVE  BoundsInv /\ ProductInv
<1>1. SumInv
  BY SumInit
<1>2. PlanInv /\ kept \in [Scans -> Ratio] /\ Len(plan) \in Nat
  BY <1>1, PlanIsSequence DEF SumInv
<1>3. i = 0 /\ calc = NoCalc
  BY DEF Init, CSDInit, StorageInit
<1>4. One \in Ratio /\ Proper(One)
  BY DEF One, Ratio, Proper
<1>5. NoCalc \in Calculations
  BY <1>4 DEF NoCalc, Calculations
<1>6. NoCalc.curRatio = One /\ NoCalc.top = 0 /\ NoCalc.depJoin = 0 /\ NoCalc.exist = 0
  BY DEF NoCalc
<1>7. Shrinks => LargestTable \in Nat
  BY <1>2, LargestType DEF Shrinks
<1>8. 1..i - 1 = {}
  BY <1>3
<1>9. BoundsInv
  BY <1>2, <1>3, <1>4, <1>5, <1>6, <1>7, <1>8 DEF BoundsInv
<1>10. FitsInt(0) /\ 0 <= OneProduct
  BY SMT DEF FitsInt, OneProduct, MaxInt
<1>11. calc.depJoin = 0 /\ calc.exist = 0
  BY <1>3, <1>6
<1>12. ProductInv
  BY <1>10, <1>11 DEF ProductInv, ProductsFit, FitsInt
<1> QED BY <1>9, <1>12

\* The bounds hold throughout, for plans whose complements are of shares.
LEMMA BoundsSafety == Spec => [](Complements => BoundsInv /\ ProductInv)
<1>1. Init => (Complements => BoundsInv /\ ProductInv)
  BY BoundsInit
<1>2. LoopInv /\ (Complements => BoundsInv /\ ProductInv) /\ [Next]_vars => (Complements => BoundsInv /\ ProductInv)'
  <2> SUFFICES ASSUME LoopInv, Complements => BoundsInv /\ ProductInv, [Next]_vars, Complements'
               PROVE  BoundsInv' /\ ProductInv'
    OBVIOUS
  <2>1. query' = query /\ kept' = kept
    BY PlanKept
  <2>2. Complements
    BY <2>1 DEF Complements, Shrinks, plan, Scans
  <2>3. [StorageNext]_storageVars
    BY StorageStep
  <2> QED BY <2>2, <2>3, BoundsStep
<1> QED BY <1>1, <1>2, LoopSafety, PTL DEF Spec

\* StorageValidatorMain estimates no snippet of a plan without unions to have
\* more rows than the largest table, if no filter is estimated to keep more rows
\* than its table has: whatever the order of joins, IN, NOT IN and aggregations.
THEOREM LargestBounds == Spec => [](Shrinks => WithinLargestTable)
<1>1. (Complements => BoundsInv /\ ProductInv) => (Shrinks => WithinLargestTable)
  BY DEF Complements, BoundsInv, WithinLargestTable, Small
<1> QED BY <1>1, BoundsSafety, PTL

\* Nor does a product of two counts overflow, or the sum of two, if that table has no more
\* than 3276799 rows: of the tables in TypeDef.hpp only lineitem has.
THEOREM SmallTablesFit == Spec => [](SmallTables => ProductsFit)
<1>1. (Complements => BoundsInv /\ ProductInv) => (SmallTables => ProductsFit)
  BY DEF Complements, ProductInv, SmallTables
<1> QED BY <1>1, BoundsSafety, PTL

(***************************************************************************)
(* The loop of CSDValidatorTemp.  It has added up the rows of the scans it *)
(* has passed, and of each at most as many filtered rows.                  *)
(***************************************************************************)
RowsOf(n) == IF plan[n].type = "CSD_Scan" THEN TableRows[plan[n].in[1]] ELSE 0

\* The rows of all scans up to a snippet, and that no snippet takes any away.
LEMMA ScannedType ==
  ASSUME PlanInv
  PROVE  /\ ScannedBy(plan)[0] = 0
         /\ \A n \in 1..Len(plan) : /\ RowsOf(n) \in Nat
                                    /\ ScannedBy(plan)[n] = ScannedBy(plan)[n - 1] + RowsOf(n)
         /\ \A n \in 0..Len(plan) : /\ ScannedBy(plan)[n] \in Nat
                                    /\ ScannedBy(plan)[n] <= ScannedBy(plan)[Len(plan)]
<1> DEFINE size(n) == IF n \in 1..Len(plan) THEN RowsOf(n) ELSE 0
           g == [n \in Nat |-> [v \in Nat |-> v + size(n + 1)]]
<1>1. Len(plan) \in Nat /\ DOMAIN plan = 1..Len(plan)
  BY PlanIsSequence
<1>2. \A n \in 1..Len(plan) : RowsOf(n) \in Nat /\ size(n) = RowsOf(n)
  BY <1>1, TablesAssumption DEF PlanInv, plan, RowsOf
<1>3. \A n \in Nat : size(n) \in Nat
  BY <1>2
<1> HIDE DEF size
<1>4. g \in [Nat -> [Nat -> Nat]] /\ \A n \in Nat, v \in Nat : g[n][v] = v + size(n + 1)
  BY <1>3
<1> HIDE DEF g
<1>5. PICK s \in [Nat -> Nat] : s[0] = 0 /\ \A n \in Nat : s[n + 1] = s[n] + size(n + 1)
  <2>1. Leads(Nat, g) /\ 0 \in Nat
    BY <1>4 DEF Leads
  <2>2. PICK s : Goes(s, Nat, 0, g)
    BY <2>1, Recursion, Zenon
  <2> QED BY <1>4, <2>2 DEF Goes
<1> DEFINE t == [n \in 0..Len(plan) |-> s[n]]
<1>6. \A n \in 0..Len(plan) : t[n] = IF n = 0 THEN 0 ELSE t[n - 1] + RowsOf(n)
  <2> SUFFICES ASSUME NEW n \in 0..Len(plan), n # 0 PROVE s[n] = s[n - 1] + RowsOf(n) /\ n - 1 \in 0..Len(plan)
    BY <1>5
  <2>1. n - 1 \in Nat /\ (n - 1) + 1 = n /\ n \in 1..Len(plan) /\ n - 1 \in 0..Len(plan)
    BY <1>1
  <2> QED BY <1>2, <1>5, <2>1
<1>7. t = [n \in 0..Len(plan) |-> IF n = 0 THEN 0 ELSE t[n - 1] + RowsOf(n)]
  BY <1>6
<1> HIDE DEF t
<1>8. ScannedBy(plan) = [n \in 0..Len(plan) |-> IF n = 0 THEN 0 ELSE ScannedBy(plan)[n - 1] + RowsOf(n)]
  BY <1>7, Zenon DEF ScannedBy, RowsOf
<1>0. PICK b : b = ScannedBy(plan)
  OBVIOUS
<1>9. b[0] = 0 /\ \A n \in 1..Len(plan) : n - 1 \in 0..Len(plan) /\ b[n] = b[n - 1] + RowsOf(n)
  <2>1. b = [n \in 0..Len(plan) |-> IF n = 0 THEN 0 ELSE b[n - 1] + RowsOf(n)]
    BY <1>0, <1>8
  <2>2. b[0] = 0
    BY <1>1, <2>1
  <2>3. ASSUME NEW n \in 1..Len(plan) PROVE n - 1 \in 0..Len(plan) /\ n \in 0..Len(plan) /\ n # 0
    BY <1>1
  <2> QED BY <2>1, <2>2, <2>3
<1> DEFINE W == {n \in Nat : n <= Len(plan) /\ b[n] \notin Nat}
<1>10. W = {}
  <2> SUFFICES ASSUME W # {} PROVE FALSE
    OBVIOUS
  <2>1. PICK n \in W : \A x \in W : n <= x
    <3>1. W \subseteq Nat
      OBVIOUS
    <3> HIDE DEF W
    <3> QED BY <3>1, Least
  <2>2. n # 0
    BY <1>9
  <2>3. n \in 1..Len(plan) /\ n - 1 \in Nat /\ n - 1 <= Len(plan) /\ ~(n <= n - 1) /\ b[n] \notin Nat
    BY <1>1, <2>2
  <2>4. b[n - 1] \in Nat
    BY <2>1, <2>3
  <2> HIDE DEF W
  <2>5. PICK x \in Nat, y \in Nat : x = b[n - 1] /\ y = RowsOf(n)
    BY <1>2, <2>3, <2>4
  <2>6. b[n] = x + y
    BY <1>9, <2>3, <2>5
  <2>7. b[n] \in Nat
    BY <2>5, <2>6
  <2> QED BY <2>3, <2>7
<1>11. \A n \in 0..Len(plan) : b[n] \in Nat
  BY <1>1, <1>10
<1> DEFINE U == {d \in Nat : d <= Len(plan) /\ ~(b[Len(plan) - d] <= b[Len(plan)])}
<1>12. U = {}
  <2> SUFFICES ASSUME U # {} PROVE FALSE
    OBVIOUS
  <2>1. PICK d \in U : \A x \in U : d <= x
    <3>1. U \subseteq Nat
      OBVIOUS
    <3> HIDE DEF U
    <3> QED BY <3>1, Least
  <2>2. d # 0
    <3>1. b[Len(plan)] \in Nat /\ Len(plan) - 0 = Len(plan)
      BY <1>1, <1>11
    <3> QED BY <3>1
  <2>3. PICK n \in 1..Len(plan) : n = Len(plan) - (d - 1) /\ n - 1 = Len(plan) - d
    <3>1. Len(plan) - (d - 1) \in 1..Len(plan) /\ Len(plan) - (d - 1) - 1 = Len(plan) - d
      BY <1>1, <2>2
    <3> QED BY <3>1
  <2>4. /\ d - 1 \in Nat /\ d - 1 <= Len(plan) /\ ~(d <= d - 1)
        /\ ~(b[Len(plan) - d] <= b[Len(plan)])
    BY <1>1, <2>2
  <2>5. b[n] <= b[Len(plan)]
    BY <2>1, <2>3, <2>4
  <2> HIDE DEF U
  <2>6. n \in 0..Len(plan) /\ n - 1 \in 0..Len(plan) /\ Len(plan) \in 0..Len(plan)
    BY <1>1
  <2>7. PICK x \in Nat, y \in Nat, z \in Nat : x = b[n - 1] /\ y = RowsOf(n) /\ z = b[Len(plan)]
    BY <1>2, <1>11, <2>6
  <2>8. b[n] = x + y
    BY <1>9, <2>7
  <2>9. b[n - 1] <= b[Len(plan)]
    <3>1. x + y <= z
      BY <2>5, <2>7, <2>8
    <3>2. x <= z
      BY <3>1
    <3> QED BY <2>7, <3>2
  <2> QED BY <2>3, <2>4, <2>9
<1>13. ASSUME NEW n \in 0..Len(plan) PROVE b[n] <= b[Len(plan)]
  <2>1. Len(plan) - n \in Nat /\ Len(plan) - n <= Len(plan) /\ Len(plan) - (Len(plan) - n) = n
    BY <1>1
  <2> QED BY <1>12, <2>1
<1> QED BY <1>0, <1>2, <1>9, <1>11, <1>13

Tallies == [scanned : Nat, filtered : Nat, over10000 : Nat, supp : Nat]

KeepsShares == \A k \in Scans : Proper(kept[k])

TallyInv ==
  /\ csdCount \in CsdCounts
  /\ scanAt \in 1..Len(plan) + 1
  /\ rows \in Tallies
  /\ scale \in [ratio : Nat, factor : Nat]
  /\ metrics \in Seq({RowWeight}) /\ Len(metrics) <= csdCount
  /\ rows.scanned = ScannedBy(plan)[scanAt - 1]
  /\ KeepsShares => rows.filtered <= rows.scanned

\* The sums start at nothing.
LEMMA TallyInit == Init => TallyInv
<1> SUFFICES ASSUME Init PROVE TallyInv
  OBVIOUS
<1>1. PlanInv
  BY DEF Init, CSDInit, StorageInit, ChosenPlan, PlanInv
<1>2. Len(plan) \in Nat /\ ScannedBy(plan)[0] = 0
  BY <1>1, PlanIsSequence, ScannedType
<1>3. csdCount \in Nat
  BY CsdCountsAssumption DEF Init, CSDInit
<1>4. /\ csdCount \in CsdCounts /\ scanAt = 1 /\ metrics = <<>>
      /\ rows = [scanned |-> 0, filtered |-> 0, over10000 |-> 0, supp |-> 0]
      /\ scale = [ratio |-> 0, factor |-> 0]
  BY DEF Init, CSDInit
<1> QED BY <1>2, <1>3, <1>4 DEF TallyInv, Tallies

\* A scan adds the rows of its table, and a share of them.
LEMMA RowsAdded ==
  ASSUME PlanInv, kept \in [Scans -> Ratio], TallyInv, NEW k \in Scans, k = scanAt
  PROVE  /\ RowsAfter(k) \in Tallies
         /\ RowsAfter(k).scanned = ScannedBy(plan)[k]
         /\ KeepsShares => RowsAfter(k).filtered <= RowsAfter(k).scanned
<1>1. k \in 1..Len(plan)
  BY PlanIsSequence DEF Scans
<1>2. /\ RowsOf(k) \in Nat /\ RowsOf(k) = TableRows[plan[k].in[1]]
      /\ ScannedBy(plan)[k] = ScannedBy(plan)[k - 1] + RowsOf(k)
  BY <1>1, ScannedType DEF RowsOf, Scans
<1>3. PICK size \in Nat : size = RowsOf(k)
  BY <1>2
<1>4. PICK some \in Nat : some = RowsKept(k) /\ (KeepsShares => some <= size)
  <2>1. kept[k] \in Ratio /\ (KeepsShares => Proper(kept[k]))
    BY DEF KeepsShares
  <2> QED BY <1>2, <1>3, <2>1, ShareOf DEF RowsKept
<1>5. /\ rows.scanned \in Nat /\ rows.filtered \in Nat /\ rows.over10000 \in Nat /\ rows.supp \in Nat
      /\ rows.scanned = ScannedBy(plan)[k - 1] /\ (KeepsShares => rows.filtered <= rows.scanned)
  BY DEF TallyInv, Tallies
<1>6. PICK a \in Nat, b \in Nat :
        RowsAfter(k) = [scanned |-> rows.scanned + size, filtered |-> rows.filtered + some, over10000 |-> a, supp |-> b]
  <2> DEFINE a == rows.over10000 + (IF plan[k].in[1] \in Over10000 THEN 1 ELSE 0)
             b == rows.supp + (IF plan[k].in[1] = "supplier" THEN 1 ELSE 0)
  <2>1. a \in Nat /\ b \in Nat
    BY <1>5
  <2>2. RowsAfter(k) = [scanned |-> rows.scanned + size, filtered |-> rows.filtered + some, over10000 |-> a, supp |-> b]
    BY <1>2, <1>3, <1>4 DEF RowsAfter
  <2> HIDE DEF a, b
  <2> QED BY <2>1, <2>2
<1>7. rows.scanned + size \in Nat /\ rows.filtered + some \in Nat
  BY <1>5
<1>8. KeepsShares => rows.filtered + some <= rows.scanned + size
  BY <1>4, <1>5
<1> QED BY <1>2, <1>3, <1>5, <1>6, <1>7, <1>8 DEF Tallies

\* TallyInv survives every step.
LEMMA TallyStep ==
  ASSUME SumInv, LoopInv, TallyInv, [Next]_vars
  PROVE  TallyInv'
<1>1. query' = query /\ kept' = kept
  BY PlanKept
<1>2. plan' = plan /\ RowWeight' = RowWeight /\ KeepsShares' = KeepsShares /\ ScannedBy(plan)' = ScannedBy(plan)
  BY <1>1 DEF plan, RowWeight, KeepsShares, Scans, Proper, ScannedBy
<1>3. Len(plan) \in Nat
  BY PlanIsSequence DEF SumInv
<1>4. CASE ScanNext
  <2>1. scanAt \in 1..Len(plan) /\ scanAt' = scanAt + 1 /\ UNCHANGED <<csdCount, scale, metrics>>
    BY <1>3, <1>4 DEF ScanNext, TallyInv
  <2>2. scanAt' \in 1..Len(plan') + 1 /\ scanAt' - 1 = scanAt
    BY <1>2, <1>3, <2>1
  <2>3. CASE scanAt \in Scans
    <3>1. rows' = RowsAfter(scanAt)
      BY <1>4, <2>3 DEF ScanNext
    <3>2. /\ RowsAfter(scanAt) \in Tallies
          /\ RowsAfter(scanAt).scanned = ScannedBy(plan)[scanAt]
          /\ KeepsShares => RowsAfter(scanAt).filtered <= RowsAfter(scanAt).scanned
      BY <2>3, RowsAdded DEF SumInv
    <3> QED BY <1>2, <2>1, <2>2, <3>1, <3>2 DEF TallyInv
  <2>4. CASE scanAt \notin Scans
    <3>1. rows' = rows
      BY <1>4, <2>4 DEF ScanNext
    <3>2. RowsOf(scanAt) = 0
      BY <2>1, <2>4, PlanIsSequence DEF SumInv, RowsOf, Scans
    <3>3. ScannedBy(plan)[scanAt - 1] \in Nat
      <4>1. scanAt - 1 \in 0..Len(plan)
        BY <1>3, <2>1
      <4> QED BY <4>1, ScannedType DEF SumInv
    <3>4. ScannedBy(plan)[scanAt] = ScannedBy(plan)[scanAt - 1]
      BY <2>1, <3>2, <3>3, ScannedType DEF SumInv
    <3> QED BY <1>2, <2>1, <2>2, <3>1, <3>4 DEF TallyInv
  <2> QED BY <2>3, <2>4
<1>5. CASE ScaleTime
  <2>1. rows.scanned \in Nat /\ QemuScannedRow \in Nat /\ QemuScannedRow > 0
    BY <1>5 DEF ScaleTime, TallyInv, Tallies, QemuScannedRow
  <2>2. csdCount \in Nat \ {0}
    BY CsdCountsAssumption DEF TallyInv
  <2>3. rows.scanned \div QemuScannedRow \in Nat /\ 8 \div csdCount \in Nat
    <3>1. PICK q \in Nat \ {0} : q = QemuScannedRow
      BY <2>1
    <3>2. rows.scanned <= rows.scanned * q /\ 8 <= 8 * csdCount
      <4>1. rows.scanned * 1 <= rows.scanned * q /\ 8 * 1 <= 8 * csdCount
        BY <2>1, <2>2, <3>1, ProductLess
      <4> QED BY <2>1, <4>1
    <3> QED BY <2>1, <2>2, <3>1, <3>2, QuotientLess
  <2>4. scale' \in [ratio : Nat, factor : Nat]
    BY <1>5, <2>3 DEF ScaleTime
  <2> QED BY <1>2, <1>5, <2>4 DEF ScaleTime, TallyInv
<1>6. CASE ReplyAndCall \/ StorageValidatorMain
  BY <1>2, <1>6 DEF ReplyAndCall, StorageValidatorMain, csdVars, TallyInv
<1>7. CASE InsertMetric
  <2>1. csdCount \in Nat
    BY CsdCountsAssumption DEF TallyInv
  <2>2. metrics' \in Seq({RowWeight}) /\ Len(metrics') <= csdCount
    <3>1. metrics \in Seq({RowWeight}) /\ Len(metrics) < csdCount /\ metrics' = Append(metrics, RowWeight)
      BY <1>7 DEF InsertMetric, TallyInv
    <3> QED BY <2>1, <3>1
  <2> QED BY <1>2, <1>7, <2>2 DEF InsertMetric, TallyInv
<1>8. CASE Validate_SSD \/ UNCHANGED vars
  BY <1>2, <1>8 DEF Validate_SSD, csdVars, vars, TallyInv
<1> QED BY <1>4, <1>5, <1>6, <1>7, <1>8 DEF Next, Validate_CSD, CSDNext, Done

\* A hundred times the rows CSDValidatorTemp counts fit into an int, for plans
\* whose scans read no more than 21474836 rows and filters that keep a share.
THEOREM PrintedFit ==
  ASSUME \A q \in DOMAIN Plans : ScansLittle(Plans[q])
  PROVE  Spec => [](KeepsShares => PrintedRowsFit)
<1>1. SumInv /\ TallyInv => (KeepsShares => PrintedRowsFit)
  <2> SUFFICES ASSUME SumInv, TallyInv, KeepsShares PROVE PrintedRowsFit
    OBVIOUS
  <2>1. scanAt - 1 \in 0..Len(plan) /\ Len(plan) \in 0..Len(plan)
    BY PlanIsSequence DEF SumInv, TallyInv
  <2>2. /\ ScannedBy(plan)[scanAt - 1] <= ScannedBy(plan)[Len(plan)]
        /\ ScannedBy(plan)[scanAt - 1] \in Nat /\ ScannedBy(plan)[Len(plan)] \in Nat
    BY <2>1, ScannedType DEF SumInv
  <2>3. ScannedBy(plan)[Len(plan)] <= 2147483647 \div 100
    BY DEF SumInv, PlanInv, plan, ScansLittle, MaxInt
  <2>4. /\ rows.scanned = ScannedBy(plan)[scanAt - 1] /\ rows.filtered <= rows.scanned
        /\ rows.filtered \in Nat /\ rows.scanned \in Nat
    BY DEF TallyInv, Tallies
  <2> QED BY <2>2, <2>3, <2>4 DEF PrintedRowsFit, MaxInt
<1> QED BY <1>1, SumInit, SumStep, LoopInit, LoopStep, TallyInit, TallyStep, PTL DEF Spec

(***************************************************************************)
(* The time of the exchange is scaled with a quotient of the rows of all   *)
(* scans of the plan and those QEMU's tables have of them.                 *)
(***************************************************************************)
Passed(tables) == ScansOf(plan, tables) \cap 1..scanAt - 1

CutInv ==
  /\ rows.over10000 = Cardinality(Passed(Over10000)) /\ rows.supp = Cardinality(Passed({"supplier"}))
  /\ stage = "scan" => scale.ratio = 0
  /\ stage # "scan" => /\ scanAt = Len(plan) + 1 /\ QemuScannedRow > 0
                       /\ scale.ratio = rows.scanned \div QemuScannedRow

\* The scans of some tables up to a snippet: one more if it is one of them.
LEMMA OneMorePassed ==
  ASSUME PlanInv, NEW tables, NEW k \in 1..Len(plan), plan[k].type = "CSD_Scan"
  PROVE  /\ Cardinality(ScansOf(plan, tables) \cap 1..k - 1) \in Nat
         /\ Cardinality(ScansOf(plan, tables) \cap 1..k) =
              Cardinality(ScansOf(plan, tables) \cap 1..k - 1) + IF plan[k].in[1] \in tables THEN 1 ELSE 0
<1> DEFINE Before == ScansOf(plan, tables) \cap 1..k - 1
           After == ScansOf(plan, tables) \cap 1..k
<1>1. Len(plan) \in Nat /\ DOMAIN plan = 1..Len(plan)
  BY PlanIsSequence
<1>2. IsFiniteSet(Before) /\ Cardinality(Before) \in Nat
  <2>0. 1 \in Int /\ k - 1 \in Int
    BY <1>1
  <2>1. IsFiniteSet(1..k - 1)
    BY <2>0, FS_Interval
  <2>2. Before \in SUBSET (1..k - 1)
    OBVIOUS
  <2> QED BY <2>1, <2>2, FS_Subset, FS_CardinalityType
<1>3. 1..k = (1..k - 1) \cup {k} /\ k \notin 1..k - 1
  BY <1>1
<1>4. CASE plan[k].in[1] \in tables
  <2>1. k \in ScansOf(plan, tables)
    BY <1>1, <1>4 DEF ScansOf
  <2>2. After = Before \cup {k} /\ k \notin Before
    BY <1>3, <2>1
  <2> QED BY <1>2, <1>4, <2>2, FS_AddElement
<1>5. CASE plan[k].in[1] \notin tables
  <2>1. k \notin ScansOf(plan, tables)
    BY <1>5 DEF ScansOf
  <2>2. After = Before
    BY <1>3, <2>1
  <2> HIDE DEF After, Before
  <2>3. Cardinality(After) = Cardinality(Before) + 0
    BY <1>2, <2>2
  <2> QED BY <1>2, <1>5, <2>3 DEF After, Before
<1> QED BY <1>4, <1>5

\* CutInv holds at first.
LEMMA CutInit == Init => CutInv
<1> SUFFICES ASSUME Init PROVE CutInv
  OBVIOUS
<1>1. /\ scanAt = 1 /\ rows.over10000 = 0 /\ rows.supp = 0 /\ stage = "scan" /\ scale.ratio = 0
  BY DEF Init, CSDInit
<1>2. \A tables : Passed(tables) = {}
  BY <1>1 DEF Passed
<1> QED BY <1>1, <1>2, FS_EmptySet DEF CutInv

\* CutInv survives every step.
LEMMA CutStep ==
  ASSUME LoopInv, TallyInv, CutInv, [Next]_vars
  PROVE  CutInv'
<1>1. plan' = plan /\ Len(plan) \in Nat /\ PlanInv
  BY PlanKept, PlanIsSequence DEF plan, LoopInv
<1>2. \A tables : ScansOf(plan, tables)' = ScansOf(plan, tables)
  BY <1>1 DEF ScansOf
<1>3. CASE ScanNext
  <2>1. /\ scanAt \in 1..Len(plan) /\ scanAt' = scanAt + 1 /\ scanAt' - 1 = scanAt
        /\ stage = "scan" /\ UNCHANGED <<stage, scale>>
    BY <1>1, <1>3 DEF ScanNext, TallyInv
  <2>2. \A tables : Passed(tables)' = ScansOf(plan, tables) \cap 1..scanAt
    BY <1>2, <2>1 DEF Passed
  <2>3. CASE scanAt \in Scans
    <3>1. rows' = RowsAfter(scanAt) /\ plan[scanAt].type = "CSD_Scan"
      BY <1>3, <2>3 DEF ScanNext, Scans
    <3>2. /\ rows'.over10000 = rows.over10000 + (IF plan[scanAt].in[1] \in Over10000 THEN 1 ELSE 0)
          /\ rows'.supp = rows.supp + (IF plan[scanAt].in[1] = "supplier" THEN 1 ELSE 0)
      BY <3>1 DEF RowsAfter
    <3>3. \A tables : Cardinality(Passed(tables)') = Cardinality(Passed(tables)) + IF plan[scanAt].in[1] \in tables THEN 1 ELSE 0
      <4> SUFFICES ASSUME NEW tables
                   PROVE  Cardinality(Passed(tables)') =
                            Cardinality(Passed(tables)) + IF plan[scanAt].in[1] \in tables THEN 1 ELSE 0
        OBVIOUS
      <4>1. Passed(tables)' = ScansOf(plan, tables) \cap 1..scanAt
        BY <2>2
      <4>2. PICK k \in 1..Len(plan) : k = scanAt
        BY <2>1
      <4>3. Cardinality(ScansOf(plan, tables) \cap 1..k) =
              Cardinality(ScansOf(plan, tables) \cap 1..k - 1) + IF plan[k].in[1] \in tables THEN 1 ELSE 0
        BY <1>1, <3>1, <4>2, OneMorePassed
      <4> QED BY <4>1, <4>2, <4>3 DEF Passed
    <3>4. rows'.over10000 = Cardinality(Passed(Over10000)')
      BY <3>2, <3>3 DEF CutInv
    <3>5. rows'.supp = Cardinality(Passed({"supplier"})')
      <4>1. plan[scanAt].in[1] = "supplier" <=> plan[scanAt].in[1] \in {"supplier"}
        OBVIOUS
      <4> QED BY <3>2, <3>3, <4>1 DEF CutInv
    <3> QED BY <2>1, <3>4, <3>5 DEF CutInv
  <2>4. CASE scanAt \notin Scans
    <3>1. rows' = rows
      BY <1>3, <2>4 DEF ScanNext
    <3>2. \A tables : scanAt \notin ScansOf(plan, tables)
      BY <2>4 DEF Scans, ScansOf
    <3>3. 1..scanAt = (1..scanAt - 1) \cup {scanAt}
      BY <2>1
    <3>4. \A tables : Passed(tables)' = Passed(tables)
      BY <2>2, <3>2, <3>3 DEF Passed
    <3> QED BY <2>1, <3>1, <3>4 DEF CutInv
  <2> QED BY <2>3, <2>4
<1>4. CASE ScaleTime
  <2>1. /\ stage = "scan" /\ scanAt > Len(plan) /\ QemuScannedRow > 0 /\ UNCHANGED <<scanAt, rows>>
        /\ stage' = "reply" /\ scale'.ratio = rows.scanned \div QemuScannedRow
    BY <1>4 DEF ScaleTime
  <2>2. scanAt = Len(plan) + 1
    BY <1>1, <2>1 DEF TallyInv
  <2>3. \A tables : Passed(tables)' = Passed(tables)
    BY <1>2, <2>1 DEF Passed
  <2>4. QemuScannedRow' = QemuScannedRow
    BY <2>1 DEF QemuScannedRow
  <2> QED BY <1>1, <2>1, <2>2, <2>3, <2>4 DEF CutInv
<1>5. CASE ReplyAndCall \/ StorageValidatorMain \/ InsertMetric \/ Validate_SSD \/ UNCHANGED vars
  <2>1. UNCHANGED <<scanAt, rows, scale>> /\ (stage' = "scan" <=> stage = "scan")
    BY <1>5 DEF ReplyAndCall, StorageValidatorMain, InsertMetric, Validate_SSD, csdVars, vars
  <2>2. \A tables : Passed(tables)' = Passed(tables)
    BY <1>2, <2>1 DEF Passed
  <2>3. QemuScannedRow' = QemuScannedRow
    BY <2>1 DEF QemuScannedRow
  <2> QED BY <1>1, <2>1, <2>2, <2>3 DEF CutInv
<1> QED BY <1>3, <1>4, <1>5 DEF Next, Validate_CSD, CSDNext, Done

\* Whatever the filters keep and however many CSDs there are: the integer the time of the exchange
\* is multiplied with is that of all scans of the plan, none left out and none counted twice, so
\* that it loses no more than the plan's own quotient does.
THEOREM CutLittle ==
  ASSUME \A q \in DOMAIN Plans : CutIsSmall(Plans[q])
  PROVE  Spec => []CutLosesLittle
<1>1. LoopInv /\ TallyInv /\ CutInv => CutLosesLittle
  <2> SUFFICES ASSUME LoopInv, TallyInv, CutInv, scale.ratio > 0 \/ stage \notin {"scan", "reply"}
               PROVE  scale.ratio * QemuScannedRow >= (rows.scanned \div 100) * 98
    BY DEF CutLosesLittle
  <2>1. /\ PlanInv /\ Len(plan) \in Nat /\ DOMAIN plan = 1..Len(plan)
    BY PlanIsSequence DEF LoopInv
  <2>2. stage # "scan"
    BY DEF CutInv
  <2>3. scanAt - 1 = Len(plan) /\ QemuScannedRow > 0 /\ scale.ratio = rows.scanned \div QemuScannedRow
    BY <2>1, <2>2 DEF CutInv
  <2>4. \A tables : Passed(tables) = ScansOf(plan, tables)
    BY <2>1, <2>3 DEF Passed, ScansOf
  <2>5. QemuScannedRow = QemuRowsOf(plan)
    BY <2>4 DEF CutInv, QemuScannedRow, QemuRowsOf
  <2>6. rows.scanned = ScannedBy(plan)[Len(plan)]
    BY <2>3 DEF TallyInv
  <2>7. CutIsSmall(plan)
    BY <2>1 DEF PlanInv, plan
  <2> QED BY <2>3, <2>5, <2>6, <2>7 DEF CutIsSmall
<1> QED BY <1>1, SumInit, SumStep, LoopInit, LoopStep, TallyInit, TallyStep, CutInit, CutStep, PTL DEF Spec

\* The list of the rows has no more entries than the plan has scans.
LEMMA FewerThanScans ==
  ASSUME ListInv
  PROVE  Len(tableRowList) <= Cardinality(Scans)
<1>1. Len(plan) \in Nat /\ DOMAIN plan = 1..Len(plan)
  BY PlanIsSequence DEF ListInv
<1>2. ssdAt \in 1..Len(plan) + 1
  BY <1>1 DEF ListInv
<1>3. {m \in 1..(Len(plan) + 1) - 1 : plan[m].type = "CSD_Scan"} = Scans
  BY <1>1 DEF Scans
<1>4. ScansBefore(Len(plan) + 1) = Cardinality(Scans)
  BY <1>3 DEF ScansBefore, CountBefore
<1> QED BY <1>2, <1>4, NoMoreThanAll DEF ListInv, ScansBefore

\* Both estimators keep every variable in its domain, whatever the plans and
\* tables, if a plan with NOT IN has no union and its filters keep a share:
\* only then is the complement of a ratio one.
THEOREM EstimatorTypes == Spec => [](Complements => TypeOK)
<1>1. SumInv /\ LoopInv /\ TallyInv /\ ListInv /\ (Complements => BoundsInv /\ ProductInv) => (Complements => TypeOK)
  <2> SUFFICES ASSUME SumInv, LoopInv, TallyInv, ListInv, BoundsInv PROVE TypeOK
    OBVIOUS
  <2>1. StorageTypeOK
    <3>1. calc.curRatio \in Ratio
      BY DEF BoundsInv, Calculations
    <3>2. \A f \in DOMAIN NoCalc \ {"curRatio"} : calc[f] \in Int
      BY DEF BoundsInv, Calculations, NoCalc
    <3> QED BY <3>1, <3>2 DEF StorageTypeOK, BoundsInv, PlanInv, Estimates
  <2>2. rows \in [DOMAIN rows -> Nat] /\ scale \in [{"ratio", "factor"} -> Nat]
    BY DEF TallyInv, Tallies
  <2>3. ssdAt \in 1..Len(plan) + 1
    BY DEF SumInv
  <2> QED BY <2>1, <2>2, <2>3, FewerThanScans DEF TypeOK, LoopInv, TallyInv, ListInv
<1> QED BY <1>1, SumInit, SumStep, LoopInit, LoopStep, TallyInit, TallyStep, ListInit, ListStep, BoundsSafety, PTL DEF Spec

\* In plans whose snippets have different names, and read only names of snippets
\* before them, StorageValidatorMain finds exactly one for each name.
THEOREM OneProducer ==
  ASSUME \A q \in DOMAIN Plans : NamesItsInputs(Plans[q])
  PROVE  Spec => []InputsResolved
<1>1. SumInv => InputsResolved
  <2> SUFFICES ASSUME SumInv, i \in DOMAIN plan, This.type # "CSD_Scan",
                      NEW name \in {This.in[1], This.in[2], This.column} \ {"none"}
               PROVE  Cardinality(Producers(name)) = 1
    BY DEF InputsResolved
  <2>1. NamesItsInputs(plan)
    BY DEF SumInv, PlanInv, plan
  <2>2. Len(plan) \in Nat /\ DOMAIN plan = 1..Len(plan)
    BY PlanIsSequence DEF SumInv
  <2>3. PICK j \in 1..i - 1 : plan[j].alias = name
    BY <2>1 DEF NamesItsInputs, This
  <2>4. \A k \in 1..i - 1 : k \in DOMAIN plan
    BY <2>2
  <2>5. Producers(name) = {j}
    BY <2>1, <2>3, <2>4 DEF NamesItsInputs, Producers
  <2> QED BY <2>5, FS_Singleton
<1> QED BY <1>1, SumInit, SumStep, PTL DEF Spec
=============================================================================
