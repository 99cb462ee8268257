------------------------- MODULE QEMUHandlerProofs -------------------------
(***************************************************************************)
(* Theorems about QEMUHandler, for every number of concurrent validations, *)
(* any plans, and any blocks the CSD returns for them.                     *)
(***************************************************************************)
EXTENDS QEMUHandler, WellFoundedInduction, TLAPS

-----------------------------------------------------------------------------
(***************************************************************************)
(* The loops over the scans of a plan.                                     *)
(***************************************************************************)
\* A set of naturals that has a member has a least one.
LEMMA LeastNatural ==
  ASSUME NEW S \in SUBSET Nat, S # {}
  PROVE  \E x \in S : \A y \in S : x <= y
<1>1. \E x \in S : \A y \in S : <<y, x>> \notin OpToRel(<, Nat)
  BY NatLessThanWellFounded, WFMin
<1>2. \A x, y \in Nat : y < x => <<y, x>> \in OpToRel(<, Nat)
  BY DEF OpToRel
<1>3. \A x, y \in Nat : ~(y < x) => x <= y
  OBVIOUS
<1> QED
  BY <1>1, <1>2, <1>3

\* Its length bounds the plan, and its scans are scans.
LEMMA PlanType ==
  ASSUME NEW v \in Validations
  PROVE  /\ Len(Scans[v]) \in Nat /\ Len(Scans[v]) <= 100
         /\ Id[v] \in Nat
         /\ \A i \in ScanIndexes(v) :
              /\ Scans[v][i] \in Scan
              /\ Scans[v][i].work \in 0..99
              /\ Scans[v][i].blocks \in Seq(Nat \ {0})
<1>1. Scans[v] \in Seq(Scan) /\ Len(Scans[v]) <= 100 /\ Id[v] \in Nat
  BY ValidationsAssumption
<1>2. \A i \in ScanIndexes(v) : Scans[v][i] \in Scan
  BY <1>1 DEF ScanIndexes
<1> QED
  BY <1>1, <1>2 DEF Scan

\* The loops go on to a later scan, or to the end.
LEMMA NextScanType ==
  ASSUME NEW v \in Validations, NEW i \in 0..Len(Scans[v])
  PROVE  NextScan(v, i) \in (i + 1)..(Len(Scans[v]) + 1)
<1> DEFINE n == Len(Scans[v])
           S == {j \in (i + 1)..(n + 1) : j \in ScanIndexes(v) => ~Scans[v][j].region}
<1>1. n \in Nat /\ i \in Nat
  BY PlanType
<1>2. n + 1 \in S /\ S \in SUBSET Nat
  BY <1>1 DEF ScanIndexes
<1>3. PICK j \in S : \A k \in S : j <= k
  BY <1>2, LeastNatural
<1>4. \A k \in (i + 1)..(j - 1) : Scans[v][k].region
  <2> SUFFICES ASSUME NEW k \in (i + 1)..(j - 1), ~Scans[v][k].region PROVE FALSE
    OBVIOUS
  <2>1. k \in S /\ ~(j <= k)
    BY <1>1, <1>3
  <2> QED
    BY <1>3, <2>1
<1>5. \E m \in (i + 1)..(n + 1) :
        /\ m \in ScanIndexes(v) => ~Scans[v][m].region
        /\ \A k \in (i + 1)..(m - 1) : Scans[v][k].region
  BY <1>3, <1>4
<1> QED
  BY <1>5 DEF NextScan

\* What a block says of its scan.
LEMMA BlockFields ==
  ASSUME NEW b \in Blocks
  PROVE  /\ b.v \in Validations /\ b.scan \in ScanIndexes(b.v)
         /\ b.query = Id[b.v] /\ b.work = Scans[b.v][b.scan].work
         /\ b.query \in Nat /\ b.work \in 0..99 /\ b.rows \in Nat
         /\ Key(b.query, b.work) \in Keys
         /\ b # Garbage /\ b # NoBlock
<1>1. PICK v \in Validations : \E i \in ScanIndexes(v) : b \in BlocksOf(v, i)
  BY DEF Blocks
<1>2. PICK i \in ScanIndexes(v) : b \in BlocksOf(v, i)
  BY <1>1
<1>3. PICK n \in 1..Len(Scans[v][i].blocks) : b = Block(v, i, n)
  BY <1>2 DEF BlocksOf
<1>4. /\ b.v = v /\ b.scan = i /\ b.query = Id[v] /\ b.work = Scans[v][i].work
      /\ b.rows = Scans[v][i].blocks[n] /\ b.kind = "block"
  BY <1>3 DEF Block
<1>5. Scans[v][i].blocks[n] \in Nat
  BY PlanType
<1>6. b # Garbage /\ b # NoBlock
  BY <1>4 DEF Garbage, NoBlock
<1>7. Key(b.query, b.work) \in Keys
  BY <1>4 DEF Keys
<1> QED
  BY <1>4, <1>5, <1>6, <1>7, PlanType

\* The combined ids of two scans are equal only if both of their parts are.
LEMMA KeyInjective ==
  ASSUME NEW p \in Nat, NEW q \in Nat, NEW w \in 0..99, NEW x \in 0..99,
         Key(p, w) = Key(q, x)
  PROVE  p = q /\ w = x
BY DEF Key

\* The block that is found under a key of a validation.
LEMMA BlockOfKey ==
  ASSUME NEW b \in Blocks, NEW v \in Validations, NEW w \in 0..99,
         Key(b.query, b.work) = Key(Id[v], w)
  PROVE  b.query = Id[v] /\ b.work = w
<1>1. b.query \in Nat /\ b.work \in 0..99
  BY BlockFields
<1>2. Id[v] \in Nat
  BY PlanType
<1> QED
  BY <1>1, <1>2, KeyInjective, Zenon

-----------------------------------------------------------------------------
(***************************************************************************)
(* Types.  A call that is not over stands at a scan, the first loop leads  *)
(* to a second one, and a lookup has missed less than three times.         *)
(***************************************************************************)
Calling == {"send", "call", "find", "fetch", "insert", "read"}

AtScan(v) ==
  /\ pc[v] \in Calling => scan[v] \in ScanIndexes(v) /\ NextScan(v, 0) \in ScanIndexes(v)
  /\ pc[v] = "find" => misses[v] < 3

ScanInv == \A v \in Validations : AtScan(v)

\* The places in a plan of at most 100 scans, and behind it.
LEMMA PlacesInPlan ==
  ASSUME NEW n \in Nat, n <= 100, NEW i \in 0..n
  PROVE  /\ i \in 1..n => i \in 1..100 /\ i - 1 \in 0..99
         /\ \A j \in (i + 1)..(n + 1) : j \in 1..101
OBVIOUS

\* The scan a call stands at, and the key it looks up.
LEMMA ScanTypes ==
  ASSUME TypeOK, NEW v \in Validations, AtScan(v), pc[v] \in Calling
  PROVE  /\ scan[v] \in ScanIndexes(v) /\ scan[v] \in 1..100 /\ scan[v] \in 0..Len(Scans[v])
         /\ NextScan(v, scan[v]) \in 1..101 /\ NextScan(v, 0) \in 1..101
         /\ scan[v] - 1 \in 0..99 /\ Sought(v) \in Nat
<1> DEFINE n == Len(Scans[v])
<1>1. n \in Nat /\ n <= 100 /\ Id[v] \in Nat
  BY PlanType
<1>2. scan[v] \in 1..n
  BY DEF AtScan, ScanIndexes
<1>3. NextScan(v, scan[v]) \in (scan[v] + 1)..(n + 1) /\ NextScan(v, 0) \in (0 + 1)..(n + 1)
  <2> HIDE DEF n
  <2>1. scan[v] \in 0..n /\ 0 \in 0..n
    BY <1>1, <1>2
  <2> QED BY <2>1, NextScanType DEF n
<1> HIDE DEF n
<1>4. scan[v] \in 0..n /\ 0 \in 0..n
  BY <1>1, <1>2
<1>5. scan[v] \in 1..100 /\ scan[v] - 1 \in 0..99
  BY <1>1, <1>2, <1>4, PlacesInPlan
<1>6. NextScan(v, scan[v]) \in 1..101 /\ NextScan(v, 0) \in 1..101
  BY <1>1, <1>3, <1>4, PlacesInPlan
<1>7. Sought(v) \in Nat
  BY <1>1, <1>5 DEF Sought, Key
<1> QED
  BY <1>4, <1>5, <1>6, <1>7 DEF n, AtScan

\* The blocks of a scan of the plan are blocks, and the input thread's is one.
LEMMA BlocksOfScan ==
  ASSUME NEW v \in Validations, NEW i \in ScanIndexes(v)
  PROVE  BlocksOf(v, i) \subseteq Blocks
BY DEF Blocks

\* The block the input thread has in hand.
LEMMA InputTypes ==
  ASSUME TypeOK, input.at \in {"receive", "count", "publish", "insert", "assign"}
  PROVE  /\ input.block \in Blocks /\ InputKey \in Nat /\ InputKey \in Keys /\ input.block.rows \in Nat
         /\ InputKey = Key(input.block.query, input.block.work)
<1>1. input.block \in Blocks
  BY DEF TypeOK
<1> QED
  BY <1>1, BlockFields DEF InputKey, Key

\* Nothing is sent, received or published at first.
LEMMA TypeInit == Init => TypeOK /\ ScanInv
<1> SUFFICES ASSUME Init PROVE TypeOK /\ ScanInv
  OBVIOUS
<1>1. ASSUME NEW v \in Validations PROVE scan[v] \in 1..101 /\ scan[v] = NextScan(v, 0)
  <2> DEFINE n == Len(Scans[v])
  <2>1. n \in Nat /\ n <= 100
    BY PlanType
  <2>2. 0 \in 0..n
    <3> HIDE DEF n
    <3> QED BY <2>1
  <2>3. NextScan(v, 0) \in (0 + 1)..(n + 1)
    BY <2>2, NextScanType
  <2> HIDE DEF n
  <2>4. NextScan(v, 0) \in 1..101
    BY <2>1, <2>2, <2>3, PlacesInPlan
  <2> QED
    BY <2>4 DEF Init
<1>2. scan \in [Validations -> 1..101]
  BY <1>1 DEF Init
<1>3. /\ input \in [at : {"accept", "receive", "count", "publish", "insert", "assign", "spin", "gone"},
                    block : Blocks \union {NoBlock}, left : 0..Chunks]
      /\ input.at = "accept"
  BY CsdAssumption DEF Init
<1>4. pc \in [Validations -> {"send", "call", "find", "fetch", "insert", "read", "done", "lost"}]
  BY DEF Init
<1>5. TypeOK
  <2>1. rowCountMap \in [Keys -> Nat] /\ misses \in [Validations -> 0..3] /\ ready \in [Validations -> BOOLEAN]
    BY DEF Init
  <2>2. times \in [Validations -> Seq([scan : 1..100, key : Nat, value : Values, ready : BOOLEAN])]
    BY DEF Init
  <2>3. /\ flight \subseteq Blocks /\ resultMap \subseteq [key : Nat, value : Values]
        /\ inserting \subseteq Validations \union {Input} /\ damaged \in BOOLEAN
    BY DEF Init
  <2> QED
    BY <1>2, <1>3, <1>4, <2>1, <2>2, <2>3 DEF TypeOK
<1>6. ScanInv
  BY <1>1 DEF Init, ScanInv, AtScan, Calling
<1> QED
  BY <1>5, <1>6

\* What the shared map holds after an insertion begins, ends or is lost.
LEMMA MapTypes ==
  ASSUME TypeOK, NEW t \in Validations \union {Input}, NEW key \in Nat
  PROVE  BeginInsert(t) \/ EndInsert(t, key) \/ LoseInsert(t) =>
           /\ resultMap' \subseteq [key : Nat, value : Values]
           /\ inserting' \subseteq Validations \union {Input}
           /\ damaged' \in BOOLEAN
<1>1. [key |-> key, value |-> Garbage] \in [key : Nat, value : Values]
  BY DEF Values
<1> QED
  BY <1>1 DEF TypeOK, BeginInsert, EndInsert, LoseInsert

\* The return of a lookup.
LEMMA ReturnTypes ==
  ASSUME TypeOK, ScanInv, NEW v \in Validations, pc[v] \in {"fetch", "read", "insert"},
         NEW value \in Values, Return(v, value)
  PROVE  /\ flight' \subseteq Blocks /\ UNCHANGED <<input, rowCountMap, misses, ready>>
         /\ pc' \in [Validations -> {"send", "call", "find", "fetch", "insert", "read", "done", "lost"}]
         /\ scan' \in [Validations -> 1..101]
         /\ times' \in [Validations -> Seq([scan : 1..100, key : Nat, value : Values, ready : BOOLEAN])]
         /\ ScanInv'
<1> DEFINE next == NextScan(v, scan[v])
           entry == [scan |-> scan[v], key |-> Sought(v), value |-> value, ready |-> ready[v]]
<1>1. /\ scan[v] \in 1..100 /\ next \in 1..101 /\ Sought(v) \in Nat /\ NextScan(v, 0) \in ScanIndexes(v)
  BY ScanTypes DEF ScanInv, AtScan, Calling
<1>2. entry \in [scan : 1..100, key : Nat, value : Values, ready : BOOLEAN]
  BY <1>1 DEF TypeOK
<1>3. times' = [times EXCEPT ![v] = Append(@, entry)]
  BY DEF Return
<1>4. /\ scan' = [scan EXCEPT ![v] = next] /\ UNCHANGED <<flight, input, rowCountMap, misses, ready>>
      /\ pc' = [pc EXCEPT ![v] = IF next \in ScanIndexes(v) THEN "call" ELSE "done"]
  BY DEF Return
<1> HIDE DEF next, entry
<1>5. times' \in [Validations -> Seq([scan : 1..100, key : Nat, value : Values, ready : BOOLEAN])]
  <2> DEFINE E == [scan : 1..100, key : Nat, value : Values, ready : BOOLEAN]
  <2>1. times \in [Validations -> Seq(E)] /\ entry \in E
    BY <1>2 DEF TypeOK
  <2> HIDE DEF E
  <2>2. Append(times[v], entry) \in Seq(E)
    BY <2>1
  <2>3. times' \in [Validations -> Seq(E)]
    BY <1>3, <2>1, <2>2
  <2> QED BY <2>3 DEF E
<1>6. ASSUME NEW u \in Validations PROVE AtScan(u)'
  <2>1. CASE u = v
    BY <1>1, <1>4, <2>1 DEF AtScan, Calling, TypeOK
  <2>2. CASE u # v
    BY <1>4, <2>2 DEF AtScan, ScanInv, TypeOK
  <2> QED BY <2>1, <2>2
<1> QED
  BY <1>1, <1>4, <1>5, <1>6 DEF TypeOK, ScanInv

\* The steps of executeQEMU keep the types.
LEMMA CallerTypes ==
  ASSUME TypeOK, ScanInv, NEW v \in Validations, executeQEMU(v)
  PROVE  TypeOK' /\ ScanInv'
<1> DEFINE Stages == {"send", "call", "find", "fetch", "insert", "read", "done", "lost"}
<1> USE DEF map
<1>1. pc \in [Validations -> Stages] /\ scan \in [Validations -> 1..101] /\ misses \in [Validations -> 0..3]
      /\ ready \in [Validations -> BOOLEAN]
  BY DEF TypeOK
<1>2. pc[v] \in Calling => /\ scan[v] \in ScanIndexes(v) /\ NextScan(v, 0) \in ScanIndexes(v)
                           /\ NextScan(v, scan[v]) \in 1..101 /\ NextScan(v, 0) \in 1..101 /\ Sought(v) \in Nat
  BY ScanTypes DEF ScanInv, AtScan
<1>3. ASSUME NEW u \in Validations \ {v}, pc'[u] = pc[u], scan'[u] = scan[u], misses'[u] = misses[u]
      PROVE  AtScan(u)'
  BY <1>3 DEF ScanInv, AtScan
<1>4. CASE SendSnippet(v)
  <2> DEFINE i == scan[v]
             next == NextScan(v, i)
             more == next \in ScanIndexes(v)
  <2>1. /\ flight' = flight \union BlocksOf(v, i) \/ flight' = flight
        /\ pc[v] = "send" /\ pc' = [pc EXCEPT ![v] = IF more THEN "send" ELSE "call"]
        /\ scan' = [scan EXCEPT ![v] = IF more THEN next ELSE NextScan(v, 0)]
        /\ UNCHANGED <<input, rowCountMap, map, misses, ready, times>>
    BY <1>4 DEF SendSnippet
  <2>2. i \in ScanIndexes(v) /\ next \in 1..101 /\ NextScan(v, 0) \in 1..101 /\ NextScan(v, 0) \in ScanIndexes(v)
    BY <1>2, <2>1 DEF Calling
  <2> HIDE DEF i, next
  <2>3. flight' \subseteq Blocks
    BY <2>1, <2>2, BlocksOfScan DEF TypeOK
  <2>4. TypeOK'
    BY <1>1, <2>1, <2>2, <2>3 DEF TypeOK
  <2>5. AtScan(v)'
    BY <1>1, <2>1, <2>2 DEF AtScan, Calling
  <2> QED
    BY <1>1, <1>3, <2>1, <2>4, <2>5 DEF ScanInv
<1>5. CASE CallCalculate(v)
  <2>1. /\ pc[v] = "call" /\ pc' = [pc EXCEPT ![v] = "find"] /\ misses' = [misses EXCEPT ![v] = 0]
        /\ ready' = [ready EXCEPT ![v] = Published(Sought(v))]
        /\ UNCHANGED <<flight, input, rowCountMap, map, scan, times>>
    BY <1>5 DEF CallCalculate
  <2>2. ready' \in [Validations -> BOOLEAN]
    BY <1>1, <2>1 DEF Published
  <2>3. misses' \in [Validations -> 0..3] /\ pc' \in [Validations -> Stages]
    BY <1>1, <2>1
  <2>4. TypeOK'
    BY <2>1, <2>2, <2>3 DEF TypeOK
  <2>5. AtScan(v)'
    BY <1>1, <1>2, <2>1 DEF AtScan, Calling
  <2> QED
    BY <1>1, <1>3, <2>1, <2>4, <2>5 DEF ScanInv
<1>6. CASE Hit(v)
  <2>1. /\ pc[v] = "find" /\ pc' = [pc EXCEPT ![v] = "fetch"]
        /\ UNCHANGED <<flight, input, rowCountMap, map, scan, misses, ready, times>>
    BY <1>6 DEF Hit
  <2>2. TypeOK'
    BY <1>1, <2>1 DEF TypeOK
  <2>3. AtScan(v)'
    BY <1>1, <1>2, <2>1 DEF AtScan, Calling
  <2> QED
    BY <1>1, <1>3, <2>1, <2>2, <2>3 DEF ScanInv
<1>7. CASE Miss(v)
  <2>1. /\ pc[v] = "find" /\ misses' = [misses EXCEPT ![v] = misses[v] + 1]
        /\ pc' = [pc EXCEPT ![v] = IF misses'[v] >= 3 THEN "fetch" ELSE "find"]
        /\ UNCHANGED <<flight, input, rowCountMap, map, scan, ready, times>>
    BY <1>7 DEF Miss
  <2>2. misses[v] \in 0..2 /\ misses'[v] = misses[v] + 1
    BY <1>1, <2>1 DEF ScanInv, AtScan
  <2>3. misses' \in [Validations -> 0..3] /\ pc' \in [Validations -> Stages]
    BY <1>1, <2>1, <2>2
  <2>4. TypeOK'
    BY <2>1, <2>3 DEF TypeOK
  <2>5. AtScan(v)'
    BY <1>1, <1>2, <2>1, <2>2 DEF AtScan, Calling
  <2> QED
    BY <1>1, <1>3, <2>1, <2>4, <2>5 DEF ScanInv
<1>8. CASE Read(v)
  <2>1. PICK node \in Nodes(Sought(v)) : Return(v, node.value)
    BY <1>8 DEF Read
  <2>2. pc[v] \in {"fetch", "read", "insert"} /\ UNCHANGED <<resultMap, inserting, damaged>>
    BY <1>8 DEF Read
  <2>3. node.value \in Values
    BY DEF Nodes, TypeOK
  <2> QED
    BY <2>1, <2>2, <2>3, ReturnTypes DEF TypeOK
<1>9. CASE FetchMissing(v)
  <2>1. /\ pc[v] = "fetch" /\ BeginInsert(v) /\ pc' = [pc EXCEPT ![v] = "insert"]
        /\ UNCHANGED <<flight, input, rowCountMap, scan, misses, ready, times>>
    BY <1>9 DEF FetchMissing
  <2>2. /\ resultMap' \subseteq [key : Nat, value : Values] /\ damaged' \in BOOLEAN
        /\ inserting' \subseteq Validations \union {Input}
    BY <2>1, MapTypes
  <2>3. TypeOK'
    BY <1>1, <2>1, <2>2 DEF TypeOK
  <2>4. AtScan(v)'
    BY <1>1, <1>2, <2>1 DEF AtScan, Calling
  <2> QED
    BY <1>1, <1>3, <2>1, <2>3, <2>4 DEF ScanInv
<1>10. CASE InsertDefault(v)
  <2>1. /\ pc[v] = "insert" /\ EndInsert(v, Sought(v)) /\ pc' = [pc EXCEPT ![v] = "read"]
        /\ UNCHANGED <<flight, input, rowCountMap, scan, misses, ready, times>>
    BY <1>10 DEF InsertDefault
  <2>2. Sought(v) \in Nat
    BY <1>2, <2>1 DEF Calling
  <2>3. /\ resultMap' \subseteq [key : Nat, value : Values] /\ damaged' \in BOOLEAN
        /\ inserting' \subseteq Validations \union {Input}
    BY <2>1, <2>2, MapTypes
  <2>4. TypeOK'
    BY <1>1, <2>1, <2>3 DEF TypeOK
  <2>5. AtScan(v)'
    BY <1>1, <1>2, <2>1 DEF AtScan, Calling
  <2> QED
    BY <1>1, <1>3, <2>1, <2>4, <2>5 DEF ScanInv
<1>11. CASE LoseDefault(v)
  <2>1. pc[v] = "insert" /\ LoseInsert(v) /\ Return(v, Garbage) /\ Garbage \in Values
    BY <1>11 DEF LoseDefault, Values
  <2>2. /\ resultMap' \subseteq [key : Nat, value : Values] /\ damaged' \in BOOLEAN
        /\ inserting' \subseteq Validations \union {Input}
    BY <2>1 DEF LoseInsert, TypeOK
  <2> QED
    BY <2>1, <2>2, ReturnTypes DEF TypeOK
<1> QED
  BY <1>4, <1>5, <1>6, <1>7, <1>8, <1>9, <1>10, <1>11 DEF executeQEMU

\* The steps of the input thread keep the types.
LEMMA ReceiverTypes ==
  ASSUME TypeOK, ScanInv, inputQEMUHandler \/ CloseEarly
  PROVE  TypeOK' /\ ScanInv'
<1> DEFINE Places == {"accept", "receive", "count", "publish", "insert", "assign", "spin", "gone"}
           Inputs == [at : Places, block : Blocks \union {NoBlock}, left : 0..Chunks]
           InputOK == /\ input \in Inputs
                      /\ input.at \in {"receive", "count", "publish", "insert", "assign"} => input.block \in Blocks
                      /\ input.at = "receive" => input.left > 0
<1> USE DEF map
<1>1. input \in Inputs /\ Chunks \in Nat \ {0}
  BY CsdAssumption DEF TypeOK
<1>2. UNCHANGED callers
  BY DEF inputQEMUHandler, AcceptBlock, Receive, CountBlock, FindNode, NodeMissing, InsertNode, LoseNode,
     Assign, CloseEarly
<1>3. ScanInv'
  BY <1>2 DEF callers, ScanInv, AtScan
<1>4. ASSUME InputOK', flight' \subseteq Blocks, rowCountMap' \in [Keys -> Nat],
             resultMap' \subseteq [key : Nat, value : Values],
             inserting' \subseteq Validations \union {Input}, damaged' \in BOOLEAN
      PROVE  TypeOK'
  BY <1>2, <1>4 DEF TypeOK, callers
<1>5. CASE AcceptBlock
  <2>1. PICK b \in flight, n \in 1..Chunks : flight' = flight \ {b} /\ input' = [at |-> "receive", block |-> b, left |-> n]
    BY <1>5 DEF AcceptBlock
  <2>2. InputOK'
    BY <1>1, <2>1 DEF TypeOK
  <2> QED
    BY <1>3, <1>4, <1>5, <2>1, <2>2 DEF AcceptBlock, TypeOK
<1>6. CASE Receive
  <2>1. /\ input.at = "receive" /\ input.left \in Nat \ {0} /\ input.left \in 0..Chunks /\ input.block \in Blocks
        /\ input' = [input EXCEPT !.left = input.left - 1, !.at = IF input.left = 1 THEN "count" ELSE "receive"]
    BY <1>1, <1>6 DEF Receive, TypeOK
  <2>2. input.left - 1 \in 0..Chunks /\ (input.left # 1 => input.left - 1 > 0)
    BY <1>1, <2>1
  <2>3. /\ input'.left = input.left - 1 /\ input'.block = input.block
        /\ input'.at = IF input.left = 1 THEN "count" ELSE "receive"
        /\ input' \in Inputs
    BY <1>1, <2>1, <2>2
  <2>4. InputOK'
    BY <2>1, <2>2, <2>3
  <2> QED
    BY <1>3, <1>4, <1>6, <2>4 DEF Receive, TypeOK
<1>7. CASE CloseEarly
  <2>1. input' = [input EXCEPT !.at = "spin"] /\ UNCHANGED <<flight, rowCountMap, resultMap, inserting, damaged>>
    BY <1>7 DEF CloseEarly
  <2>2. InputOK'
    BY <1>1, <2>1
  <2>3. /\ flight' \subseteq Blocks /\ rowCountMap' \in [Keys -> Nat] /\ damaged' \in BOOLEAN
        /\ resultMap' \subseteq [key : Nat, value : Values] /\ inserting' \subseteq Validations \union {Input}
    BY <2>1 DEF TypeOK
  <2> QED
    BY <1>3, <1>4, <2>2, <2>3
<1>8. CASE CountBlock
  <2> DEFINE rows == rowCountMap[InputKey] + input.block.rows
  <2>1. InputKey \in Keys /\ input.block \in Blocks /\ rows \in Nat
    <3>1. input.at = "count"
      BY <1>8 DEF CountBlock
    <3>2. InputKey \in Keys /\ input.block \in Blocks /\ input.block.rows \in Nat
      BY <3>1, InputTypes
    <3>3. rowCountMap \in [Keys -> Nat]
      BY DEF TypeOK
    <3> QED BY <3>2, <3>3
  <2>2. /\ rowCountMap' = [rowCountMap EXCEPT ![InputKey] = rows]
        /\ input' = [input EXCEPT !.at = IF Publishes(rows) THEN "publish" ELSE "accept"]
        /\ UNCHANGED <<flight, resultMap, inserting, damaged>>
    BY <1>8 DEF CountBlock
  <2> HIDE DEF rows
  <2>3. InputOK'
    BY <1>1, <2>1, <2>2
  <2>4. rowCountMap' \in [Keys -> Nat]
    BY <2>1, <2>2 DEF TypeOK
  <2> QED
    BY <1>3, <1>4, <2>2, <2>3, <2>4 DEF TypeOK
<1>9. CASE FindNode
  <2>1. InputOK'
    BY <1>1, <1>9 DEF FindNode, TypeOK
  <2> QED
    BY <1>3, <1>4, <1>9, <2>1 DEF FindNode, TypeOK
<1>10. CASE NodeMissing
  <2>1. InputOK'
    BY <1>1, <1>10 DEF NodeMissing, TypeOK
  <2>2. /\ resultMap' \subseteq [key : Nat, value : Values] /\ damaged' \in BOOLEAN
        /\ inserting' \subseteq Validations \union {Input}
    BY <1>10 DEF NodeMissing, BeginInsert, TypeOK
  <2> QED
    BY <1>3, <1>4, <1>10, <2>1, <2>2 DEF NodeMissing, TypeOK
<1>11. CASE InsertNode \/ LoseNode
  <2>1. /\ input.at = "insert" /\ UNCHANGED <<flight, rowCountMap>>
        /\ input' = [input EXCEPT !.at = "assign"] \/ input' = [input EXCEPT !.at = "accept"]
        /\ EndInsert(Input, InputKey) \/ LoseInsert(Input)
    BY <1>11 DEF InsertNode, LoseNode
  <2>2. InputOK' /\ InputKey \in Nat
    BY <1>1, <2>1, InputTypes DEF TypeOK
  <2>3. /\ resultMap' \subseteq [key : Nat, value : Values] /\ damaged' \in BOOLEAN
        /\ inserting' \subseteq Validations \union {Input}
    BY <2>1, <2>2, MapTypes
  <2> QED
    BY <1>3, <1>4, <2>1, <2>2, <2>3 DEF TypeOK
<1>12. CASE Assign
  <2>1. PICK node \in Nodes(InputKey) :
           resultMap' = (resultMap \ {node}) \union {[node EXCEPT !.value = input.block]}
    BY <1>12 DEF Assign
  <2>2. [node EXCEPT !.value = input.block] \in [key : Nat, value : Values]
    BY <1>12, InputTypes DEF Assign, Nodes, TypeOK, Values
  <2>3. InputOK'
    BY <1>1, <1>12 DEF Assign
  <2> QED
    BY <1>3, <1>4, <1>12, <2>1, <2>2, <2>3 DEF Assign, TypeOK
<1> QED
  BY <1>5, <1>6, <1>7, <1>8, <1>9, <1>10, <1>11, <1>12 DEF inputQEMUHandler

\* No step of a handler or of the input thread leaves the types.
LEMMA TypeStep == TypeOK /\ ScanInv /\ [Next]_vars => TypeOK' /\ ScanInv'
<1> SUFFICES ASSUME TypeOK, ScanInv, [Next]_vars PROVE TypeOK' /\ ScanInv'
  OBVIOUS
<1>1. CASE InputExit \/ Abort
  <2>1. /\ pc' \in [Validations -> {"send", "call", "find", "fetch", "insert", "read", "done", "lost"}]
        /\ \A v \in Validations : pc'[v] \notin Calling
    BY <1>1 DEF InputExit, Abort, EndProcess, Calling
  <2>2. /\ input' = [input EXCEPT !.at = "gone"]
        /\ UNCHANGED <<flight, rowCountMap, resultMap, inserting, damaged, scan, misses, ready, times>>
    BY <1>1 DEF InputExit, Abort, EndProcess, map
  <2>3. TypeOK'
    BY <2>1, <2>2 DEF TypeOK
  <2>4. ScanInv'
    BY <2>1 DEF ScanInv, AtScan, Calling
  <2> QED BY <2>3, <2>4
<1>2. CASE UNCHANGED vars
  BY <1>2 DEF vars, map, callers, TypeOK, ScanInv, AtScan
<1> QED
  BY <1>1, <1>2, CallerTypes, ReceiverTypes DEF Next, Idle

\* Every variable stays in its type, and every key the input thread counts is the
\* key of a scan that was sent, however many validations share the CSD.
THEOREM Types == Spec => []TypeOK
BY TypeInit, TypeStep, PTL DEF Spec

-----------------------------------------------------------------------------
(***************************************************************************)
(* The shared map.  A block is only ever found under the key of its scan.  *)
(* As long as no two insertions have overlapped, one thread inserts at a   *)
(* time and its key has no node, so that a key has one node at most: the   *)
(* node operator[] finds is then the one the input thread has published.   *)
(* And a count that was to be published has been, or the input thread is   *)
(* about to.                                                               *)
(***************************************************************************)
Owned(value, key) == value # Garbage => Key(value.query, value.work) = key

OwnInv ==
  /\ \A node \in resultMap : Owned(node.value, node.key)
  /\ \A v \in Validations : \A t \in Lookups(v) : t.key = Key(Id[v], t.scan - 1) /\ Owned(t.value, t.key)

OneNodeInv ==
  ~damaged =>
    /\ \A s, t \in inserting : s = t
    /\ \A v \in Validations : pc[v] = "insert" => v \in inserting /\ Nodes(Sought(v)) = {}
    /\ input.at = "insert" => Input \in inserting /\ Nodes(InputKey) = {}
    /\ \A m, n \in resultMap : m.key = n.key => m = n

ReadyInv ==
  /\ \A v \in Validations : ready[v] /\ pc[v] \in {"find", "fetch", "insert", "read"} => Published(Sought(v))
  /\ ReadyIsUsed

CountedInv ==
  ~damaged =>
    \A k \in Keys : Publishes(rowCountMap[k]) =>
      \/ Published(k)
      \/ input.at \in {"publish", "insert", "assign"} /\ InputKey = k
      \/ input.at = "gone"

\* What a step may do to the nodes of the map.
LEMMA NodesStep ==
  ASSUME [Next]_vars
  PROVE  \/ resultMap' = resultMap
         \/ \E key : resultMap' = resultMap \union {[key |-> key, value |-> Garbage]}
         \/ Assign
<1> USE DEF map, BeginInsert, EndInsert, LoseInsert
<1>1. ASSUME NEW v \in Validations, executeQEMU(v)
      PROVE  resultMap' = resultMap \/ InsertDefault(v)
  BY <1>1 DEF executeQEMU, SendSnippet, CallCalculate, Hit, Miss, Read, FetchMissing, LoseDefault
<1>2. inputQEMUHandler => resultMap' = resultMap \/ InsertNode \/ Assign
  BY DEF inputQEMUHandler, AcceptBlock, Receive, CountBlock, FindNode, NodeMissing, LoseNode
<1>3. \A v \in Validations : InsertDefault(v) =>
        \E key : resultMap' = resultMap \union {[key |-> key, value |-> Garbage]}
  BY DEF InsertDefault
<1>4. InsertNode => \E key : resultMap' = resultMap \union {[key |-> key, value |-> Garbage]}
  BY DEF InsertNode
<1>5. CloseEarly \/ InputExit \/ Abort \/ Idle \/ UNCHANGED vars => resultMap' = resultMap
  BY DEF CloseEarly, InputExit, Abort, EndProcess, Idle, vars
<1> QED
  BY <1>1, <1>2, <1>3, <1>4, <1>5 DEF Next

\* The node Assign writes, and the block it holds afterwards.
LEMMA AssignedNode ==
  ASSUME TypeOK, Assign
  PROVE  \E node \in resultMap :
           /\ node.key = InputKey
           /\ LET new == [node EXCEPT !.value = input.block]
              IN  /\ resultMap' = (resultMap \ {node}) \union {new}
                  /\ new.key = InputKey /\ new.value = input.block /\ new.value # Garbage
                  /\ Owned(new.value, new.key)
<1>1. PICK node \in Nodes(InputKey) :
         resultMap' = (resultMap \ {node}) \union {[node EXCEPT !.value = input.block]}
  BY DEF Assign
<1>2. node \in resultMap /\ node.key = InputKey /\ node \in [key : Nat, value : Values]
  BY DEF Nodes, TypeOK
<1> DEFINE new == [node EXCEPT !.value = input.block]
<1>3. new.key = InputKey /\ new.value = input.block
  BY <1>2
<1>4. input.block # Garbage /\ InputKey = Key(input.block.query, input.block.work)
  BY InputTypes, BlockFields DEF Assign
<1> HIDE DEF new
<1>5. Owned(new.value, new.key)
  BY <1>3, <1>4 DEF Owned
<1> QED
  BY <1>1, <1>2, <1>3, <1>4, <1>5 DEF new

\* What is published stays published.
LEMMA PublishedStays ==
  ASSUME TypeOK, [Next]_vars, NEW k, Published(k)
  PROVE  Published(k)'
<1>1. PICK old \in resultMap : old.key = k /\ old.value # Garbage
  BY DEF Published, Nodes
<1>2. CASE \/ resultMap' = resultMap
           \/ \E key : resultMap' = resultMap \union {[key |-> key, value |-> Garbage]}
  BY <1>1, <1>2 DEF Published, Nodes
<1>3. CASE Assign
  <2>1. PICK node \in resultMap :
           /\ node.key = InputKey
           /\ LET new == [node EXCEPT !.value = input.block]
              IN  /\ resultMap' = (resultMap \ {node}) \union {new}
                  /\ new.key = InputKey /\ new.value = input.block /\ new.value # Garbage
    BY <1>3, AssignedNode
  <2> DEFINE new == [node EXCEPT !.value = input.block]
  <2>2. /\ resultMap' = (resultMap \ {node}) \union {new} /\ new.key = InputKey /\ new.value # Garbage
    BY <2>1
  <2> HIDE DEF new
  <2> QED
    BY <1>1, <2>1, <2>2 DEF Published, Nodes
<1> QED
  BY <1>2, <1>3, NodesStep

\* A lookup is made by Read, of a node, or by LoseDefault.
LEMMA LookupsStep ==
  ASSUME TypeOK, [Next]_vars
  PROVE  \/ times' = times
         \/ \E v \in Validations :
              \/ Read(v) /\ \E node \in Nodes(Sought(v)) : Return(v, node.value)
              \/ LoseDefault(v)
<1> USE DEF callers, map
<1>1. ASSUME NEW v \in Validations, executeQEMU(v)
      PROVE  times' = times \/ Read(v) \/ LoseDefault(v)
  BY <1>1 DEF executeQEMU, SendSnippet, CallCalculate, Hit, Miss, FetchMissing, InsertDefault
<1>2. inputQEMUHandler \/ CloseEarly \/ InputExit \/ Abort \/ Idle \/ UNCHANGED vars => times' = times
  BY DEF inputQEMUHandler, AcceptBlock, Receive, CountBlock, FindNode, NodeMissing, InsertNode, LoseNode,
     Assign, CloseEarly, InputExit, Abort, EndProcess, Idle, vars
<1>3. \A v \in Validations : Read(v) => \E node \in Nodes(Sought(v)) : Return(v, node.value)
  BY DEF Read
<1> QED
  BY <1>1, <1>2, <1>3 DEF Next

\* A lookup that returns is added to those before it.
LEMMA LookupsGrow ==
  ASSUME TypeOK, NEW v \in Validations, NEW value, Return(v, value)
  PROVE  \A u \in Validations : \A t \in Lookups(u)' :
           \/ t \in Lookups(u)
           \/ /\ u = v
              /\ t = [scan |-> scan[v], key |-> Sought(v), value |-> value, ready |-> ready[v]]
<1> DEFINE entry == [scan |-> scan[v], key |-> Sought(v), value |-> value, ready |-> ready[v]]
           E == [scan : 1..100, key : Nat, value : Values, ready : BOOLEAN]
<1>1. times \in [Validations -> Seq(E)]
  BY DEF TypeOK
<1>2. times' = [times EXCEPT ![v] = Append(times[v], entry)]
  BY DEF Return
<1> HIDE DEF E, entry
<1>3. ASSUME NEW u \in Validations, u # v PROVE Lookups(u)' = Lookups(u)
  BY <1>1, <1>2, <1>3 DEF Lookups
<1>4. ASSUME NEW t \in Lookups(v)' PROVE t \in Lookups(v) \/ t = entry
  <2>1. times'[v] = Append(times[v], entry) /\ times[v] \in Seq(E)
    BY <1>1, <1>2
  <2>2. PICK i \in DOMAIN times'[v] : t = times'[v][i]
    BY <1>4 DEF Lookups
  <2> DEFINE old == times[v]
  <2>3. i \in 1..Len(old) + 1 /\ Len(old) \in Nat
    BY <2>1, <2>2
  <2>4. CASE i = Len(old) + 1
    BY <2>1, <2>2, <2>4
  <2>5. CASE i \in 1..Len(old)
    BY <2>1, <2>2, <2>5 DEF Lookups
  <2> QED
    BY <2>3, <2>4, <2>5
<1> QED
  BY <1>3, <1>4 DEF entry

\* OwnInv survives every step.
LEMMA OwnStep ==
  ASSUME TypeOK, ScanInv, OwnInv, [Next]_vars
  PROVE  OwnInv'
<1>1. \A node \in resultMap' : Owned(node.value, node.key)
  <2>1. CASE resultMap' = resultMap
    BY <2>1 DEF OwnInv
  <2>2. CASE \E key : resultMap' = resultMap \union {[key |-> key, value |-> Garbage]}
    <3>1. PICK key : resultMap' = resultMap \union {[key |-> key, value |-> Garbage]}
      BY <2>2
    <3>2. Owned(Garbage, key)
      BY DEF Owned
    <3> QED BY <3>1, <3>2 DEF OwnInv
  <2>3. CASE Assign
    <3>1. PICK node \in resultMap :
             LET new == [node EXCEPT !.value = input.block]
             IN  resultMap' = (resultMap \ {node}) \union {new} /\ Owned(new.value, new.key)
      BY <2>3, AssignedNode
    <3> DEFINE new == [node EXCEPT !.value = input.block]
    <3>2. resultMap' = (resultMap \ {node}) \union {new} /\ Owned(new.value, new.key)
      BY <3>1
    <3> HIDE DEF new
    <3> QED BY <3>2 DEF OwnInv
  <2> QED
    BY <2>1, <2>2, <2>3, NodesStep
<1>2. ASSUME NEW v \in Validations, NEW value, Return(v, value), pc[v] \in Calling,
             Owned(value, Sought(v))
      PROVE  \A u \in Validations : \A t \in Lookups(u)' : t.key = Key(Id[u], t.scan - 1) /\ Owned(t.value, t.key)
  <2> DEFINE entry == [scan |-> scan[v], key |-> Sought(v), value |-> value, ready |-> ready[v]]
  <2>1. entry.key = Key(Id[v], entry.scan - 1) /\ Owned(entry.value, entry.key)
    BY <1>2 DEF Sought
  <2>2. \A u \in Validations : \A t \in Lookups(u)' : t \in Lookups(u) \/ (u = v /\ t = entry)
    BY <1>2, LookupsGrow
  <2> HIDE DEF entry
  <2> QED
    BY <2>1, <2>2 DEF OwnInv
<1>3. \A u \in Validations : \A t \in Lookups(u)' : t.key = Key(Id[u], t.scan - 1) /\ Owned(t.value, t.key)
  <2>1. CASE times' = times
    BY <2>1 DEF OwnInv, Lookups
  <2>2. ASSUME NEW v \in Validations, Read(v), NEW node \in Nodes(Sought(v)), Return(v, node.value)
        PROVE  \A u \in Validations : \A t \in Lookups(u)' : t.key = Key(Id[u], t.scan - 1) /\ Owned(t.value, t.key)
    <3>1. Owned(node.value, Sought(v)) /\ pc[v] \in Calling
      BY <2>2 DEF Nodes, OwnInv, Read, Calling
    <3> QED BY <1>2, <2>2, <3>1
  <2>3. ASSUME NEW v \in Validations, LoseDefault(v)
        PROVE  \A u \in Validations : \A t \in Lookups(u)' : t.key = Key(Id[u], t.scan - 1) /\ Owned(t.value, t.key)
    <3>1. Owned(Garbage, Sought(v)) /\ pc[v] \in Calling /\ Return(v, Garbage)
      BY <2>3 DEF Owned, LoseDefault, Calling
    <3> QED BY <1>2, <3>1
  <2> QED
    BY <2>1, <2>2, <2>3, LookupsStep
<1> QED
  BY <1>1, <1>3 DEF OwnInv, Owned, Lookups

\* At first the map is empty and nothing was looked up.
LEMMA OwnInit == Init => OwnInv
BY DEF Init, OwnInv, Lookups

\* A time that is no garbage was measured for the validation and the scan that
\* ask for it, though every validation shares the map with every other.
THEOREM TimesAreOwn == Spec => []NoForeignTime
<1>1. TypeOK /\ OwnInv => NoForeignTime
  <2> SUFFICES ASSUME TypeOK, OwnInv, DistinctIds, NEW v \in Validations, NEW t \in Lookups(v), t.value # Garbage
               PROVE  t.value.v = v /\ (Aligned(v) => t.value.scan = t.scan)
    BY DEF NoForeignTime
  <2> DEFINE b == t.value
           E == [scan : 1..100, key : Nat, value : Values, ready : BOOLEAN]
  <2>1. t \in E
    <3>1. times[v] \in Seq(E)
      BY DEF TypeOK
    <3> HIDE DEF E
    <3> QED BY <3>1 DEF Lookups
  <2>2. b \in Blocks /\ t.scan - 1 \in 0..99 /\ t.scan \in Nat
    BY <2>1 DEF Values
  <2>3. Key(b.query, b.work) = Key(Id[v], t.scan - 1)
    BY DEF OwnInv, Owned
  <2> HIDE DEF b
  <2>4. /\ b.v \in Validations /\ b.scan \in ScanIndexes(b.v) /\ b.query = Id[b.v] /\ b.query \in Nat
        /\ b.work = Scans[b.v][b.scan].work /\ b.work \in 0..99 /\ Id[v] \in Nat
    <3>1. Id[v] \in Nat
      BY PlanType
    <3> QED BY <2>2, <3>1, BlockFields
  <2>5. b.query = Id[v] /\ b.work = t.scan - 1
    <3>1. PICK w \in 0..99 : w = t.scan - 1
      BY <2>2
    <3>2. Key(b.query, b.work) = Key(Id[v], w)
      BY <2>3, <3>1
    <3> QED BY <2>2, <3>1, <3>2, BlockOfKey
  <2>6. b.v = v
    BY <2>4, <2>5 DEF DistinctIds
  <2>7. ASSUME Aligned(v) PROVE b.scan = t.scan
    <3>1. b.work = b.scan - 1 /\ b.scan \in Int
      BY <2>4, <2>6, <2>7 DEF Aligned, ScanIndexes
    <3> QED
      BY <2>2, <2>5, <3>1
  <2> QED
    BY <2>6, <2>7 DEF b
<1>2. Init => TypeOK /\ ScanInv /\ OwnInv
  BY TypeInit, OwnInit
<1>3. TypeOK /\ ScanInv /\ OwnInv /\ [Next]_vars => TypeOK' /\ ScanInv' /\ OwnInv'
  BY TypeStep, OwnStep
<1> QED
  BY <1>1, <1>2, <1>3, PTL DEF Spec

-----------------------------------------------------------------------------
\* A damaged map stays damaged.
LEMMA DamageStays ==
  ASSUME TypeOK, [Next]_vars, damaged
  PROVE  damaged'
BY DEF Next, executeQEMU, SendSnippet, CallCalculate, Hit, Miss, Read, FetchMissing, InsertDefault, LoseDefault,
   inputQEMUHandler, AcceptBlock, Receive, CountBlock, FindNode, NodeMissing, InsertNode, LoseNode, Assign,
   CloseEarly, InputExit, Abort, EndProcess, Idle, vars, map, BeginInsert, EndInsert, LoseInsert

\* A step that leaves the map alone and begins no insertion.
LEMMA OneNodeKept ==
  ASSUME OneNodeInv, UNCHANGED <<resultMap, inserting, damaged>>,
         \A v \in Validations : pc'[v] = "insert" => pc[v] = "insert" /\ scan'[v] = scan[v],
         input'.at = "insert" => input.at = "insert" /\ input'.block = input.block
  PROVE  OneNodeInv'
<1>1. \A k : Nodes(k)' = Nodes(k)
  BY DEF Nodes
<1>2. /\ \A v \in Validations : pc'[v] = "insert" => Sought(v)' = Sought(v)
      /\ input'.at = "insert" => InputKey' = InputKey
  BY DEF Sought, InputKey
<1>3. ASSUME NEW v \in Validations, ~damaged, pc'[v] = "insert" PROVE Nodes(Sought(v))' = {}
  <2>1. Nodes(Sought(v)) = {} /\ Sought(v)' = Sought(v)
    BY <1>2, <1>3 DEF OneNodeInv
  <2> QED BY <1>1, <2>1 DEF Nodes
<1>4. ASSUME ~damaged, input'.at = "insert" PROVE Nodes(InputKey)' = {}
  <2>1. Nodes(InputKey) = {} /\ InputKey' = InputKey
    BY <1>2, <1>4 DEF OneNodeInv
  <2> QED BY <1>1, <2>1 DEF Nodes
<1> QED
  BY <1>3, <1>4 DEF OneNodeInv

\* The thread that begins, or ends, the only insertion.
LEMMA OneNodeCallers ==
  ASSUME TypeOK, OneNodeInv, NEW v \in Validations, executeQEMU(v)
  PROVE  OneNodeInv'
<1> USE DEF map
<1>1. pc \in [Validations -> {"send", "call", "find", "fetch", "insert", "read", "done", "lost"}]
      /\ scan \in [Validations -> 1..101]
  BY DEF TypeOK
<1>2. CASE SendSnippet(v) \/ CallCalculate(v) \/ Hit(v) \/ Miss(v) \/ Read(v)
  <2>1. UNCHANGED <<resultMap, inserting, damaged, input>>
    BY <1>2 DEF SendSnippet, CallCalculate, Hit, Miss, Read, Return
  <2>2. \A u \in Validations : pc'[u] = "insert" => pc[u] = "insert" /\ scan'[u] = scan[u]
    BY <1>1, <1>2 DEF SendSnippet, CallCalculate, Hit, Miss, Read, Return
  <2> QED
    BY <2>1, <2>2, OneNodeKept
<1>3. CASE FetchMissing(v)
  <2> SUFFICES ASSUME ~damaged' PROVE OneNodeInv'
    BY DEF OneNodeInv
  <2>1. /\ ~damaged /\ inserting = {} /\ inserting' = {v} /\ resultMap' = resultMap /\ input' = input /\ scan' = scan
        /\ pc' = [pc EXCEPT ![v] = "insert"] /\ Nodes(Sought(v)) = {}
    BY <1>3 DEF FetchMissing, BeginInsert, Missing, Disturbed
  <2>2. input.at # "insert" /\ \A u \in Validations : pc[u] # "insert"
    BY <2>1 DEF OneNodeInv
  <2>3. Sought(v)' = Sought(v)
    BY <2>1 DEF Sought
  <2>4. Nodes(Sought(v))' = {}
    BY <2>1, <2>3 DEF Nodes
  <2> QED
    BY <1>1, <2>1, <2>2, <2>4 DEF OneNodeInv
<1>4. CASE InsertDefault(v)
  <2> SUFFICES ASSUME ~damaged' PROVE OneNodeInv'
    BY DEF OneNodeInv
  <2>1. /\ ~damaged /\ pc[v] = "insert" /\ pc' = [pc EXCEPT ![v] = "read"]
        /\ inserting' = inserting \ {v} /\ input' = input
        /\ resultMap' = resultMap \union {[key |-> Sought(v), value |-> Garbage]}
    BY <1>4 DEF InsertDefault, EndInsert
  <2>2. inserting = {v} /\ Nodes(Sought(v)) = {} /\ v # Input
    BY <2>1, ValidationsAssumption DEF OneNodeInv
  <2>3. input.at # "insert" /\ \A u \in Validations : pc'[u] # "insert"
    BY <1>1, <2>1, <2>2 DEF OneNodeInv
  <2>4. \A m, n \in resultMap' : m.key = n.key => m = n
    BY <2>1, <2>2 DEF OneNodeInv, Nodes
  <2> QED
    BY <2>1, <2>2, <2>3, <2>4 DEF OneNodeInv
<1>5. CASE LoseDefault(v)
  BY <1>5 DEF LoseDefault, LoseInsert, OneNodeInv
<1> QED
  BY <1>2, <1>3, <1>4, <1>5 DEF executeQEMU

\* The insertions of the input thread.
LEMMA OneNodeReceiver ==
  ASSUME TypeOK, OneNodeInv, inputQEMUHandler \/ CloseEarly
  PROVE  OneNodeInv'
<1> USE DEF map
<1>1. UNCHANGED <<pc, scan>> /\ \A v \in Validations : Sought(v)' = Sought(v)
  BY DEF inputQEMUHandler, AcceptBlock, Receive, CountBlock, FindNode, NodeMissing, InsertNode, LoseNode,
     Assign, CloseEarly, callers, Sought
<1>2. input \in [at : {"accept", "receive", "count", "publish", "insert", "assign", "spin", "gone"},
                block : Blocks \union {NoBlock}, left : 0..Chunks]
  BY DEF TypeOK
<1>3. CASE AcceptBlock \/ Receive \/ CountBlock \/ FindNode \/ CloseEarly
  <2>1. UNCHANGED <<resultMap, inserting, damaged>>
    BY <1>3 DEF AcceptBlock, Receive, CountBlock, FindNode, CloseEarly
  <2>2. AcceptBlock => input'.at # "insert"
    BY DEF AcceptBlock
  <2>3. Receive => input'.at # "insert"
    BY <1>2 DEF Receive
  <2>4. CountBlock => input'.at # "insert"
    BY <1>2 DEF CountBlock
  <2>5. FindNode \/ CloseEarly => input'.at # "insert"
    BY <1>2 DEF FindNode, CloseEarly
  <2> QED
    BY <1>1, <1>3, <2>1, <2>2, <2>3, <2>4, <2>5, OneNodeKept
<1>4. CASE NodeMissing
  <2> SUFFICES ASSUME ~damaged' PROVE OneNodeInv'
    BY DEF OneNodeInv
  <2>1. /\ ~damaged /\ inserting = {} /\ inserting' = {Input} /\ resultMap' = resultMap
        /\ input' = [input EXCEPT !.at = "insert"] /\ Nodes(InputKey) = {}
    BY <1>4 DEF NodeMissing, BeginInsert, Missing, Disturbed
  <2>2. \A u \in Validations : pc'[u] # "insert"
    BY <1>1, <2>1 DEF OneNodeInv
  <2>3. InputKey' = InputKey
    BY <1>2, <2>1 DEF InputKey
  <2>4. Nodes(InputKey)' = {}
    BY <2>1, <2>3 DEF Nodes
  <2> QED
    BY <2>1, <2>2, <2>4 DEF OneNodeInv
<1>5. CASE InsertNode
  <2> SUFFICES ASSUME ~damaged' PROVE OneNodeInv'
    BY DEF OneNodeInv
  <2>1. /\ ~damaged /\ input.at = "insert" /\ input' = [input EXCEPT !.at = "assign"]
        /\ inserting' = inserting \ {Input}
        /\ resultMap' = resultMap \union {[key |-> InputKey, value |-> Garbage]}
    BY <1>5 DEF InsertNode, EndInsert
  <2>2. inserting = {Input} /\ Nodes(InputKey) = {}
    BY <2>1 DEF OneNodeInv
  <2>3. input'.at # "insert" /\ \A u \in Validations : pc'[u] # "insert"
    BY <1>1, <1>2, <2>1, <2>2, ValidationsAssumption DEF OneNodeInv
  <2>4. \A m, n \in resultMap' : m.key = n.key => m = n
    BY <2>1, <2>2 DEF OneNodeInv, Nodes
  <2> QED
    BY <2>1, <2>2, <2>3, <2>4 DEF OneNodeInv
<1>6. CASE LoseNode
  BY <1>6 DEF LoseNode, LoseInsert, OneNodeInv
<1>7. CASE Assign
  <2> SUFFICES ASSUME ~damaged' PROVE OneNodeInv'
    BY DEF OneNodeInv
  <2>1. /\ UNCHANGED <<inserting, damaged>> /\ input'.at = "accept"
    BY <1>2, <1>7 DEF Assign
  <2>2. PICK node \in resultMap :
           /\ node.key = InputKey
           /\ LET new == [node EXCEPT !.value = input.block]
              IN  resultMap' = (resultMap \ {node}) \union {new} /\ new.key = InputKey
    BY <1>7, AssignedNode
  <2> DEFINE new == [node EXCEPT !.value = input.block]
  <2>3. resultMap' = (resultMap \ {node}) \union {new} /\ new.key = InputKey
    BY <2>2
  <2> HIDE DEF new
  <2>4. \A m, n \in resultMap' : m.key = n.key => m = n
    BY <2>1, <2>2, <2>3 DEF OneNodeInv
  <2>5. ASSUME NEW u \in Validations, pc'[u] = "insert" PROVE u \in inserting' /\ Nodes(Sought(u))' = {}
    <3>1. u \in inserting /\ Nodes(Sought(u)) = {}
      BY <1>1, <2>1, <2>5 DEF OneNodeInv
    <3>2. Sought(u) # InputKey
      BY <2>2, <3>1 DEF Nodes
    <3> QED
      BY <1>1, <2>1, <2>3, <3>1, <3>2 DEF Nodes
  <2> QED
    BY <2>1, <2>4, <2>5 DEF OneNodeInv
<1> QED
  BY <1>3, <1>4, <1>5, <1>6, <1>7 DEF inputQEMUHandler

\* OneNodeInv survives every step.
LEMMA OneNodeStep ==
  ASSUME TypeOK, OneNodeInv, [Next]_vars
  PROVE  OneNodeInv'
<1>1. CASE InputExit \/ Abort
  <2>1. /\ UNCHANGED <<resultMap, inserting, damaged, scan>>
        /\ input' = [input EXCEPT !.at = "gone"] /\ \A v \in Validations : pc'[v] # "insert"
    BY <1>1 DEF InputExit, Abort, EndProcess, map
  <2>2. input'.at # "insert"
    BY <2>1 DEF TypeOK
  <2> QED
    BY <2>1, <2>2, OneNodeKept
<1>2. CASE UNCHANGED vars
  BY <1>2, OneNodeKept DEF vars, map, callers
<1> QED
  BY <1>1, <1>2, OneNodeCallers, OneNodeReceiver DEF Next, Idle

\* At first nothing is being inserted.
LEMMA OneNodeInit == Init => OneNodeInv
BY DEF Init, OneNodeInv

\* Only a call sets what was ready; the key it seeks stays until it returns.
LEMMA SoughtStays ==
  ASSUME TypeOK, [Next]_vars, NEW v \in Validations,
         ready'[v], pc'[v] \in {"find", "fetch", "insert", "read"}
  PROVE  \/ CallCalculate(v)
         \/ ready[v] /\ pc[v] \in {"find", "fetch", "insert", "read"} /\ Sought(v)' = Sought(v)
<1> DEFINE Looking == {"find", "fetch", "insert", "read"}
<1> USE DEF map
<1>1. /\ pc \in [Validations -> {"send", "call", "find", "fetch", "insert", "read", "done", "lost"}]
      /\ scan \in [Validations -> 1..101] /\ ready \in [Validations -> BOOLEAN]
  BY DEF TypeOK
<1>2. ASSUME ready'[v] = ready[v], scan'[v] = scan[v], pc[v] \in Looking
      PROVE  ready[v] /\ pc[v] \in Looking /\ Sought(v)' = Sought(v)
  BY <1>2 DEF Sought
<1>3. ASSUME NEW u \in Validations, executeQEMU(u)
      PROVE  CallCalculate(v) \/ (ready'[v] = ready[v] /\ scan'[v] = scan[v] /\ pc[v] \in Looking)
  <2>1. CASE SendSnippet(u)
    BY <1>1, <2>1 DEF SendSnippet
  <2>2. CASE CallCalculate(u)
    BY <1>1, <2>2 DEF CallCalculate
  <2>3. CASE Hit(u) \/ Miss(u) \/ FetchMissing(u) \/ InsertDefault(u)
    BY <1>1, <2>3 DEF Hit, Miss, FetchMissing, InsertDefault
  <2>4. CASE Read(u) \/ LoseDefault(u)
    <3>1. PICK value : Return(u, value)
      BY <2>4 DEF Read, LoseDefault
    <3>2. pc'[u] \notin Looking /\ ready' = ready /\ (u # v => pc'[v] = pc[v] /\ scan'[v] = scan[v])
      BY <1>1, <3>1 DEF Return
    <3> QED BY <3>2
  <2> QED
    BY <1>3, <2>1, <2>2, <2>3, <2>4 DEF executeQEMU
<1>4. CASE inputQEMUHandler \/ CloseEarly \/ Idle \/ UNCHANGED vars
  <2>1. UNCHANGED callers
    BY <1>4 DEF inputQEMUHandler, AcceptBlock, Receive, CountBlock, FindNode, NodeMissing, InsertNode, LoseNode,
       Assign, CloseEarly, Idle, vars
  <2> QED BY <1>2, <2>1 DEF callers
<1>5. InputExit \/ Abort => pc'[v] \notin Looking
  BY DEF InputExit, Abort, EndProcess
<1> QED
  BY <1>2, <1>3, <1>4, <1>5 DEF Next

\* ReadyInv survives every step.
LEMMA ReadyStep ==
  ASSUME TypeOK, ScanInv, OneNodeInv, ReadyInv, [Next]_vars
  PROVE  ReadyInv'
<1>1. ASSUME NEW v \in Validations, ready'[v], pc'[v] \in {"find", "fetch", "insert", "read"}
      PROVE  Published(Sought(v))'
  <2>1. CASE CallCalculate(v)
    <3>1. Published(Sought(v)) /\ UNCHANGED <<resultMap, scan>>
      BY <1>1, <2>1 DEF CallCalculate, map, TypeOK
    <3> QED BY <3>1 DEF Published, Nodes, Sought
  <2>2. CASE ready[v] /\ pc[v] \in {"find", "fetch", "insert", "read"} /\ Sought(v)' = Sought(v)
    <3>1. PICK k : k = Sought(v)
      OBVIOUS
    <3>2. Published(k)'
      BY <2>2, <3>1, PublishedStays DEF ReadyInv
    <3> QED BY <2>2, <3>1, <3>2 DEF Published, Nodes
  <2> QED
    BY <1>1, <2>1, <2>2, SoughtStays
<1>2. ASSUME ~damaged', NEW u \in Validations, NEW t \in Lookups(u)', t.ready
      PROVE  t.value # Garbage
  <2>1. ~damaged
    BY <1>2, DamageStays
  <2>2. CASE t \in Lookups(u)
    BY <1>2, <2>1, <2>2 DEF ReadyInv, ReadyIsUsed
  <2>3. ASSUME NEW v \in Validations, NEW node \in Nodes(Sought(v)), Read(v), Return(v, node.value),
               t = [scan |-> scan[v], key |-> Sought(v), value |-> node.value, ready |-> ready[v]]
        PROVE  t.value # Garbage
    <3>1. ready[v] /\ t.value = node.value
      BY <1>2, <2>3
    <3>2. PICK published \in Nodes(Sought(v)) : published.value # Garbage
      BY <2>3, <3>1 DEF Read, ReadyInv, Published
    <3>3. published = node
      BY <2>1, <2>3 DEF OneNodeInv, Nodes
    <3> QED BY <3>1, <3>2, <3>3
  <2>4. \A v \in Validations : ~LoseDefault(v)
    BY <2>1 DEF LoseDefault, LoseInsert
  <2> QED
    <3>1. CASE times' = times
      BY <1>2, <2>2, <3>1 DEF Lookups
    <3>2. ASSUME NEW v \in Validations, Read(v), NEW node \in Nodes(Sought(v)), Return(v, node.value)
          PROVE  t.value # Garbage
      <4>1. \/ t \in Lookups(u)
            \/ t = [scan |-> scan[v], key |-> Sought(v), value |-> node.value, ready |-> ready[v]]
        BY <1>2, <3>2, LookupsGrow
      <4> QED BY <2>2, <2>3, <3>2, <4>1
    <3> QED
      BY <2>4, <3>1, <3>2, LookupsStep
<1> QED
  BY <1>1, <1>2 DEF ReadyInv, ReadyIsUsed, Published, Nodes, Sought, Lookups

\* At first no lookup has begun.
LEMMA ReadyInit == Init => ReadyInv
BY DEF Init, ReadyInv, ReadyIsUsed, Lookups

\* A time that was published when calculateQEMU was called is the one it returns:
\* while no two insertions have overlapped, there is only one node to find.
THEOREM ReadyUsed == Spec => []ReadyIsUsed
<1>1. Init => TypeOK /\ ScanInv /\ OneNodeInv /\ ReadyInv
  BY TypeInit, OneNodeInit, ReadyInit
<1>2. TypeOK /\ ScanInv /\ OneNodeInv /\ ReadyInv /\ [Next]_vars => TypeOK' /\ ScanInv' /\ OneNodeInv' /\ ReadyInv'
  BY TypeStep, OneNodeStep, ReadyStep
<1>3. ReadyInv => ReadyIsUsed
  BY DEF ReadyInv
<1> QED
  BY <1>1, <1>2, <1>3, PTL DEF Spec

-----------------------------------------------------------------------------
\* The input thread alone counts, and what it has to publish it publishes first.
LEMMA CountedStep ==
  ASSUME TypeOK, CountedInv, [Next]_vars
  PROVE  CountedInv'
<1> DEFINE Pending(k) == input.at \in {"publish", "insert", "assign"} /\ InputKey = k
           Places == {"accept", "receive", "count", "publish", "insert", "assign", "spin", "gone"}
<1> SUFFICES ASSUME ~damaged', NEW k \in Keys, Publishes(rowCountMap'[k])
             PROVE  Published(k)' \/ Pending(k)' \/ input'.at = "gone"
  BY DEF CountedInv, Publishes, Published, Nodes, InputKey
<1>1. ~damaged
  BY DamageStays
<1>2. input \in [at : Places, block : Blocks \union {NoBlock}, left : 0..Chunks]
  BY DEF TypeOK
<1>3. ASSUME Publishes(rowCountMap[k]) PROVE Published(k)' \/ Pending(k) \/ input.at = "gone"
  BY <1>1, <1>3, PublishedStays DEF CountedInv
<1>4. ASSUME UNCHANGED <<input, rowCountMap>> PROVE Published(k)' \/ Pending(k)' \/ input'.at = "gone"
  BY <1>3, <1>4 DEF InputKey, Publishes
<1>5. ASSUME NEW v \in Validations, executeQEMU(v) PROVE UNCHANGED <<input, rowCountMap>>
  BY <1>5 DEF executeQEMU, SendSnippet, CallCalculate, Hit, Miss, Read, Return, FetchMissing, InsertDefault,
     LoseDefault
<1>6. CASE AcceptBlock \/ Receive \/ CloseEarly
  <2>1. rowCountMap' = rowCountMap /\ input.at \notin {"publish", "insert", "assign", "gone"}
    BY <1>6 DEF AcceptBlock, Receive, CloseEarly
  <2> QED BY <1>3, <2>1 DEF Publishes
<1>7. CASE CountBlock
  <2> DEFINE rows == rowCountMap[InputKey] + input.block.rows
  <2>1. /\ input.at = "count" /\ rowCountMap' = [rowCountMap EXCEPT ![InputKey] = rows]
        /\ input' = [input EXCEPT !.at = IF Publishes(rows) THEN "publish" ELSE "accept"]
    BY <1>7 DEF CountBlock
  <2>2. rowCountMap \in [Keys -> Nat]
    BY DEF TypeOK
  <2> HIDE DEF rows
  <2>3. CASE k = InputKey
    <3>1. rowCountMap'[k] = rows
      BY <2>1, <2>2, <2>3
    <3>2. input'.at = "publish" /\ input'.block = input.block
      BY <1>2, <2>1, <3>1 DEF Publishes
    <3> QED BY <2>3, <3>2 DEF InputKey
  <2>4. CASE k # InputKey
    <3>1. rowCountMap'[k] = rowCountMap[k]
      BY <2>1, <2>2, <2>4
    <3> QED BY <1>3, <2>1, <3>1 DEF Publishes
  <2> QED BY <2>3, <2>4
<1>8. CASE FindNode \/ NodeMissing \/ InsertNode
  <2>1. rowCountMap' = rowCountMap /\ input.at # "gone"
    BY <1>8 DEF FindNode, NodeMissing, InsertNode
  <2>2. input' = [input EXCEPT !.at = "assign"] \/ input' = [input EXCEPT !.at = "insert"]
    BY <1>8 DEF FindNode, NodeMissing, InsertNode
  <2>3. input'.at \in {"insert", "assign"} /\ input'.block = input.block
    BY <1>2, <2>2
  <2> QED BY <1>3, <2>1, <2>3 DEF InputKey, Publishes
<1>9. CASE Assign
  <2>1. PICK node \in resultMap :
           LET new == [node EXCEPT !.value = input.block]
           IN  /\ resultMap' = (resultMap \ {node}) \union {new}
               /\ new.key = InputKey /\ new.value # Garbage
    BY <1>9, AssignedNode
  <2> DEFINE new == [node EXCEPT !.value = input.block]
  <2>2. new \in resultMap' /\ new.key = InputKey /\ new.value # Garbage
    BY <2>1
  <2> HIDE DEF new
  <2>3. k = InputKey => Published(k)'
    BY <2>2 DEF Published, Nodes
  <2>4. rowCountMap' = rowCountMap /\ input.at = "assign"
    BY <1>9 DEF Assign
  <2> QED BY <1>3, <2>3, <2>4 DEF Publishes
<1>10. ~LoseNode
  BY <1>1 DEF LoseNode, LoseInsert
<1>11. InputExit \/ Abort => input'.at = "gone"
  BY <1>2 DEF InputExit, Abort, EndProcess
<1>12. Idle \/ UNCHANGED vars => UNCHANGED <<input, rowCountMap>>
  BY DEF Idle, vars
<1> QED
  BY <1>4, <1>5, <1>6, <1>7, <1>8, <1>9, <1>10, <1>11, <1>12 DEF Next, inputQEMUHandler

\* At first no row is counted.
LEMMA CountedInit == Init => CountedInv
<1> SUFFICES ASSUME Init, NEW k \in Keys PROVE ~Publishes(rowCountMap[k])
  BY DEF CountedInv
<1>1. rowCountMap[k] = 0
  BY DEF Init
<1> QED
  BY <1>1 DEF Publishes

\* When the input thread waits for its next block, every scan whose count has
\* reached one of the four numbers is in the map: nothing a handler thread does to
\* the map meanwhile makes it pass over one.
THEOREM Counted == Spec => []CountedIsPublished
<1>1. TypeOK /\ CountedInv => CountedIsPublished
  <2> SUFFICES ASSUME CountedInv, ~damaged, input.at = "accept", NEW v \in Validations, NEW i \in ScanIndexes(v),
                      Publishes(rowCountMap[Key(Id[v], Scans[v][i].work)])
               PROVE  Published(Key(Id[v], Scans[v][i].work))
    BY DEF CountedIsPublished
  <2>1. Key(Id[v], Scans[v][i].work) \in Keys
    BY DEF Keys
  <2> QED
    BY <2>1 DEF CountedInv
<1>2. Init => TypeOK /\ ScanInv /\ CountedInv
  BY TypeInit, CountedInit
<1>3. TypeOK /\ ScanInv /\ CountedInv /\ [Next]_vars => TypeOK' /\ ScanInv' /\ CountedInv'
  BY TypeStep, CountedStep
<1> QED
  BY <1>1, <1>2, <1>3, PTL DEF Spec
=============================================================================
