----------------------------- MODULE QEMUHandler -----------------------------
(***************************************************************************)
(* The exchange with the emulated CSD.  executeQEMU sends every CSD_Scan   *)
(* snippet of a validation to it and then looks its measured time up; the  *)
(* CSD runs the scan and returns blocks of rows, each on a connection of   *)
(* its own; one input thread receives them, counts rows and publishes a    *)
(* block in resultMap when the count reaches one of four values.           *)
(*                                                                         *)
(* resultMap is an unordered_map that the input thread and the handler     *)
(* threads use without a lock.  An insertion is therefore two steps, and   *)
(* whoever uses the map in between may miss an entry that is there.  Two   *)
(* insertions that overlap damage it: from then on entries may be missed   *)
(* and insertions lost.  Either may end the process.                       *)
(*                                                                         *)
(* CalculateQEMU, the function executeQEMU calls, only forwards to         *)
(* calculateQEMU and has no return statement.  The repository is built     *)
(* without optimisation, where the time is still in the result register.   *)
(***************************************************************************)
EXTENDS Integers, Sequences, FiniteSets, Functions

CONSTANTS
  Validations,     \* calls of executeQEMU
  Id,              \* validation -> the simulation number it was passed
  Scans,           \* validation -> its CSD_Scan snippets, in plan order
  Chunks,          \* bound: recv calls a block arrives in
  MayCloseEarly    \* whether the CSD may close a connection half way

(***************************************************************************)
(* A scan has the workID of its snippet, whether it reads table region     *)
(* (which is never sent), and the raw_row_count of each block the CSD      *)
(* returns for it.  Work ids stay below the factor they are combined with. *)
(***************************************************************************)
Scan == [work : 0..99, region : BOOLEAN, blocks : Seq(Nat \ {0})]

Input == "input"     \* the input thread, beside the validations

ASSUME ValidationsAssumption ==
  /\ Input \notin Validations
  /\ Id \in [Validations -> Nat]
  /\ DOMAIN Scans = Validations
  /\ \A v \in Validations :
       /\ Scans[v] \in Seq(Scan)
       /\ Len(Scans[v]) <= 100

ASSUME CsdAssumption == Chunks \in Nat \ {0} /\ MayCloseEarly \in BOOLEAN

VARIABLES
  flight,        \* blocks the CSD will return and the server has not accepted
  input,         \* the input thread: where it stands, its block and what is left of it
  rowCountMap,   \* its local map: key -> rows counted
  resultMap,     \* the shared map: the nodes of its chains
  inserting,     \* threads in the middle of an insertion into resultMap
  damaged,       \* whether two insertions have overlapped
  pc,            \* where each executeQEMU stands
  scan,          \* its loop index
  misses,        \* returnCount of calculateQEMU
  ready,         \* history: the time sought was published when the lookup began
  times          \* what its lookups returned

map == <<resultMap, inserting, damaged>>
callers == <<pc, scan, misses, ready, times>>
vars == <<flight, input, rowCountMap, map, callers>>

Garbage == [kind |-> "garbage"]   \* what operator[] puts into a new node: uninitialised
NoBlock == [kind |-> "none"]

ScanIndexes(v) == 1..Len(Scans[v])

\* The n-th block of the i-th scan of v.
Block(v, i, n) ==
  [kind |-> "block", v |-> v, scan |-> i, no |-> n,
   query |-> Id[v], work |-> Scans[v][i].work, rows |-> Scans[v][i].blocks[n]]

BlocksOf(v, i) == {Block(v, i, n) : n \in 1..Len(Scans[v][i].blocks)}

Blocks == UNION {UNION {BlocksOf(v, i) : i \in ScanIndexes(v)} : v \in Validations}

\* Mutant: the ids are added without the factor.
PlainKey(query, work) == query + work

Key(query, work) == query * 100 + work

\* rowCountMap counts every key from 0.
Keys == UNION {{Key(Id[v], Scans[v][i].work) : i \in ScanIndexes(v)} : v \in Validations}

\* executeQEMU passes its loop index, from 0, where calculateQEMU expects a workID.
Sought(v) == Key(Id[v], scan[v] - 1)

\* Both loops of executeQEMU pass over the scans of table region.
NextScan(v, i) ==
  CHOOSE j \in (i + 1)..(Len(Scans[v]) + 1) :
    /\ j \in ScanIndexes(v) => ~Scans[v][j].region
    /\ \A k \in (i + 1)..(j - 1) : Scans[v][k].region

Nodes(key) == {node \in resultMap : node.key = key}

Published(key) == \E node \in Nodes(key) : node.value # Garbage

Init ==
  /\ flight = {}
  /\ input = [at |-> "accept", block |-> NoBlock, left |-> 0]
  /\ rowCountMap = [k \in Keys |-> 0]
  /\ resultMap = {} /\ inserting = {} /\ damaged = FALSE
  /\ scan = [v \in Validations |-> NextScan(v, 0)]
  /\ pc = [v \in Validations |-> IF scan[v] \in ScanIndexes(v) THEN "send" ELSE "done"]
  /\ misses = [v \in Validations |-> 0]
  /\ ready = [v \in Validations |-> FALSE]
  /\ times = [v \in Validations |-> <<>>]

(***************************************************************************)
(* The shared map.                                                         *)
(***************************************************************************)

\* A lookup of this thread may miss an entry that is there.
Disturbed(thread) == damaged \/ inserting \ {thread} # {}

Missing(thread, key) == Nodes(key) = {} \/ Disturbed(thread)

BeginInsert(thread) ==
  /\ inserting' = inserting \union {thread}
  /\ damaged' = (damaged \/ inserting # {})
  /\ UNCHANGED resultMap

EndInsert(thread, key) ==
  /\ inserting' = inserting \ {thread}
  /\ resultMap' = resultMap \union {[key |-> key, value |-> Garbage]}
  /\ UNCHANGED damaged

LoseInsert(thread) ==
  /\ damaged
  /\ inserting' = inserting \ {thread}
  /\ UNCHANGED <<resultMap, damaged>>

(***************************************************************************)
(* executeQEMU, first loop: one connection per scan.  A failed connect     *)
(* goes on with the next snippet, and the lookup is made all the same.     *)
(***************************************************************************)
SendSnippet(v) ==
  LET i == scan[v]
      next == NextScan(v, i)
      more == next \in ScanIndexes(v)
  IN  /\ pc[v] = "send"
      /\ \/ flight' = flight \union BlocksOf(v, i)
         \/ UNCHANGED flight
      /\ pc' = [pc EXCEPT ![v] = IF more THEN "send" ELSE "call"]
      /\ scan' = [scan EXCEPT ![v] = IF more THEN next ELSE NextScan(v, 0)]
      /\ UNCHANGED <<input, rowCountMap, map, misses, ready, times>>

\* Mutant: returnCount keeps its value from one call to the next.
CallAndKeepCount(v) ==
  /\ pc[v] = "call"
  /\ pc' = [pc EXCEPT ![v] = "find"]
  /\ ready' = [ready EXCEPT ![v] = Published(Sought(v))]
  /\ UNCHANGED <<flight, input, rowCountMap, map, scan, misses, times>>

\* Second loop: the call of calculateQEMU.
CallCalculate(v) ==
  /\ pc[v] = "call"
  /\ pc' = [pc EXCEPT ![v] = "find"]
  /\ misses' = [misses EXCEPT ![v] = 0]
  /\ ready' = [ready EXCEPT ![v] = Published(Sought(v))]
  /\ UNCHANGED <<flight, input, rowCountMap, map, scan, times>>

\* It polls at most three times, without a pause, and then uses operator[] anyway.
Hit(v) ==
  /\ pc[v] = "find"
  /\ Nodes(Sought(v)) # {}
  /\ pc' = [pc EXCEPT ![v] = "fetch"]
  /\ UNCHANGED <<flight, input, rowCountMap, map, scan, misses, ready, times>>

\* Mutant: polls until the entry is there.
MissForever(v) ==
  /\ pc[v] = "find"
  /\ Missing(v, Sought(v))
  /\ UNCHANGED vars

Miss(v) ==
  /\ pc[v] = "find"
  /\ Missing(v, Sought(v))
  /\ misses' = [misses EXCEPT ![v] = @ + 1]
  /\ pc' = [pc EXCEPT ![v] = IF misses'[v] >= 3 THEN "fetch" ELSE "find"]
  /\ UNCHANGED <<flight, input, rowCountMap, map, scan, ready, times>>

Return(v, value) ==
  LET next == NextScan(v, scan[v])
  IN  /\ times' = [times EXCEPT ![v] = Append(@,
           [scan |-> scan[v], key |-> Sought(v), value |-> value, ready |-> ready[v]])]
      /\ scan' = [scan EXCEPT ![v] = next]
      /\ pc' = [pc EXCEPT ![v] = IF next \in ScanIndexes(v) THEN "call" ELSE "done"]
      /\ UNCHANGED <<flight, input, rowCountMap, misses, ready>>

\* operator[] finds an entry, or makes one; the reference it returns is read.
Read(v) ==
  /\ pc[v] \in {"fetch", "read"}
  /\ \E node \in Nodes(Sought(v)) : Return(v, node.value)
  /\ UNCHANGED map

\* Mutant: the entry is made without looking for it again.
AlwaysFetchMissing(v) ==
  /\ pc[v] = "fetch" /\ misses[v] >= 3
  /\ BeginInsert(v)
  /\ pc' = [pc EXCEPT ![v] = "insert"]
  /\ UNCHANGED <<flight, input, rowCountMap, scan, misses, ready, times>>

FetchMissing(v) ==
  /\ pc[v] = "fetch"
  /\ Missing(v, Sought(v))
  /\ BeginInsert(v)
  /\ pc' = [pc EXCEPT ![v] = "insert"]
  /\ UNCHANGED <<flight, input, rowCountMap, scan, misses, ready, times>>

InsertDefault(v) ==
  /\ pc[v] = "insert"
  /\ EndInsert(v, Sought(v))
  /\ pc' = [pc EXCEPT ![v] = "read"]
  /\ UNCHANGED <<flight, input, rowCountMap, scan, misses, ready, times>>

LoseDefault(v) ==
  /\ pc[v] = "insert"
  /\ LoseInsert(v)
  /\ Return(v, Garbage)

executeQEMU(v) ==
  \/ SendSnippet(v) \/ CallCalculate(v)
  \/ Hit(v) \/ Miss(v) \/ Read(v)
  \/ FetchMissing(v) \/ InsertDefault(v) \/ LoseDefault(v)

(***************************************************************************)
(* inputQEMUHandler: one connection at a time, a length and then so many   *)
(* bytes, in as many recv calls as it takes.                               *)
(***************************************************************************)
AcceptBlock ==
  /\ input.at = "accept"
  /\ \E b \in flight, n \in 1..Chunks :
       /\ flight' = flight \ {b}
       /\ input' = [at |-> "receive", block |-> b, left |-> n]
  /\ UNCHANGED <<rowCountMap, map, callers>>

\* Mutant: the loop tests what was left before the call.
ReceiveAndTestFirst ==
  /\ input.at = "receive" /\ input.left > 0
  /\ input' = [input EXCEPT !.left = @ - 1]
  /\ UNCHANGED <<flight, rowCountMap, map, callers>>

Receive ==
  /\ input.at = "receive"
  /\ input' = [input EXCEPT !.left = @ - 1,
                            !.at = IF input.left = 1 THEN "count" ELSE "receive"]
  /\ UNCHANGED <<flight, rowCountMap, map, callers>>

\* The peer closes: recv returns 0 for ever, which is neither -1 nor the rest.
CloseEarly ==
  /\ MayCloseEarly
  /\ input.at = "receive"
  /\ input' = [input EXCEPT !.at = "spin"]
  /\ UNCHANGED <<flight, rowCountMap, map, callers>>

Publishes(rows) == rows >= 100000 \/ rows \in {5, 25, 1250}

InputKey == Key(input.block.query, input.block.work)

CountBlock ==
  LET rows == rowCountMap[InputKey] + input.block.rows
  IN  /\ input.at = "count"
      /\ rowCountMap' = [rowCountMap EXCEPT ![InputKey] = rows]
      /\ input' = [input EXCEPT !.at = IF Publishes(rows) THEN "publish" ELSE "accept"]
      /\ UNCHANGED <<flight, map, callers>>

\* Mutant: insert() for operator[], which leaves an entry as it is.
FindNodeAndKeep ==
  /\ input.at = "publish"
  /\ Nodes(InputKey) # {}
  /\ input' = [input EXCEPT !.at = "accept"]
  /\ UNCHANGED <<flight, rowCountMap, map, callers>>

\* resultMap[newID] = block : find or make the node, then assign to it.
FindNode ==
  /\ input.at = "publish"
  /\ Nodes(InputKey) # {}
  /\ input' = [input EXCEPT !.at = "assign"]
  /\ UNCHANGED <<flight, rowCountMap, map, callers>>

NodeMissing ==
  /\ input.at = "publish"
  /\ Missing(Input, InputKey)
  /\ BeginInsert(Input)
  /\ input' = [input EXCEPT !.at = "insert"]
  /\ UNCHANGED <<flight, rowCountMap, callers>>

InsertNode ==
  /\ input.at = "insert"
  /\ EndInsert(Input, InputKey)
  /\ input' = [input EXCEPT !.at = "assign"]
  /\ UNCHANGED <<flight, rowCountMap, callers>>

LoseNode ==
  /\ input.at = "insert"
  /\ LoseInsert(Input)
  /\ input' = [input EXCEPT !.at = "accept"]
  /\ UNCHANGED <<flight, rowCountMap, callers>>

Assign ==
  /\ input.at = "assign"
  /\ \E node \in Nodes(InputKey) :
       resultMap' = (resultMap \ {node}) \union {[node EXCEPT !.value = input.block]}
  /\ input' = [input EXCEPT !.at = "accept"]
  /\ UNCHANGED <<flight, rowCountMap, inserting, damaged, callers>>

inputQEMUHandler ==
  \/ AcceptBlock \/ Receive \/ CountBlock
  \/ FindNode \/ NodeMissing \/ InsertNode \/ LoseNode \/ Assign

(***************************************************************************)
(* The end of the process, and with it of every call.                      *)
(***************************************************************************)
EndProcess ==
  /\ input' = [input EXCEPT !.at = "gone"]
  /\ pc' = [v \in Validations |-> IF pc[v] = "done" THEN "done" ELSE "lost"]
  /\ UNCHANGED <<flight, rowCountMap, map, scan, misses, ready, times>>

\* An accept or a recv that fails: the input thread calls exit, which ends the
\* handlers' validations as well.
InputExit ==
  /\ input.at \in {"accept", "receive"}
  /\ EndProcess

\* A use of the map beside an insertion, or of the damaged map, reads freed
\* memory: the process may end.
UsesMap(v) == pc[v] \in {"find", "fetch", "insert"}

Abort ==
  /\ input.at # "gone"
  /\ \/ damaged
     \/ inserting # {} /\ \E v \in Validations : UsesMap(v) /\ v \notin inserting
  /\ EndProcess

\* Every call is over, and the input thread waits, spins or is gone.
Idle ==
  /\ \A v \in Validations : pc[v] \in {"done", "lost"}
  /\ input.at \in {"spin", "gone"} \/ (input.at = "accept" /\ flight = {})
  /\ UNCHANGED vars

Next ==
  \/ \E v \in Validations : executeQEMU(v)
  \/ inputQEMUHandler
  \/ CloseEarly
  \/ InputExit
  \/ Abort
  \/ Idle

Spec == Init /\ [][Next]_vars

\* Threads the operating system keeps scheduling, and a CSD that delivers what it
\* has: nothing makes it close a connection early, and no socket call fail.
Fairness ==
  /\ \A v \in Validations : WF_vars(executeQEMU(v))
  /\ WF_vars(inputQEMUHandler)

FairSpec == Spec /\ Fairness

-----------------------------------------------------------------------------
Values == Blocks \union {Garbage}

\* Every variable stays in its domain; in particular the input thread counts
\* only keys of blocks the CSD was asked for.
TypeOK ==
  /\ flight \subseteq Blocks
  /\ input \in [at : {"accept", "receive", "count", "publish", "insert", "assign", "spin", "gone"},
                block : Blocks \union {NoBlock}, left : 0..Chunks]
  /\ input.at \in {"receive", "count", "publish", "insert", "assign"} => input.block \in Blocks
  /\ input.at = "receive" => input.left > 0
  /\ rowCountMap \in [Keys -> Nat]
  /\ resultMap \subseteq [key : Nat, value : Values]
  /\ inserting \subseteq Validations \union {Input}
  /\ damaged \in BOOLEAN
  /\ pc \in [Validations -> {"send", "call", "find", "fetch", "insert", "read", "done", "lost"}]
  /\ scan \in [Validations -> 1..101]
  /\ misses \in [Validations -> 0..3]
  /\ ready \in [Validations -> BOOLEAN]
  /\ times \in [Validations -> Seq([scan : 1..100, key : Nat, value : Values, ready : BOOLEAN])]

Lookups(v) == {times[v][i] : i \in DOMAIN times[v]}

DistinctIds == \A u, v \in Validations : Id[u] = Id[v] => u = v

\* The scans of v are its first snippets, so that loop index and workID agree.
Aligned(v) == \A i \in ScanIndexes(v) : Scans[v][i].work = i - 1

\* A time that calculateQEMU returns was measured for the validation that asked
\* for it, and for the scan it asked for when the plan starts with its scans: no
\* block of a concurrent validation comes back under the combined id, however
\* the insertions into the unlocked map overlap.
NoForeignTime ==
  DistinctIds =>
    \A v \in Validations : \A t \in Lookups(v) : t.value # Garbage =>
      /\ t.value.v = v
      /\ Aligned(v) => t.value.scan = t.scan

\* A time published before the lookup began is the one returned: three missed
\* polls beside another insertion do not make operator[] hide it, unless two
\* insertions have overlapped.
ReadyIsUsed ==
  \A v \in Validations : \A t \in Lookups(v) :
    t.ready /\ ~damaged => t.value # Garbage

\* The rows the CSD returns for a scan.
Total(v, i) == FoldFunction(+, 0, Scans[v][i].blocks)

\* A scan whose rows have all been counted, and whose total is one of the counts
\* inputQEMUHandler waits for, is in the map when the input thread is back at
\* accept, in whatever order and between whatever others its blocks came.
CountedIsPublished ==
  DistinctIds /\ ~damaged /\ input.at = "accept" =>
    \A v \in Validations : \A i \in ScanIndexes(v) :
      LET key == Key(Id[v], Scans[v][i].work)
      IN  rowCountMap[key] = Total(v, i) /\ Publishes(Total(v, i))
            /\ (\A j \in ScanIndexes(v) \ {i} : Scans[v][j].work # Scans[v][i].work)
          => Published(key)

\* executeQEMU returns although the CSD answers late, in part or never, and even
\* when the input thread is caught in its receive loop.
LookupsEnd == \A v \in Validations : pc[v] = "send" ~> pc[v] \in {"done", "lost"}

\* Every block the CSD returns is counted, unless a connection is closed half
\* way or the process ends: nothing the handlers do to the map blocks the input.
BlocksConsumed ==
  flight # {} ~> \/ flight = {} /\ input.at = "accept"
                 \/ input.at \in {"spin", "gone"}

\* The id sought for a scan is the one its blocks carry: workID + queryID*100.
SoughtKeyIsOwn ==
  \A v \in Validations : \A t \in Lookups(v) :
    t.key = Key(Id[v], Scans[v][t.scan].work)
=============================================================================
