----------------------- MODULE ValidatorServiceProofs -----------------------
(***************************************************************************)
(* Theorems about ValidatorService, for every set of requests, plan, set   *)
(* of options, number of handler threads and choice of failing statements. *)
(***************************************************************************)
EXTENDS ValidatorService, TLAPS

\* What a recognised statement is taken for is a query that has a plan.
LEMMA RecognisedType ==
  ASSUME NEW s PROVE Recognised(s) \in QueryNumbers
BY StatementsAssumption DEF Recognised, QueryNumbers

\* The frame of a handler that starts is well typed.
LEMMA EmptyFrameType == EmptyFrame \in Frames
BY DEF EmptyFrame, Frames, NoRow, StorageKinds, QueryNumbers

\* The types of the locals, field by field.
LEMMA FrameFields ==
  ASSUME TypeOK, NEW r \in Requests
  PROVE  /\ frame[r] \in Frames
         /\ frame[r].boot \in Nat /\ frame[r].loaded \in Nat /\ frame[r].id \in Nat
         /\ frame[r].rows \in Nat /\ frame[r].reply \in Nat
         /\ frame[r].ids \in Seq(Nat) /\ frame[r].query \in QueryNumbers
<1>1. frame[r] \in Frames
  BY DEF TypeOK
<1> QED
  BY <1>1 DEF Frames

\* Types hold in every reachable state.
LEMMA TypeStep == TypeOK /\ [Next]_vars => TypeOK'
<1> SUFFICES ASSUME TypeOK, [Next]_vars PROVE TypeOK'
  OBVIOUS
<1> USE DEF TypeOK, process, globals, tables, Step, Goto, Keep, Running, Ended
<1>1. ASSUME NEW r \in Requests, Accept(r) PROVE TypeOK'
  <2>1. PICK s \in Statements, o \in OptionIds :
           frame' = [frame EXCEPT ![r] =
                      [EmptyFrame EXCEPT !.boot = boot, !.statement = s, !.optionId = o]]
    BY <1>1 DEF Accept
  <2>2. [EmptyFrame EXCEPT !.boot = boot, !.statement = s, !.optionId = o] \in Frames
    BY EmptyFrameType DEF Frames
  <2>3. frame' \in [Requests -> Frames]
    BY <2>1, <2>2
  <2> QED
    BY <1>1, <2>3 DEF Accept
<1>2. ASSUME NEW r \in Requests, HandleOther(r) PROVE TypeOK'
  BY <1>2 DEF HandleOther
<1>3. ASSUME NEW r \in Requests, LoadCounter(r) PROVE TypeOK'
  <2>1. [frame[r] EXCEPT !.loaded = simulationNum] \in Frames
    BY DEF Frames
  <2> QED
    BY <1>3, <2>1 DEF LoadCounter
<1>4. ASSUME NEW r \in Requests, StoreCounter(r) PROVE TypeOK'
  <2>1. frame[r].loaded + 1 \in Nat
    BY FrameFields
  <2> QED
    BY <1>4, <2>1 DEF StoreCounter
<1>5. ASSUME NEW r \in Requests, ReadOption(r) PROVE TypeOK'
  <2> DEFINE o == frame[r].optionId
             row == IF o \in DOMAIN OptionTable THEN OptionTable[o] ELSE NoRow
  <2>1. row \in [storage : StorageKinds, csdCount : Nat]
    <3>1. NoRow \in [storage : StorageKinds, csdCount : Nat]
      BY DEF NoRow, StorageKinds
    <3>2. o \in DOMAIN OptionTable => OptionTable[o] \in [storage : StorageKinds, csdCount : Nat]
      BY OptionsAssumption
    <3> QED
      BY <3>1, <3>2
  <2>2. frame' = [frame EXCEPT ![r] = [frame[r] EXCEPT !.option = row]]
    BY <1>5 DEF ReadOption
  <2> HIDE DEF row
  <2>3. [frame[r] EXCEPT !.option = row] \in Frames
    BY <2>1, FrameFields DEF Frames
  <2> QED
    BY <1>5, <2>2, <2>3 DEF ReadOption
<1>6. ASSUME NEW r \in Requests, OptionFault(r) PROVE TypeOK'
  BY <1>6 DEF OptionFault
<1>7. ASSUME NEW r \in Requests, ParseSnippet(r) PROVE TypeOK'
  <2> DEFINE ids == Append(frame[r].ids, simulationNum)
  <2>1. ids \in Seq(Nat)
    BY FrameFields
  <2>2. frame' = [frame EXCEPT ![r] = [frame[r] EXCEPT !.ids = ids]]
    BY <1>7 DEF ParseSnippet
  <2> HIDE DEF ids
  <2>3. [frame[r] EXCEPT !.ids = ids] \in Frames
    BY <2>1, FrameFields DEF Frames
  <2> QED
    BY <1>7, <2>2, <2>3 DEF ParseSnippet
<1>8. ASSUME NEW r \in Requests, SetQueryNum(r) PROVE TypeOK'
  BY <1>8, RecognisedType DEF SetQueryNum
<1>9. ASSUME NEW r \in Requests, PassId(r) PROVE TypeOK'
  <2>1. [frame[r] EXCEPT !.id = simulationNum] \in Frames
    BY DEF Frames
  <2> QED
    BY <1>9, <2>1 DEF PassId
<1>10. ASSUME NEW r \in Requests, PassQuery(r) PROVE TypeOK'
  <2>1. [frame[r] EXCEPT !.query = queryNum] \in Frames
    BY DEF Frames
  <2> QED
    BY <1>10, <2>1 DEF PassQuery
<1>11. ASSUME NEW r \in Requests, Estimate(r) PROVE TypeOK'
  BY <1>11 DEF Estimate
<1>12. ASSUME NEW r \in Requests, ScaleFault(r) PROVE TypeOK'
  BY <1>12 DEF ScaleFault, Die
<1>13. ASSUME NEW r \in Requests, InsertLog(r) PROVE TypeOK'
  <2>1. LogRow(r) \in LogRows
    BY DEF LogRow, LogRows, Frames
  <2>2. log' \subseteq LogRows
    BY <1>13, <2>1 DEF InsertLog, Stored
  <2> QED
    BY <1>13, <2>2 DEF InsertLog
<1>14. ASSUME NEW r \in Requests, InsertMetric(r) PROVE TypeOK'
  <2>1. MetricRow(r, frame[r].rows) \in MetricRows
    BY DEF MetricRow, MetricRows, Frames
  <2>2. metrics' \subseteq MetricRows
    BY <1>14, <2>1 DEF InsertMetric, Stored
  <2> DEFINE next == frame[r].rows + 1
  <2>3. next \in Nat
    BY FrameFields
  <2>4. frame' = [frame EXCEPT ![r] = [frame[r] EXCEPT !.rows = next]]
    BY <1>14 DEF InsertMetric
  <2> HIDE DEF next
  <2>5. [frame[r] EXCEPT !.rows = next] \in Frames
    BY <2>3, FrameFields DEF Frames
  <2> QED
    BY <1>14, <2>2, <2>4, <2>5 DEF InsertMetric
<1>15. ASSUME NEW r \in Requests, ReadReplyId(r) PROVE TypeOK'
  <2>1. [frame[r] EXCEPT !.reply = simulationNum, !.rows = 0] \in Frames
    BY DEF Frames
  <2> QED
    BY <1>15, <2>1 DEF ReadReplyId
<1>16. ASSUME NEW r \in Requests, InsertSnippet(r) PROVE TypeOK'
  <2>1. SnippetRow(r, frame[r].rows + 1) \in SnippetRows
    BY <1>16, FrameFields DEF InsertSnippet, SnippetRow, SnippetRows
  <2>2. snippets' \subseteq SnippetRows
    BY <1>16, <2>1 DEF InsertSnippet, Stored
  <2> DEFINE next == frame[r].rows + 1
  <2>3. next \in Nat
    BY FrameFields
  <2>4. frame' = [frame EXCEPT ![r] = [frame[r] EXCEPT !.rows = next]]
    BY <1>16 DEF InsertSnippet
  <2> HIDE DEF next
  <2>5. [frame[r] EXCEPT !.rows = next] \in Frames
    BY <2>3, FrameFields DEF Frames
  <2> QED
    BY <1>16, <2>2, <2>4, <2>5 DEF InsertSnippet
<1>17. ASSUME NEW r \in Requests, Reply(r) PROVE TypeOK'
  BY <1>17 DEF Reply
<1>18. CASE Crash
  <2>1. crashes' \in Nat
    BY <1>18 DEF Crash
  <2>2. pc' \in [Requests -> {"idle"} \union Running \union Ended]
    BY <1>18 DEF Crash, Die
  <2> QED
    BY <1>18, <2>1, <2>2 DEF Crash, Die
<1>19. CASE Boot
  <2>1. PICK m \in {0} \union {row.id : row \in log} :
           simulationNum' = m /\ bootIds' = Append(bootIds, m)
    BY <1>19 DEF Boot
  <2>2. m \in Nat
    BY DEF LogRows
  <2>3. bootIds' \in Seq(Nat) /\ Len(bootIds') = boot'
    BY <1>19, <2>1, <2>2 DEF Boot
  <2> QED
    BY <1>19, <2>1, <2>2, <2>3 DEF Boot, QueryNumbers
<1>20. CASE UNCHANGED vars
  BY <1>20 DEF vars
<1> QED
  BY <1>1, <1>2, <1>3, <1>4, <1>5, <1>6, <1>7, <1>8, <1>9, <1>10, <1>11, <1>12, <1>13, <1>14,
     <1>15, <1>16, <1>17, <1>18, <1>19, <1>20
  DEF Next, Handler, QueryParserMain, Idle

\* The types hold at first.
LEMMA TypeInit == Init => TypeOK
BY EmptyFrameType DEF Init, TypeOK, QueryNumbers, Running, Ended

\* Every variable of the server stays in its type.
THEOREM Types == Spec => []TypeOK
BY TypeInit, TypeStep, PTL DEF Spec

-----------------------------------------------------------------------------
(***************************************************************************)
(* EpochsDisjoint is not inductive: it says nothing of the counter or of   *)
(* the ids threads hold.  The counter is never below the value the last    *)
(* start gave it, and above it once any thread has stored its increment,   *)
(* whichever increments were lost; so are the ids taken from it.           *)
(***************************************************************************)
Base == bootIds[boot]

PastStore ==
  {"option", "parse", "setQuery", "passId", "passQuery", "estimate",
   "log", "metric", "replyId", "snippet", "reply"}

PastPassId == {"passQuery", "estimate", "log", "metric", "replyId", "snippet", "reply"}

BootsOrdered ==
  \A b \in 1..boot :
    /\ bootIds[b] <= Base
    /\ bootIds[b] = 0 \/ \E row \in log : row.id = bootIds[b]

CounterAboveBase == up => Base <= simulationNum

ThreadAboveBase(r) ==
  /\ pc[r] \in Running => up /\ frame[r].boot = boot
  /\ pc[r] = "store" => Base <= frame[r].loaded
  /\ pc[r] \in PastStore => Base < simulationNum
  /\ pc[r] \in PastPassId => Base < frame[r].id

EpochInv ==
  /\ BootsOrdered
  /\ EpochsDisjoint
  /\ CounterAboveBase
  /\ \A r \in Requests : ThreadAboveBase(r)

\* The rows of the table after a start or an INSERT keep the starts apart.
LEMMA EpochsKept ==
  ASSUME TypeOK, TypeOK', BootsOrdered, EpochsDisjoint, UNCHANGED process,
         \/ log' = log
         \/ \E row \in LogRows : log' = log \union {row} /\ row.boot = boot /\ Base < row.id
  PROVE  BootsOrdered' /\ EpochsDisjoint'
<1>1. UNCHANGED <<boot, bootIds>> /\ \A b \in 1..boot : bootIds[b] \in Nat
  BY DEF process, TypeOK
<1>2. CASE log' = log
  BY <1>1, <1>2 DEF BootsOrdered, EpochsDisjoint, Base
<1>3. CASE \E row \in LogRows : log' = log \union {row} /\ row.boot = boot /\ Base < row.id
  <2>1. PICK row \in LogRows : log' = log \union {row} /\ row.boot = boot /\ Base < row.id
    BY <1>3
  <2>2. BootsOrdered'
    BY <1>1, <2>1 DEF BootsOrdered, Base
  <2>3. row.boot \in 1..boot /\ boot \in Nat /\ row.id \in Nat
    BY <2>1 DEF TypeOK, LogRows
  <2>4. \A b \in 1..boot : (row.id > bootIds[b]) <=> (row.boot >= b)
    BY <1>1, <2>1, <2>3 DEF BootsOrdered, Base
  <2>5. EpochsDisjoint'
    BY <1>1, <2>1, <2>3, <2>4 DEF EpochsDisjoint
  <2> QED
    BY <2>2, <2>5
<1> QED
  BY <1>2, <1>3

\* A step of one thread keeps the invariant when its own locals, the counter it
\* leaves and the row it inserts are above the base.
LEMMA ThreadStep ==
  ASSUME TypeOK, TypeOK', EpochInv, UNCHANGED process, up,
         NEW r \in Requests,
         \A q \in Requests \ {r} : pc'[q] = pc[q] /\ frame'[q] = frame[q],
         simulationNum' = simulationNum \/ Base < simulationNum',
         ThreadAboveBase(r)',
         \/ log' = log
         \/ \E row \in LogRows : log' = log \union {row} /\ row.boot = boot /\ Base < row.id
  PROVE  EpochInv'
<1>1. BootsOrdered' /\ EpochsDisjoint'
  BY EpochsKept DEF EpochInv
<1>2. UNCHANGED <<up, boot, bootIds, Base>> /\ Base \in Nat /\ simulationNum \in Nat /\ simulationNum' \in Nat
  BY DEF process, TypeOK, Base
<1>3. CounterAboveBase'
  BY <1>2 DEF EpochInv, CounterAboveBase
<1>4. ASSUME NEW q \in Requests \ {r} PROVE ThreadAboveBase(q)'
  <2>1. ThreadAboveBase(q) /\ pc'[q] = pc[q] /\ frame'[q] = frame[q]
    BY DEF EpochInv
  <2> QED
    BY <1>2, <2>1 DEF ThreadAboveBase
<1> QED
  BY <1>1, <1>3, <1>4 DEF EpochInv

\* EpochInv survives every step, a crash and a restart included.
LEMMA EpochStep == TypeOK /\ TypeOK' /\ EpochInv /\ [Next]_vars => EpochInv'
<1> SUFFICES ASSUME TypeOK, TypeOK', EpochInv, [Next]_vars PROVE EpochInv'
  OBVIOUS
<1> DEFINE Others(r) == \A q \in Requests \ {r} : pc'[q] = pc[q] /\ frame'[q] = frame[q]
<1>0. Base \in Nat /\ simulationNum \in Nat
  BY DEF TypeOK, Base
<1>1. ASSUME NEW r \in Requests, Handler(r), ~ScaleFault(r) PROVE EpochInv'
  <2>1. /\ pc[r] \in Running => up /\ frame[r].boot = boot
        /\ ThreadAboveBase(r) /\ CounterAboveBase
        /\ frame[r] \in Frames /\ pc \in [Requests -> {"idle"} \union Running \union Ended]
        /\ frame \in [Requests -> Frames]
    BY FrameFields DEF EpochInv, ThreadAboveBase, TypeOK
  <2> USE DEF process, globals, tables, Step, Goto, Keep
  <2>2. up /\ UNCHANGED <<process, up>> /\ Others(r) /\ Base' = Base
    BY <1>1, <2>1 DEF Handler, QueryParserMain, Accept, HandleOther, LoadCounter, StoreCounter,
       ReadOption, OptionFault, ParseSnippet, SetQueryNum, PassId, PassQuery, Estimate,
       InsertLog, InsertMetric, ReadReplyId, InsertSnippet, Reply, Base
  <2>3. Base <= simulationNum
    BY <2>1, <2>2 DEF CounterAboveBase
  <2> DEFINE Quiet == simulationNum' = simulationNum /\ log' = log
  <2>4. ASSUME Quiet, ThreadAboveBase(r)' PROVE EpochInv'
    BY <2>2, <2>4, ThreadStep
  <2> USE DEF ThreadAboveBase, Running, PastStore, PastPassId
  <2>5. CASE Accept(r)
    <3>1. Quiet /\ pc'[r] = "load"
      BY <2>1, <2>5 DEF Accept
    <3>2. frame'[r].boot = boot
      BY <2>1, <2>5 DEF Accept, EmptyFrame
    <3> QED
      BY <2>2, <2>4, <3>1, <3>2
  <2>6. CASE HandleOther(r)
    BY <2>1, <2>2, <2>4, <2>6 DEF HandleOther
  <2>7. CASE LoadCounter(r)
    <3>1. Quiet /\ pc'[r] = "store" /\ frame'[r].boot = boot /\ frame'[r].loaded = simulationNum
      BY <2>1, <2>7 DEF LoadCounter, Frames
    <3> QED
      BY <2>2, <2>3, <2>4, <3>1
  <2>8. CASE StoreCounter(r)
    <3>1. pc'[r] = "option" /\ frame'[r] = frame[r] /\ log' = log /\ pc[r] = "store"
      BY <2>1, <2>8 DEF StoreCounter
    <3>2. Base < simulationNum'
      BY <1>0, <2>1, <2>8, <3>1, FrameFields DEF StoreCounter
    <3>3. ThreadAboveBase(r)'
      BY <2>1, <2>2, <3>1, <3>2
    <3> QED
      BY <2>2, <3>1, <3>2, <3>3, ThreadStep
  <2>9. CASE ReadOption(r)
    <3>1. Quiet /\ pc[r] = "option" /\ pc'[r] = "parse" /\ frame'[r].boot = frame[r].boot
      BY <2>1, <2>9 DEF ReadOption, Frames
    <3> QED
      BY <2>1, <2>2, <2>4, <3>1
  <2>10. CASE OptionFault(r)
    BY <2>1, <2>2, <2>4, <2>10 DEF OptionFault
  <2>11. CASE ParseSnippet(r)
    <3>1. /\ Quiet /\ pc[r] = "parse" /\ pc'[r] \in {"parse", "setQuery"}
          /\ frame'[r].boot = frame[r].boot
      BY <2>1, <2>11 DEF ParseSnippet, Frames
    <3> QED
      BY <2>1, <2>2, <2>4, <3>1
  <2>12. CASE SetQueryNum(r)
    BY <2>1, <2>2, <2>4, <2>12 DEF SetQueryNum
  <2>13. CASE PassId(r)
    <3>1. /\ Quiet /\ pc[r] = "passId" /\ pc'[r] = "passQuery"
          /\ frame'[r].boot = frame[r].boot /\ frame'[r].id = simulationNum
      BY <2>1, <2>13 DEF PassId, Frames
    <3> QED
      BY <2>1, <2>2, <2>4, <3>1
  <2>14. CASE PassQuery(r)
    <3>1. /\ Quiet /\ pc[r] = "passQuery" /\ pc'[r] = "estimate"
          /\ frame'[r].boot = frame[r].boot /\ frame'[r].id = frame[r].id
      BY <2>1, <2>14 DEF PassQuery, Frames
    <3> QED
      BY <2>1, <2>2, <2>4, <3>1
  <2>15. CASE Estimate(r)
    BY <2>1, <2>2, <2>4, <2>15 DEF Estimate
  <2>16. CASE InsertLog(r)
    <3>1. /\ pc[r] = "log" /\ pc'[r] \in {"metric", "replyId"} /\ frame'[r] = frame[r]
          /\ simulationNum' = simulationNum
      BY <2>1, <2>16 DEF InsertLog
    <3>2. LogRow(r) \in LogRows /\ LogRow(r).boot = boot /\ Base < LogRow(r).id
      BY <2>1, <3>1, FrameFields DEF LogRow, LogRows
    <3>3. log' = log \/ log' = log \union {LogRow(r)}
      BY <2>16 DEF InsertLog, Stored
    <3>4. ThreadAboveBase(r)'
      BY <2>1, <2>2, <3>1
    <3> QED
      BY <2>2, <3>1, <3>2, <3>3, <3>4, ThreadStep
  <2>17. CASE InsertMetric(r)
    <3>1. /\ Quiet /\ pc[r] = "metric" /\ pc'[r] \in {"metric", "replyId"}
          /\ frame'[r].boot = frame[r].boot /\ frame'[r].id = frame[r].id
      BY <2>1, <2>17 DEF InsertMetric, Frames
    <3> QED
      BY <2>1, <2>2, <2>4, <3>1
  <2>18. CASE ReadReplyId(r)
    <3>1. /\ Quiet /\ pc[r] = "replyId" /\ pc'[r] = "snippet"
          /\ frame'[r].boot = frame[r].boot /\ frame'[r].id = frame[r].id
      BY <2>1, <2>18 DEF ReadReplyId, Frames
    <3> QED
      BY <2>1, <2>2, <2>4, <3>1
  <2>19. CASE InsertSnippet(r)
    <3>1. /\ Quiet /\ pc[r] = "snippet" /\ pc'[r] \in {"snippet", "reply"}
          /\ frame'[r].boot = frame[r].boot /\ frame'[r].id = frame[r].id
      BY <2>1, <2>19 DEF InsertSnippet, Frames
    <3> QED
      BY <2>1, <2>2, <2>4, <3>1
  <2>20. CASE Reply(r)
    BY <2>1, <2>2, <2>4, <2>20 DEF Reply
  <2> QED
    BY <1>1, <2>5, <2>6, <2>7, <2>8, <2>9, <2>10, <2>11, <2>12, <2>13, <2>14, <2>15, <2>16,
       <2>17, <2>18, <2>19, <2>20 DEF Handler, QueryParserMain
<1>2. ASSUME Crash \/ \E r \in Requests : ScaleFault(r) PROVE EpochInv'
  <2>1. up' = FALSE /\ UNCHANGED <<boot, bootIds, log>> /\ \A r \in Requests : pc'[r] \notin Running
    BY <1>2 DEF Crash, ScaleFault, Die, globals, tables, TypeOK, Running, Ended
  <2>2. BootsOrdered' /\ EpochsDisjoint' /\ CounterAboveBase'
    BY <2>1 DEF EpochInv, BootsOrdered, EpochsDisjoint, CounterAboveBase, Base
  <2>3. \A r \in Requests : ThreadAboveBase(r)'
    BY <2>1 DEF ThreadAboveBase, Running, PastStore, PastPassId
  <2> QED
    BY <2>2, <2>3 DEF EpochInv
<1>3. CASE Boot
  <2>1. PICK m \in {0} \union {row.id : row \in log} :
           MaxLogged(m) /\ simulationNum' = m /\ bootIds' = Append(bootIds, m)
    BY <1>3 DEF Boot
  <2>2. ~up /\ boot' = boot + 1 /\ UNCHANGED <<pc, frame, log>>
    BY <1>3 DEF Boot, tables
  <2>3. /\ m \in Nat /\ boot \in Nat
        /\ \A row \in log : row.id \in Nat /\ row.boot \in Nat /\ row.id <= m
        /\ \A b \in 1..boot : bootIds[b] \in Nat /\ bootIds'[b] = bootIds[b]
        /\ bootIds'[boot'] = m
    <3>1. m \in Nat /\ boot \in Nat /\ \A row \in log : row.id \in Nat /\ row.boot \in Nat
      BY DEF TypeOK, LogRows
    <3>2. \A row \in log : row.id <= m
      BY <2>1, <3>1 DEF MaxLogged
    <3> QED
      BY <2>1, <2>2, <3>1, <3>2 DEF TypeOK
  <2>4. \A b \in 1..boot : bootIds[b] <= m
    BY <2>3 DEF EpochInv, BootsOrdered
  <2>5. m = 0 \/ \E row \in log : row.id = m
    BY <2>1 DEF MaxLogged
  <2>6. BootsOrdered'
    BY <2>2, <2>3, <2>4, <2>5 DEF EpochInv, BootsOrdered, Base
  <2>7. EpochsDisjoint'
    BY <2>2, <2>3 DEF EpochInv, EpochsDisjoint
  <2>8. CounterAboveBase'
    BY <2>1, <2>3 DEF CounterAboveBase, Base
  <2>9. \A r \in Requests : pc'[r] \notin Running
    BY <2>2 DEF EpochInv, ThreadAboveBase
  <2>10. \A r \in Requests : ThreadAboveBase(r)'
    BY <2>9 DEF ThreadAboveBase, Running, PastStore, PastPassId
  <2> QED
    BY <2>6, <2>7, <2>8, <2>10 DEF EpochInv
<1>4. CASE UNCHANGED vars
  BY <1>4 DEF vars, process, globals, tables, EpochInv, BootsOrdered, EpochsDisjoint,
     CounterAboveBase, ThreadAboveBase, Base
<1> QED
  BY <1>1, <1>2, <1>3, <1>4 DEF Next, Idle

\* At first no id was given out.
LEMMA EpochInit == Init => EpochInv
BY DEF Init, EpochInv, BootsOrdered, EpochsDisjoint, CounterAboveBase, ThreadAboveBase, Base,
   Running, PastStore, PastPassId

\* However many handlers race on the counter and whichever statements fail, the ids
\* validation_log holds from one run of the server and from another never meet.
THEOREM EpochSafety == Spec => []EpochsDisjoint
<1>1. Init => TypeOK /\ EpochInv
  BY TypeInit, EpochInit
<1>2. TypeOK /\ EpochInv /\ [Next]_vars => TypeOK' /\ EpochInv'
  BY TypeStep, EpochStep
<1>3. EpochInv => EpochsDisjoint
  BY DEF EpochInv
<1> QED
  BY <1>1, <1>2, <1>3, PTL DEF Spec
=============================================================================
