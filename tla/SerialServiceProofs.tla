------------------------ MODULE SerialServiceProofs ------------------------
(***************************************************************************)
(* Theorems about the server when its HTTP library serves one request at a *)
(* time and no INSERT into validation_log fails, for any number of         *)
(* requests, crashes and restarts and any other failing statement.         *)
(***************************************************************************)
EXTENDS SerialService, FilingProofs

OneAtATime == HandlerThreads = 1 /\ "log" \notin FaultySql

(***************************************************************************)
(* The one thread that runs finds every global as it left it: the counter  *)
(* is its own id, until then not filed, and queryNum its own query.        *)
(***************************************************************************)
PastQuery == PastPassId \ {"passQuery"}

BeforeLogged == PastStore \ {"metric", "replyId", "snippet", "reply"}

Alone == \A q, r \in Requests : pc[q] \in Running /\ pc[r] \in Running => q = r

OwnGlobals(r) ==
  /\ pc[r] = "store" => frame[r].loaded = simulationNum
  /\ pc[r] \in PastStore => \A k \in 1..Len(frame[r].ids) : frame[r].ids[k] = simulationNum
  /\ pc[r] \in PastPassId => frame[r].id = simulationNum
  /\ pc[r] \in {"snippet", "reply"} => frame[r].reply = simulationNum
  /\ pc[r] \in {"passId", "passQuery"} => queryNum = Recognised(frame[r].statement)
  /\ pc[r] \in PastQuery => frame[r].query = Recognised(frame[r].statement)
  /\ pc[r] \in BeforeLogged => \A row \in log : row.id < simulationNum

OwnRows(r) ==
  /\ \A row \in LogOf(r) :
       /\ row.query = Recognised(frame[r].statement)
       /\ row.storage = "csd" <=> OnCsd(r)
  /\ \A detail \in MetricsOf(r) \union SnippetsOf(r) : \E row \in LogOf(r) : row.id = detail.id
  /\ pc[r] = "replied" => \E row \in LogOf(r) : row.id = frame[r].reply

LogUnique == \A x, y \in log : x.id = y.id => x.req = y.req

CounterAboveLog == up => \A row \in log : row.id <= simulationNum

SerialInv ==
  /\ Alone
  /\ LogUnique
  /\ CounterAboveLog
  /\ \A r \in Requests : OwnGlobals(r) /\ OwnRows(r)

-----------------------------------------------------------------------------
\* With one handler no other thread runs while a request is served.
LEMMA ServedAlone ==
  ASSUME OneAtATime, TypeOK, Alone, NEW r \in Requests, Handler(r), ~ScaleFault(r)
  PROVE  \A q \in Requests \ {r} : pc[q] \notin Running /\ pc'[q] \notin Running
<1>1. \A q \in Requests \ {r} : pc'[q] = pc[q]
  BY OthersKept
<1>2. CASE Accept(r) \/ HandleOther(r)
  <2>1. Cardinality(InFlight) < 1
    BY <1>2 DEF Accept, HandleOther, OneAtATime
  <2>2. IsFiniteSet(InFlight) /\ Cardinality(InFlight) \in Nat
    BY RequestsAssumption, FS_Subset, FS_CardinalityType DEF InFlight
  <2>3. InFlight = {}
    BY <2>1, <2>2, FS_EmptySet
  <2> QED
    BY <1>1, <2>3 DEF InFlight
<1>3. CASE QueryParserMain(r) \/ Reply(r)
  <2>1. pc[r] \in Running
    BY <1>3 DEF QueryParserMain, LoadCounter, StoreCounter, ReadOption, OptionFault, ParseSnippet,
       SetQueryNum, PassId, PassQuery, Estimate, ScaleFault, InsertLog, InsertMetric, ReadReplyId,
       InsertSnippet, Reply, Step, Running
  <2> QED
    BY <1>1, <2>1 DEF Alone
<1> QED
  BY <1>2, <1>3 DEF Handler

\* A thread that does not run, and its rows.
LEMMA OthersOwn ==
  ASSUME NEW q \in Requests, OwnRows(q), pc'[q] \notin Running,
         UNCHANGED <<pc[q], frame[q], LogOf(q), MetricsOf(q), SnippetsOf(q)>>
  PROVE  OwnGlobals(q)' /\ OwnRows(q)'
<1>1. OwnRows(q)'
  BY DEF OwnRows, OnCsd
<1>2. OwnGlobals(q)'
  BY DEF OwnGlobals, Running, PastStore, PastPassId, PastQuery, BeforeLogged
<1> QED BY <1>1, <1>2

\* Nothing is filed for a request before it logs.
LEMMA NoRowsYet ==
  ASSUME NEW r \in Requests, Filed(r), pc[r] \in BeforeInserts
  PROVE  LogOf(r) = {} /\ MetricsOf(r) = {} /\ SnippetsOf(r) = {}
BY DEF Filed, FiledInOrder, BeforeInserts, Parsing, Logged

\* The thread that runs finds and leaves the globals as its own.
LEMMA OwnGlobalsByThread ==
  ASSUME OneAtATime, TypeOK, NEW r \in Requests, Filed(r), OwnGlobals(r), CounterAboveLog,
         Handler(r), ~ScaleFault(r)
  PROVE  OwnGlobals(r)'
<1> DEFINE f == frame[r]
<1>1. /\ f \in Frames /\ frame \in [Requests -> Frames] /\ pc \in [Requests -> {"idle"} \union Running \union Ended]
      /\ simulationNum \in Nat
  BY DEF TypeOK
<1>2. f.ids \in Seq(Nat) /\ f.loaded \in Nat
  BY FrameFields
<1> USE DEF process, globals, tables, Step, Goto, Keep
<1>3. CASE Accept(r) \/ HandleOther(r) \/ LoadCounter(r)
  <2>1. CASE LoadCounter(r)
    <3>1. pc'[r] = "store" /\ frame'[r].loaded = simulationNum /\ UNCHANGED simulationNum
      BY <1>1, <2>1 DEF LoadCounter, Frames
    <3> QED
      BY <3>1 DEF OwnGlobals, PastStore, PastPassId, PastQuery, BeforeLogged
  <2>2. CASE Accept(r) \/ HandleOther(r)
    <3>1. pc'[r] \in {"load", "unanswered"}
      BY <1>1, <2>2 DEF Accept, HandleOther
    <3> QED
      BY <3>1 DEF OwnGlobals, PastStore, PastPassId, PastQuery, BeforeLogged
  <2> QED BY <1>3, <2>1, <2>2
<1>4. CASE StoreCounter(r)
  <2>1. /\ up /\ pc[r] = "store" /\ pc'[r] = "option" /\ UNCHANGED <<frame, log>> /\ simulationNum' = f.loaded + 1
    BY <1>1, <1>4 DEF StoreCounter
  <2>2. f.ids = <<>> /\ f.loaded = simulationNum
    BY <2>1 DEF Filed, FiledSoFar, OwnGlobals
  <2>3. \A row \in log : row.id < simulationNum + 1
    BY <1>1, <2>1 DEF CounterAboveLog, TypeOK, LogRows
  <2> QED
    BY <2>1, <2>2, <2>3 DEF OwnGlobals, PastStore, PastPassId, PastQuery, BeforeLogged
<1>5. CASE ReadOption(r)
  <2>1. pc[r] = "option" /\ pc'[r] = "parse" /\ UNCHANGED <<simulationNum, log>> /\ frame'[r].ids = f.ids
    BY <1>1, <1>5 DEF ReadOption, Frames
  <2> QED
    BY <2>1 DEF OwnGlobals, PastStore, PastPassId, PastQuery, BeforeLogged
<1>6. CASE OptionFault(r) \/ Reply(r)
  <2>1. pc'[r] \in {"error", "replied"}
    BY <1>1, <1>6 DEF OptionFault, Reply
  <2> QED
    BY <2>1 DEF OwnGlobals, PastStore, PastPassId, PastQuery, BeforeLogged
<1>7. CASE ParseSnippet(r)
  <2>1. /\ pc[r] = "parse" /\ pc'[r] \in {"parse", "setQuery"} /\ UNCHANGED <<simulationNum, log>>
        /\ frame'[r].ids = Append(f.ids, simulationNum)
    BY <1>1, <1>7 DEF ParseSnippet, Frames
  <2>2. \A k \in 1..Len(f.ids) : f.ids[k] = simulationNum
    BY <2>1 DEF OwnGlobals, PastStore
  <2>3. \A k \in 1..Len(frame'[r].ids) : frame'[r].ids[k] = simulationNum'
    BY <1>1, <1>2, <2>1, <2>2
  <2> QED
    BY <2>1, <2>3 DEF OwnGlobals, PastStore, PastPassId, PastQuery, BeforeLogged
<1>8. CASE SetQueryNum(r)
  <2>1. /\ pc[r] = "setQuery" /\ pc'[r] = "passId" /\ UNCHANGED <<simulationNum, log, frame>>
        /\ queryNum' = Recognised(f.statement)
    BY <1>1, <1>8 DEF SetQueryNum
  <2> QED
    BY <2>1 DEF OwnGlobals, PastStore, PastPassId, PastQuery, BeforeLogged
<1>9. CASE PassId(r)
  <2>1. /\ pc[r] = "passId" /\ pc'[r] = "passQuery" /\ UNCHANGED <<simulationNum, queryNum, log>>
        /\ frame'[r].ids = f.ids /\ frame'[r].id = simulationNum /\ frame'[r].statement = f.statement
    BY <1>1, <1>9 DEF PassId, Frames
  <2> QED
    BY <2>1 DEF OwnGlobals, PastStore, PastPassId, PastQuery, BeforeLogged
<1>10. CASE PassQuery(r)
  <2>1. /\ pc[r] = "passQuery" /\ pc'[r] = "estimate" /\ UNCHANGED <<simulationNum, queryNum, log>>
        /\ frame'[r].ids = f.ids /\ frame'[r].id = f.id /\ frame'[r].query = queryNum
        /\ frame'[r].statement = f.statement
    BY <1>1, <1>10 DEF PassQuery, Frames
  <2> QED
    BY <2>1 DEF OwnGlobals, PastStore, PastPassId, PastQuery, BeforeLogged
<1>11. CASE Estimate(r) \/ InsertLog(r)
  <2>1. /\ pc[r] \in {"estimate", "log"} /\ UNCHANGED <<simulationNum, frame>>
        /\ \/ pc'[r] = "log" /\ log' = log
           \/ pc'[r] \in {"metric", "replyId"}
    BY <1>1, <1>11 DEF Estimate, InsertLog
  <2> QED
    BY <2>1 DEF OwnGlobals, PastStore, PastPassId, PastQuery, BeforeLogged
<1>12. CASE InsertMetric(r)
  <2>1. /\ pc[r] = "metric" /\ pc'[r] \in {"metric", "replyId"} /\ UNCHANGED simulationNum
        /\ frame'[r].ids = f.ids /\ frame'[r].id = f.id /\ frame'[r].query = f.query
        /\ frame'[r].statement = f.statement
    BY <1>1, <1>12 DEF InsertMetric, Frames
  <2> QED
    BY <2>1 DEF OwnGlobals, PastStore, PastPassId, PastQuery, BeforeLogged
<1>13. CASE ReadReplyId(r)
  <2>1. /\ pc[r] = "replyId" /\ pc'[r] = "snippet" /\ UNCHANGED simulationNum
        /\ frame'[r].ids = f.ids /\ frame'[r].id = f.id /\ frame'[r].query = f.query
        /\ frame'[r].statement = f.statement /\ frame'[r].reply = simulationNum
    BY <1>1, <1>13 DEF ReadReplyId, Frames
  <2> QED
    BY <2>1 DEF OwnGlobals, PastStore, PastPassId, PastQuery, BeforeLogged
<1>14. CASE InsertSnippet(r)
  <2>1. /\ pc[r] = "snippet" /\ pc'[r] \in {"snippet", "reply"} /\ UNCHANGED simulationNum
        /\ frame'[r].ids = f.ids /\ frame'[r].id = f.id /\ frame'[r].query = f.query
        /\ frame'[r].statement = f.statement /\ frame'[r].reply = f.reply
    BY <1>1, <1>14 DEF InsertSnippet, Frames
  <2> QED
    BY <2>1 DEF OwnGlobals, PastStore, PastPassId, PastQuery, BeforeLogged
<1> QED
  BY <1>3, <1>4, <1>5, <1>6, <1>7, <1>8, <1>9, <1>10, <1>11, <1>12, <1>13, <1>14
     DEF Handler, QueryParserMain

\* An id that is logged once is the id of everything its thread files.
LEMMA OwnIdsMeet ==
  ASSUME OneAtATime, TypeOK, NEW r \in Requests, Filed(r), OwnGlobals(r),
         pc[r] \in {"metric", "replyId", "snippet", "reply"}
  PROVE  \E row \in LogOf(r) : row.id = simulationNum /\ row.id = frame[r].id
<1>1. LogOf(r) # {}
  BY DEF Filed, FiledInOrder, Logged, OneAtATime
<1> QED
  BY <1>1 DEF Filed, FiledUnderOwnId, OwnGlobals, PastPassId

\* Every row the running thread adds is one of its own.
LEMMA OwnRowsByThread ==
  ASSUME OneAtATime, TypeOK, NEW r \in Requests, Filed(r), OwnGlobals(r), OwnRows(r),
         Handler(r), ~ScaleFault(r)
  PROVE  OwnRows(r)'
<1> DEFINE f == frame[r]
           SameRows == UNCHANGED <<LogOf(r), MetricsOf(r), SnippetsOf(r)>>
<1>1. /\ f \in Frames /\ frame \in [Requests -> Frames] /\ pc \in [Requests -> {"idle"} \union Running \union Ended]
  BY DEF TypeOK
<1> USE DEF process, globals, tables, Step, Goto, Keep
<1>2. UNCHANGED tables => SameRows
  BY DEF LogOf, MetricsOf, SnippetsOf
<1> HIDE DEF SameRows
<1>3. CASE pc[r] \in BeforeInserts \ {"log"}
  <2>1. /\ pc'[r] # "replied" /\ UNCHANGED tables
    BY <1>1, <1>3 DEF BeforeInserts, Parsing, Handler, QueryParserMain, Accept, HandleOther, LoadCounter,
       StoreCounter, ReadOption, OptionFault, ParseSnippet, SetQueryNum, PassId, PassQuery, Estimate,
       InsertLog, InsertMetric, ReadReplyId, InsertSnippet, Reply
  <2>2. LogOf(r)' = {} /\ MetricsOf(r)' = {} /\ SnippetsOf(r)' = {}
    BY <1>2, <1>3, <2>1, NoRowsYet DEF SameRows
  <2> QED
    BY <2>1, <2>2 DEF OwnRows
<1>4. CASE InsertLog(r)
  <2>1. /\ pc[r] = "log" /\ pc'[r] # "replied" /\ UNCHANGED <<frame, metrics, snippets>>
        /\ log' = log \union {LogRow(r)}
    BY <1>1, <1>4 DEF InsertLog, Stored, OneAtATime
  <2>2. LogOf(r) = {} /\ MetricsOf(r)' = {} /\ SnippetsOf(r)' = {}
    BY <2>1, NoRowsYet DEF BeforeInserts, MetricsOf, SnippetsOf
  <2>3. LogOf(r)' = {LogRow(r)}
    BY <2>1, <2>2 DEF LogOf, LogRow
  <2>4. LogRow(r).query = Recognised(f.statement) /\ (LogRow(r).storage = "csd" <=> OnCsd(r))
    BY <2>1 DEF LogRow, OwnGlobals, PastQuery, PastPassId
  <2> QED
    BY <2>1, <2>2, <2>3, <2>4 DEF OwnRows, OnCsd
<1>5. CASE InsertMetric(r)
  <2>1. /\ pc[r] = "metric" /\ pc'[r] # "replied" /\ UNCHANGED <<log, snippets>>
        /\ frame'[r].statement = f.statement /\ frame'[r].option = f.option
        /\ metrics' \subseteq metrics \union {MetricRow(r, f.rows)}
    BY <1>1, <1>5 DEF InsertMetric, Stored, Frames
  <2>2. /\ MetricsOf(r)' \subseteq MetricsOf(r) \union {MetricRow(r, f.rows)}
        /\ UNCHANGED <<LogOf(r), SnippetsOf(r)>>
    BY <2>1 DEF MetricsOf, LogOf, SnippetsOf
  <2>3. \E row \in LogOf(r) : row.id = MetricRow(r, f.rows).id
    BY <2>1, OwnIdsMeet DEF MetricRow
  <2> QED
    BY <2>1, <2>2, <2>3 DEF OwnRows, OnCsd
<1>6. CASE ReadReplyId(r)
  <2>1. /\ pc[r] = "replyId" /\ pc'[r] # "replied" /\ SameRows
        /\ frame'[r].statement = f.statement /\ frame'[r].option = f.option
    BY <1>1, <1>2, <1>6 DEF ReadReplyId, Frames
  <2> QED
    BY <2>1 DEF OwnRows, OnCsd, SameRows
<1>7. CASE InsertSnippet(r)
  <2> DEFINE row == SnippetRow(r, f.rows + 1)
  <2>1. /\ pc[r] = "snippet" /\ pc'[r] # "replied" /\ UNCHANGED <<log, metrics>>
        /\ f.rows + 1 <= Len(f.ids)
        /\ frame'[r].statement = f.statement /\ frame'[r].option = f.option
        /\ snippets' \subseteq snippets \union {row}
    BY <1>1, <1>7 DEF InsertSnippet, Stored, Frames
  <2>2. /\ SnippetsOf(r)' \subseteq SnippetsOf(r) \union {row}
        /\ UNCHANGED <<LogOf(r), MetricsOf(r)>>
    BY <2>1 DEF MetricsOf, LogOf, SnippetsOf
  <2>3. f.rows + 1 \in 1..Len(f.ids)
    BY <2>1, FrameFields
  <2>4. row.id = simulationNum
    BY <2>1, <2>3 DEF OwnGlobals, PastStore, SnippetRow
  <2>5. \E logged \in LogOf(r) : logged.id = row.id
    BY <2>1, <2>4, OwnIdsMeet
  <2> HIDE DEF row
  <2> QED
    BY <2>1, <2>2, <2>5 DEF OwnRows, OnCsd
<1>8. CASE Reply(r)
  <2>1. pc[r] = "reply" /\ SameRows /\ UNCHANGED frame
    BY <1>2, <1>8 DEF Reply
  <2>2. \E row \in LogOf(r) : row.id = f.reply
    BY <2>1, OwnIdsMeet DEF OwnGlobals
  <2> QED
    BY <2>1, <2>2 DEF OwnRows, OnCsd, SameRows
<1>9. pc[r] \in BeforeInserts \ {"log"} \/ InsertLog(r) \/ InsertMetric(r) \/ ReadReplyId(r)
        \/ InsertSnippet(r) \/ Reply(r)
  BY DEF BeforeInserts, Parsing, Handler, QueryParserMain, Accept, HandleOther, LoadCounter,
     StoreCounter, ReadOption, OptionFault, ParseSnippet, SetQueryNum, PassId, PassQuery, Estimate
<1> QED
  BY <1>3, <1>4, <1>5, <1>6, <1>7, <1>8, <1>9

\* The table of the log stays without two requests under one id.
LEMMA LogByThread ==
  ASSUME OneAtATime, TypeOK, NEW r \in Requests, OwnGlobals(r), LogUnique, CounterAboveLog,
         Handler(r), ~ScaleFault(r)
  PROVE  LogUnique' /\ CounterAboveLog'
<1> USE DEF process, globals, tables, Step, Goto, Keep
<1>1. simulationNum \in Nat /\ (\A row \in log : row.id \in Nat) /\ up
  BY OthersKept DEF TypeOK, LogRows
<1>2. CASE InsertLog(r)
  <2>1. pc[r] = "log" /\ log' = log \union {LogRow(r)} /\ UNCHANGED simulationNum
    BY <1>2 DEF InsertLog, Stored, OneAtATime
  <2>2. LogRow(r).id = simulationNum /\ \A row \in log : row.id < simulationNum
    BY <2>1 DEF OwnGlobals, LogRow, PastPassId, PastStore, BeforeLogged
  <2> HIDE DEF process, globals, tables
  <2> QED
    BY <1>1, <2>1, <2>2 DEF LogUnique, CounterAboveLog
<1>3. CASE StoreCounter(r)
  <2>1. frame[r].loaded = simulationNum /\ simulationNum' = simulationNum + 1 /\ log' = log
    BY <1>3 DEF StoreCounter, OwnGlobals
  <2> QED
    BY <1>1, <2>1 DEF LogUnique, CounterAboveLog
<1>4. CASE UNCHANGED <<log, simulationNum>>
  BY <1>1, <1>4 DEF LogUnique, CounterAboveLog
<1>5. InsertLog(r) \/ StoreCounter(r) \/ UNCHANGED <<log, simulationNum>>
  BY DEF Handler, QueryParserMain, Accept, HandleOther, LoadCounter, ReadOption, OptionFault, ParseSnippet,
     SetQueryNum, PassId, PassQuery, Estimate, InsertMetric, ReadReplyId, InsertSnippet, Reply
<1> QED
  BY <1>2, <1>3, <1>4, <1>5

\* With one handler a request is accepted only when no thread runs.
LEMMA AloneByThread ==
  ASSUME OneAtATime, TypeOK, Alone, NEW r \in Requests, Handler(r), ~ScaleFault(r)
  PROVE  Alone'
BY ServedAlone DEF Alone

\* SerialInv survives every step, a crash and a restart included.
LEMMA SerialStep ==
  ASSUME OneAtATime, TypeOK, EpochInv, FilingInv, SerialInv, [Next]_vars
  PROVE  SerialInv'
<1>1. ASSUME NEW r \in Requests, Handler(r), ~ScaleFault(r) PROVE SerialInv'
  <2>1. Alone' /\ LogUnique' /\ CounterAboveLog'
    BY <1>1, AloneByThread, LogByThread DEF SerialInv
  <2>2. ASSUME NEW q \in Requests PROVE OwnGlobals(q)' /\ OwnRows(q)'
    <3>1. CASE q = r
      BY <1>1, <3>1, OwnGlobalsByThread, OwnRowsByThread DEF SerialInv, FilingInv
    <3>2. CASE q # r
      <4>1. pc'[q] \notin Running /\ OwnRows(q)
        BY <1>1, <3>2, ServedAlone DEF SerialInv
      <4>2. UNCHANGED <<pc[q], frame[q], LogOf(q), MetricsOf(q), SnippetsOf(q)>>
        BY <1>1, <3>2, OthersKept
      <4> QED
        BY <4>1, <4>2, OthersOwn
    <3> QED
      BY <3>1, <3>2
  <2> QED
    BY <2>1, <2>2 DEF SerialInv
<1>2. ASSUME Crash \/ \E r \in Requests : ScaleFault(r) PROVE SerialInv'
  <2>1. /\ up' = FALSE /\ UNCHANGED <<frame, log, metrics, snippets>>
        /\ \A q \in Requests : pc'[q] = IF pc[q] \in Running THEN "lost" ELSE pc[q]
    BY <1>2 DEF Crash, ScaleFault, Die, tables
  <2>2. Alone' /\ LogUnique' /\ CounterAboveLog'
    BY <2>1 DEF SerialInv, Alone, LogUnique, CounterAboveLog, Running
  <2>3. ASSUME NEW q \in Requests PROVE OwnGlobals(q)' /\ OwnRows(q)'
    <3>1. OwnGlobals(q)'
      BY <2>1 DEF OwnGlobals, Running, PastStore, PastPassId, PastQuery, BeforeLogged
    <3>2. OwnRows(q)'
      BY <2>1 DEF SerialInv, OwnRows, LogOf, MetricsOf, SnippetsOf, OnCsd
    <3> QED
      BY <3>1, <3>2
  <2> QED
    BY <2>2, <2>3 DEF SerialInv
<1>3. CASE Boot
  <2>1. /\ ~up /\ UNCHANGED <<pc, frame, log, metrics, snippets>>
        /\ \A row \in log : row.id <= simulationNum'
    BY <1>3 DEF Boot, MaxLogged, tables
  <2>2. Alone' /\ LogUnique' /\ CounterAboveLog'
    BY <2>1 DEF SerialInv, Alone, LogUnique, CounterAboveLog
  <2>3. ASSUME NEW q \in Requests PROVE OwnGlobals(q)' /\ OwnRows(q)'
    <3>1. pc'[q] \notin Running
      BY <2>1 DEF EpochInv, ThreadAboveBase
    <3>2. OwnGlobals(q)'
      BY <3>1 DEF OwnGlobals, Running, PastStore, PastPassId, PastQuery, BeforeLogged
    <3>3. OwnRows(q)'
      BY <2>1 DEF SerialInv, OwnRows, LogOf, MetricsOf, SnippetsOf, OnCsd
    <3> QED
      BY <3>2, <3>3
  <2> QED
    BY <2>2, <2>3 DEF SerialInv
<1>4. CASE UNCHANGED vars
  <2>1. UNCHANGED <<up, simulationNum, queryNum, pc, frame, log, metrics, snippets>>
    BY <1>4 DEF vars, process, globals, tables
  <2> QED
    BY <2>1 DEF SerialInv, Alone, LogUnique, CounterAboveLog, OwnGlobals, OwnRows, LogOf, MetricsOf,
       SnippetsOf, OnCsd
<1> QED
  BY <1>1, <1>2, <1>3, <1>4 DEF Next, Idle

\* At first the counter is 0 and no row is filed.
LEMMA SerialInit == Init => SerialInv
<1> SUFFICES ASSUME Init PROVE SerialInv
  OBVIOUS
<1>1. log = {} /\ \A r \in Requests : pc[r] = "idle" /\ LogOf(r) = {} /\ MetricsOf(r) = {} /\ SnippetsOf(r) = {}
  BY DEF Init, LogOf, MetricsOf, SnippetsOf
<1>2. \A r \in Requests : OwnGlobals(r) /\ OwnRows(r)
  BY <1>1 DEF OwnGlobals, OwnRows, PastStore, PastPassId, PastQuery, BeforeLogged
<1> QED
  BY <1>1, <1>2 DEF SerialInv, Alone, LogUnique, CounterAboveLog, Running

\* SerialInv is an invariant of the server with one handler.
LEMMA SerialSafety ==
  ASSUME OneAtATime
  PROVE  Spec => [](TypeOK /\ EpochInv /\ FilingInv /\ SerialInv)
<1>1. Init => TypeOK /\ EpochInv /\ FilingInv /\ SerialInv
  BY TypeInit, EpochInit, FilingInit, SerialInit
<1>2. TypeOK /\ EpochInv /\ FilingInv /\ SerialInv /\ [Next]_vars
        => TypeOK' /\ EpochInv' /\ FilingInv' /\ SerialInv'
  BY TypeStep, EpochStep, FilingStep, SerialStep
<1> QED
  BY <1>1, <1>2, PTL DEF Spec

\* Served one at a time, two rows under one validation_id are of one request,
\* whichever tables they are in and however often the server went down.
THEOREM IdNamesRequest ==
  ASSUME OneAtATime
  PROVE  Spec => []IdNamesOneRequest
<1>1. TypeOK /\ SerialInv => IdNamesOneRequest
  <2> SUFFICES ASSUME TypeOK, SerialInv PROVE IdNamesOneRequest
    OBVIOUS
  <2>1. ASSUME NEW x \in Rows PROVE \E row \in log : row.req = x.req /\ row.id = x.id
    <3>1. x.req \in Requests
      BY DEF Rows, TypeOK, LogRows, MetricRows, SnippetRows
    <3>2. OwnRows(x.req)
      BY <3>1 DEF SerialInv
    <3>3. x \in LogOf(x.req) \union MetricsOf(x.req) \union SnippetsOf(x.req)
      BY DEF Rows, LogOf, MetricsOf, SnippetsOf
    <3> QED
      BY <3>2, <3>3 DEF OwnRows, LogOf
  <2> QED
    BY <2>1 DEF IdNamesOneRequest, SerialInv, LogUnique
<1> QED
  BY <1>1, SerialSafety, PTL

\* Served one at a time, a client is answered with the id of the log row that
\* holds the query and the storage of its own request.
THEOREM AnswerNamesRow ==
  ASSUME OneAtATime
  PROVE  Spec => []AnswerNamesOwnRow
<1>1. SerialInv => AnswerNamesOwnRow
  BY DEF SerialInv, OwnRows, AnswerNamesOwnRow, LogOf
<1> QED
  BY <1>1, SerialSafety, PTL

-----------------------------------------------------------------------------
(***************************************************************************)
(* The refinement: the INSERT into validation_log files the validation,    *)
(* the other INSERTs add details, the answer answers, and every other      *)
(* step, a crash or a restart too, leaves the ledger as it was.            *)
(***************************************************************************)
filed == {Pair(row) : row \in log}
details == {Pair(row) : row \in metrics \union snippets}
answers == [r \in Requests |-> IF pc[r] = "replied" THEN frame[r].reply ELSE 0]

\* A row added to a table adds its pair to the ledger.
LEMMA OnePairMore ==
  ASSUME NEW S, NEW T, NEW row
  PROVE  {Pair(x) : x \in S \union {row}} = {Pair(x) : x \in S} \union {Pair(row)}
OBVIOUS

\* No client is answered but by Reply.
LEMMA AnswersKept ==
  ASSUME TypeOK, \A q \in Requests : (pc'[q] = "replied" <=> pc[q] = "replied")
                                     /\ (pc[q] = "replied" => frame'[q] = frame[q])
  PROVE  answers' = answers
BY DEF answers

\* Each step of a handler is a step of the ledger, or leaves it alone.
LEMMA LedgerByThread ==
  ASSUME OneAtATime, TypeOK, EpochInv, FilingInv, SerialInv, NEW r \in Requests, Handler(r), ~ScaleFault(r)
  PROVE  [Ledger!Next]_(Ledger!vars)
<1> USE DEF process, globals, tables, Step, Goto, Keep
<1>1. /\ pc \in [Requests -> {"idle"} \union Running \union Ended]
      /\ \A q \in Requests \ {r} : pc'[q] = pc[q] /\ frame'[q] = frame[q]
      /\ Filed(r) /\ OwnGlobals(r) /\ OwnRows(r)
  BY OthersKept DEF TypeOK, FilingInv, SerialInv
<1>2. pc[r] # "replied"
  BY DEF Handler, QueryParserMain, Accept, HandleOther, LoadCounter, StoreCounter, ReadOption, OptionFault,
     ParseSnippet, SetQueryNum, PassId, PassQuery, Estimate, ScaleFault, InsertLog, InsertMetric, ReadReplyId,
     InsertSnippet, Reply
<1>3. ~Reply(r) => answers' = answers
  <2>1. ~Reply(r) => pc'[r] # "replied"
    BY <1>1 DEF Handler, QueryParserMain, Accept, HandleOther, LoadCounter, StoreCounter, ReadOption,
       OptionFault, ParseSnippet, SetQueryNum, PassId, PassQuery, Estimate, InsertLog, InsertMetric,
       ReadReplyId, InsertSnippet
  <2> QED
    BY <1>1, <1>2, <2>1, AnswersKept
<1>4. CASE InsertLog(r)
  <2>1. pc[r] = "log" /\ log' = log \union {LogRow(r)} /\ UNCHANGED <<metrics, snippets>>
    BY <1>4 DEF InsertLog, Stored, OneAtATime
  <2>2. LogRow(r).id = simulationNum /\ \A row \in log : row.id < simulationNum
    BY <1>1, <2>1 DEF OwnGlobals, LogRow, PastPassId, PastStore, BeforeLogged
  <2>3. LogOf(r) = {}
    BY <1>1, <2>1, NoRowsYet DEF BeforeInserts
  <2>4. simulationNum \in Nat \ {0}
    BY <2>1 DEF EpochInv, ThreadAboveBase, TypeOK, Base, PastStore
  <2>5. Pair(LogRow(r)) \in Ledger!Entry /\ Pair(LogRow(r)).req = r /\ Pair(LogRow(r)).id = simulationNum
    BY <2>2, <2>4 DEF Pair, LogRow, Ledger!Entry
  <2>6. filed' = filed \union {Pair(LogRow(r))}
    BY <2>1, OnePairMore DEF filed
  <2>7. \A e \in filed : e.req # r /\ e.id < simulationNum
    BY <2>2, <2>3 DEF filed, Pair, LogOf
  <2>8. details' = details
    BY <2>1 DEF details
  <2>9. answers' = answers
    BY <1>3, <1>4, <2>1 DEF Reply
  <2> HIDE DEF filed, details, answers
  <2>10. Pair(LogRow(r)) \in filed' \ filed
    BY <2>5, <2>6, <2>7
  <2>11. Ledger!File(r)
    BY <2>5, <2>6, <2>7, <2>8, <2>9, <2>10 DEF Ledger!File, filed, details, answers
  <2> QED
    BY <2>11 DEF Ledger!Next
<1>5. CASE InsertMetric(r) \/ InsertSnippet(r)
  <2>1. PICK row : /\ row.req = r
                   /\ metrics' \union snippets' \in {metrics \union snippets, metrics \union snippets \union {row}}
                   /\ row \in metrics' \union snippets' => row \in MetricsOf(r)' \union SnippetsOf(r)'
    <3>1. CASE InsertMetric(r)
      <4>1. metrics' \in {metrics, metrics \union {MetricRow(r, frame[r].rows)}} /\ snippets' = snippets
        BY <3>1 DEF InsertMetric, Stored
      <4>2. MetricRow(r, frame[r].rows).req = r
        BY DEF MetricRow
      <4> QED
        BY <4>1, <4>2 DEF MetricsOf, SnippetsOf
    <3>2. CASE InsertSnippet(r)
      <4> DEFINE row == SnippetRow(r, frame[r].rows + 1)
      <4>1. snippets' \in {snippets, snippets \union {row}} /\ metrics' = metrics
        BY <3>2 DEF InsertSnippet, Stored
      <4>2. row.req = r
        BY DEF SnippetRow
      <4> HIDE DEF row
      <4> QED
        BY <4>1, <4>2 DEF MetricsOf, SnippetsOf
    <3> QED
      BY <1>5, <3>1, <3>2
  <2>2. UNCHANGED log /\ pc[r] # "reply"
    BY <1>5 DEF InsertMetric, InsertSnippet
  <2>3. answers' = answers /\ filed' = filed
    BY <1>3, <2>2 DEF filed, Reply
  <2>4. CASE metrics' \union snippets' = metrics \union snippets
    BY <2>3, <2>4 DEF filed, details, answers, Ledger!vars
  <2>5. CASE metrics' \union snippets' = metrics \union snippets \union {row}
    <3>1. OwnRows(r)'
      BY <1>1, OwnRowsByThread
    <3>2. PICK logged \in log : logged.req = r /\ logged.id = row.id
      BY <2>1, <2>2, <2>5, <3>1 DEF OwnRows, LogOf
    <3>3. Pair(row) \in filed /\ Pair(row).req = r
      BY <2>1, <3>2 DEF filed, Pair
    <3>4. details' = details \union {Pair(row)}
      BY <2>5, OnePairMore DEF details
    <3> HIDE DEF filed, details, answers
    <3>5. Ledger!AddDetail(r)
      BY <2>3, <3>3, <3>4 DEF Ledger!AddDetail, filed, details, answers
    <3> QED
      BY <3>5 DEF Ledger!Next
  <2> QED
    BY <2>1, <2>4, <2>5
<1>6. CASE Reply(r)
  <2>1. /\ pc[r] = "reply" /\ pc' = [pc EXCEPT ![r] = "replied"] /\ UNCHANGED <<log, metrics, snippets, frame>>
    BY <1>6 DEF Reply
  <2>2. PICK logged \in LogOf(r) : logged.id = frame[r].reply
    BY <1>1, <2>1, OwnIdsMeet DEF OwnGlobals
  <2>3. Pair(logged) \in filed /\ Pair(logged).req = r /\ Pair(logged).id = frame[r].reply
    BY <2>2 DEF filed, Pair, LogOf
  <2>4. answers' = [answers EXCEPT ![r] = frame[r].reply] /\ answers[r] = 0
    BY <1>1, <2>1 DEF answers
  <2>5. filed' = filed /\ details' = details
    BY <2>1 DEF filed, details
  <2> HIDE DEF filed, details, answers
  <2>6. Ledger!Answer(r)
    BY <2>3, <2>4, <2>5 DEF Ledger!Answer, filed, details, answers
  <2> QED
    BY <2>6 DEF Ledger!Next
<1>7. CASE UNCHANGED tables /\ ~Reply(r)
  <2>1. UNCHANGED <<filed, details, answers>>
    BY <1>3, <1>7 DEF filed, details
  <2> QED
    BY <2>1 DEF filed, details, answers, Ledger!vars
<1> QED
  BY <1>4, <1>5, <1>6, <1>7 DEF Handler, QueryParserMain, Accept, HandleOther, LoadCounter, StoreCounter,
     ReadOption, OptionFault, ParseSnippet, SetQueryNum, PassId, PassQuery, Estimate, ReadReplyId

\* So is each step of the server, a crash and a restart included.
LEMMA LedgerStep ==
  ASSUME OneAtATime, TypeOK, EpochInv, FilingInv, SerialInv, [Next]_vars
  PROVE  [Ledger!Next]_(Ledger!vars)
<1>1. ASSUME NEW r \in Requests, Handler(r), ~ScaleFault(r) PROVE [Ledger!Next]_(Ledger!vars)
  BY <1>1, LedgerByThread
<1>2. ASSUME Crash \/ Boot \/ UNCHANGED vars \/ \E r \in Requests : ScaleFault(r)
      PROVE  [Ledger!Next]_(Ledger!vars)
  <2>1. /\ UNCHANGED <<frame, log, metrics, snippets>>
        /\ \A q \in Requests : pc'[q] = pc[q] \/ (pc[q] \in Running /\ pc'[q] = "lost")
    BY <1>2 DEF Crash, Boot, ScaleFault, Die, vars, tables
  <2>2. answers' = answers
    BY <2>1, AnswersKept DEF Running
  <2>3. filed' = filed /\ details' = details
    BY <2>1 DEF filed, details
  <2> QED
    BY <2>2, <2>3 DEF filed, details, answers, Ledger!vars
<1> QED
  BY <1>1, <1>2 DEF Next, Idle

\* Served one at a time, the server with its crashes, restarts and failing
\* statements is the ledger its clients take it for.
THEOREM ServiceImplementsLedger ==
  ASSUME OneAtATime
  PROVE  Spec => ImplementsLedger
<1>1. Init => Ledger!Init
  BY DEF Init, Ledger!Init
<1>2. OneAtATime
  OBVIOUS
<1>3. TypeOK /\ EpochInv /\ FilingInv /\ SerialInv /\ [Next]_vars => [Ledger!Next]_(Ledger!vars)
  BY <1>2, LedgerStep
<1> QED
  BY <1>1, <1>3, SerialSafety, PTL DEF Spec, ImplementsLedger, Ledger!Spec
=============================================================================
