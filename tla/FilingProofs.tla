---------------------------- MODULE FilingProofs ----------------------------
(***************************************************************************)
(* Theorems about the rows a validation files and the id its client is     *)
(* answered with, for any number of handlers, crashes and failing          *)
(* statements.                                                             *)
(***************************************************************************)
EXTENDS ValidatorServiceProofs, FiniteSetTheorems

LogOf(r) == {row \in log : row.req = r}
MetricsOf(r) == {m \in metrics : m.req = r}
SnippetsOf(r) == {s \in snippets : s.req = r}

Parsing == {"idle", "load", "store", "option", "parse"}

BeforeInserts == Parsing \union {"setQuery", "passId", "passQuery", "estimate", "log"}

Logged == {"metric", "replyId", "snippet", "reply", "replied"}

(***************************************************************************)
(* What a request has filed, by where its thread stands.  A thread that    *)
(* went down with the process may have filed any of it; the order of the   *)
(* INSERTs is all that is left then.                                       *)
(***************************************************************************)
FiledInOrder(r) ==
  /\ LogOf(r) # {} \/ MetricsOf(r) # {} => pc[r] \in Logged \union {"lost"}
  /\ SnippetsOf(r) # {} => pc[r] \in {"snippet", "reply", "replied", "lost"}
  /\ "log" \notin FaultySql =>
       /\ pc[r] \in Logged => LogOf(r) # {}
       /\ MetricsOf(r) # {} \/ SnippetsOf(r) # {} => LogOf(r) # {}

FiledUnderOwnId(r) ==
  /\ \A row \in LogOf(r) : row.id = frame[r].id
  /\ \A m \in MetricsOf(r) : m.id = frame[r].id
  /\ \A s \in SnippetsOf(r) : s.work \in 1..Len(frame[r].ids) /\ s.id = frame[r].ids[s.work]

MetricsSoFar(r) == {m.csd : m \in MetricsOf(r)}
SnippetsSoFar(r) == {s.work : s \in SnippetsOf(r)}

FiledSoFar(r) ==
  /\ pc[r] \in BeforeInserts => frame[r].rows = 0
  /\ pc[r] \in {"idle", "load", "store", "option"} => frame[r].ids = <<>>
  /\ pc[r] = "parse" => Len(frame[r].ids) < PlanLength(r)
  /\ pc[r] \in Running \ Parsing \/ pc[r] = "replied" => Len(frame[r].ids) = PlanLength(r)
  /\ "metric" \notin FaultySql =>
       /\ pc[r] = "metric" => MetricsSoFar(r) = 0..frame[r].rows - 1
       /\ pc[r] \in {"replyId", "snippet", "reply", "replied"} /\ OnCsd(r) =>
            MetricsSoFar(r) = 0..frame[r].option.csdCount - 1
  /\ "snippet" \notin FaultySql =>
       /\ pc[r] = "snippet" => SnippetsSoFar(r) = 1..frame[r].rows
       /\ pc[r] \in {"reply", "replied"} => SnippetsSoFar(r) = 1..PlanLength(r)

Filed(r) == FiledInOrder(r) /\ FiledUnderOwnId(r) /\ FiledSoFar(r)

FilingInv == \A r \in Requests : Filed(r)

(***************************************************************************)
(* The counter runs ahead of its base by no more than the threads that     *)
(* have stored an increment since the start, and so does what was read.    *)
(***************************************************************************)
Served(b) == {q \in Requests : frame[q].boot = b}

Advanced == {q \in Served(boot) : pc[q] \notin {"idle", "load", "store"}}

Bound == Base + Cardinality(Advanced)

CountsThread(r) ==
  /\ frame[r].boot \in 0..boot
  /\ pc[r] = "idle" => frame[r].boot = 0
  /\ pc[r] = "store" => frame[r].loaded <= Bound
  /\ pc[r] \in {"snippet", "reply", "replied"} =>
       /\ frame[r].boot > 0
       /\ frame[r].reply > bootIds[frame[r].boot]
       /\ frame[r].reply <= bootIds[frame[r].boot] + Cardinality(Served(frame[r].boot))

CountInv ==
  /\ simulationNum <= Bound
  /\ \A r \in Requests : CountsThread(r)

-----------------------------------------------------------------------------
\* A step of one handler leaves the other requests and their rows alone.
LEMMA OthersKept ==
  ASSUME TypeOK, NEW r \in Requests, Handler(r), ~ScaleFault(r)
  PROVE  /\ up /\ UNCHANGED process
         /\ \A q \in Requests \ {r} : UNCHANGED <<pc[q], frame[q], LogOf(q), MetricsOf(q), SnippetsOf(q)>>
<1> USE DEF process, globals, tables, Step, Goto, Keep
<1>1. up /\ UNCHANGED process /\ \A q \in Requests \ {r} : UNCHANGED <<pc[q], frame[q]>>
  BY DEF TypeOK, Handler, QueryParserMain, Accept, HandleOther, LoadCounter, StoreCounter,
     ReadOption, OptionFault, ParseSnippet, SetQueryNum, PassId, PassQuery, Estimate,
     InsertLog, InsertMetric, ReadReplyId, InsertSnippet, Reply
<1>2. CASE InsertLog(r)
  <2>1. UNCHANGED <<metrics, snippets>> /\ log' \in {log, log \union {LogRow(r)}}
    BY <1>2 DEF InsertLog, Stored
  <2>2. LogRow(r).req = r
    BY DEF LogRow
  <2> QED BY <1>1, <2>1, <2>2 DEF LogOf, MetricsOf, SnippetsOf
<1>3. CASE InsertMetric(r)
  <2>1. UNCHANGED <<log, snippets>> /\ metrics' \in {metrics, metrics \union {MetricRow(r, frame[r].rows)}}
    BY <1>3 DEF InsertMetric, Stored
  <2>2. MetricRow(r, frame[r].rows).req = r
    BY DEF MetricRow
  <2> QED BY <1>1, <2>1, <2>2 DEF LogOf, MetricsOf, SnippetsOf
<1>4. CASE InsertSnippet(r)
  <2> DEFINE row == SnippetRow(r, frame[r].rows + 1)
  <2>1. UNCHANGED <<log, metrics>> /\ snippets' \in {snippets, snippets \union {row}}
    BY <1>4 DEF InsertSnippet, Stored
  <2>2. row.req = r
    BY DEF SnippetRow
  <2> QED BY <1>1, <2>1, <2>2 DEF LogOf, MetricsOf, SnippetsOf
<1>5. CASE UNCHANGED tables
  BY <1>1, <1>5 DEF LogOf, MetricsOf, SnippetsOf
<1> QED
  BY <1>2, <1>3, <1>4, <1>5 DEF Handler, QueryParserMain, Accept, HandleOther, LoadCounter, StoreCounter,
     ReadOption, OptionFault, ParseSnippet, SetQueryNum, PassId, PassQuery, Estimate, ReadReplyId, Reply

\* What is filed for a request is a matter of its thread and its rows.
LEMMA FiledKept ==
  ASSUME NEW q \in Requests, Filed(q),
         UNCHANGED <<pc[q], frame[q], LogOf(q), MetricsOf(q), SnippetsOf(q)>>
  PROVE  Filed(q)'
BY DEF Filed, FiledInOrder, FiledUnderOwnId, FiledSoFar, MetricsSoFar, SnippetsSoFar, OnCsd, PlanLength

\* A plan has a number of statements.
LEMMA PlanLengthType ==
  ASSUME NEW r \in Requests
  PROVE  PlanLength(r) \in Nat \ {0}
BY RecognisedType, StatementsAssumption DEF PlanLength

\* The columns of a table with one row more.
LEMMA OneRowMore ==
  ASSUME NEW S, NEW row
  PROVE  /\ {m.csd : m \in S \union {row}} = {m.csd : m \in S} \union {row.csd}
         /\ {m.work : m \in S \union {row}} = {m.work : m \in S} \union {row.work}
OBVIOUS

\* The rows of a loop that has come to its next one.
LEMMA OneIndexMore ==
  ASSUME NEW n \in Nat, NEW done
  PROVE  /\ done = 0..n - 1 => done \union {n} = 0..n
         /\ done = 1..n => done \union {n + 1} = 1..n + 1
         /\ n + 1 - 1 = n
OBVIOUS

\* The step of a handler keeps the order of its own INSERTs, and their ids.
LEMMA FiledByThread ==
  ASSUME TypeOK, NEW r \in Requests, Filed(r), Handler(r), ~ScaleFault(r)
  PROVE  Filed(r)'
<1> DEFINE f == frame[r]
           SameRows == UNCHANGED <<LogOf(r), MetricsOf(r), SnippetsOf(r)>>
           SameRest == frame'[r].ids = f.ids /\ frame'[r].option = f.option /\ frame'[r].statement = f.statement
<1>1. f \in Frames /\ pc \in [Requests -> {"idle"} \union Running \union Ended] /\ frame \in [Requests -> Frames]
  BY DEF TypeOK
<1>2. /\ f.ids \in Seq(Nat) /\ f.rows \in Nat /\ f.id \in Nat /\ PlanLength(r) \in Nat \ {0}
      /\ f.option.csdCount \in Nat
  BY <1>1, FrameFields, PlanLengthType DEF Frames
<1> USE DEF process, globals, tables, Step, Goto, Keep
<1>3. UNCHANGED tables => SameRows
  BY DEF LogOf, MetricsOf, SnippetsOf
<1> HIDE DEF f
<1> USE DEF Filed, FiledInOrder, FiledUnderOwnId, FiledSoFar, MetricsSoFar, SnippetsSoFar, OnCsd, PlanLength,
        BeforeInserts, Parsing, Logged, Running
<1>4. CASE Accept(r)
  <2>1. PICK s \in Statements, o \in OptionIds :
           frame' = [frame EXCEPT ![r] = [EmptyFrame EXCEPT !.boot = boot, !.statement = s, !.optionId = o]]
    BY <1>4 DEF Accept
  <2>2. frame'[r].rows = 0 /\ frame'[r].ids = <<>>
    BY <1>1, <2>1 DEF EmptyFrame
  <2>3. pc[r] = "idle" /\ pc'[r] = "load" /\ SameRows
    BY <1>1, <1>3, <1>4 DEF Accept
  <2>4. LogOf(r)' = {} /\ MetricsOf(r)' = {} /\ SnippetsOf(r)' = {}
    BY <2>3
  <2> QED BY <2>2, <2>3, <2>4
<1>5. CASE HandleOther(r)
  <2>1. pc[r] = "idle" /\ pc'[r] = "unanswered" /\ SameRows /\ UNCHANGED frame[r]
    BY <1>1, <1>3, <1>5 DEF HandleOther
  <2>2. LogOf(r)' = {} /\ MetricsOf(r)' = {} /\ SnippetsOf(r)' = {}
    BY <2>1
  <2> QED BY <2>1, <2>2
<1>6. CASE LoadCounter(r) \/ StoreCounter(r) \/ OptionFault(r) \/ ReadOption(r)
  <2>1. /\ pc[r] \in {"load", "store", "option"} /\ pc'[r] \in {"store", "option", "parse", "error"}
        /\ pc'[r] = "parse" => pc[r] = "option"
        /\ SameRows /\ frame'[r].rows = f.rows /\ frame'[r].ids = f.ids /\ frame'[r].statement = f.statement
    <3>1. CASE LoadCounter(r)
      BY <1>1, <1>3, <3>1 DEF LoadCounter, Frames, f
    <3>2. CASE StoreCounter(r)
      BY <1>1, <1>3, <3>2 DEF StoreCounter, f
    <3>3. CASE OptionFault(r)
      BY <1>1, <1>3, <3>3 DEF OptionFault, f
    <3>4. CASE ReadOption(r)
      BY <1>1, <1>3, <3>4 DEF ReadOption, Frames, f
    <3> QED BY <1>6, <3>1, <3>2, <3>3, <3>4
  <2>2. LogOf(r)' = {} /\ MetricsOf(r)' = {} /\ SnippetsOf(r)' = {} /\ frame'[r].rows = 0 /\ frame'[r].ids = <<>>
    BY <2>1 DEF f
  <2> QED BY <1>2, <2>1, <2>2 DEF f
<1>7. CASE ParseSnippet(r)
  <2>1. /\ pc[r] = "parse"
        /\ frame'[r].ids = Append(f.ids, simulationNum)
        /\ pc'[r] = IF Len(frame'[r].ids) = PlanLength(r) THEN "setQuery" ELSE "parse"
        /\ SameRows /\ frame'[r].rows = f.rows /\ frame'[r].statement = f.statement
    BY <1>1, <1>3, <1>7 DEF ParseSnippet, Frames, f
  <2>2. LogOf(r)' = {} /\ MetricsOf(r)' = {} /\ SnippetsOf(r)' = {} /\ frame'[r].rows = 0
    BY <2>1 DEF f
  <2>3. Len(frame'[r].ids) = Len(f.ids) + 1 /\ Len(f.ids) < PlanLength(r) /\ Len(f.ids) \in Nat
    BY <1>2, <2>1 DEF f, TypeOK
  <2>4. PlanLength(r)' = PlanLength(r)
    BY <2>1 DEF f
  <2> HIDE DEF PlanLength
  <2>5. pc'[r] = "parse" => Len(frame'[r].ids) < PlanLength(r)
    BY <1>2, <2>1, <2>3
  <2> QED BY <2>1, <2>2, <2>4, <2>5
<1>8. CASE SetQueryNum(r) \/ PassId(r) \/ PassQuery(r) \/ Estimate(r)
  <2>1. /\ pc[r] \in {"setQuery", "passId", "passQuery", "estimate"} /\ pc'[r] \in {"passId", "passQuery", "estimate", "log"}
        /\ SameRows /\ frame'[r].rows = f.rows /\ SameRest
    <3>1. CASE SetQueryNum(r)
      BY <1>1, <1>3, <3>1 DEF SetQueryNum, f
    <3>2. CASE PassId(r)
      BY <1>1, <1>3, <3>2 DEF PassId, Frames, f
    <3>3. CASE PassQuery(r)
      BY <1>1, <1>3, <3>3 DEF PassQuery, Frames, f
    <3>4. CASE Estimate(r)
      BY <1>1, <1>3, <3>4 DEF Estimate, f
    <3> QED BY <1>8, <3>1, <3>2, <3>3, <3>4
  <2>2. LogOf(r)' = {} /\ MetricsOf(r)' = {} /\ SnippetsOf(r)' = {} /\ frame'[r].rows = 0
    BY <2>1 DEF f
  <2> QED BY <2>1, <2>2 DEF f
<1>9. CASE InsertLog(r)
  <2>1. /\ pc[r] = "log" /\ pc'[r] = IF OnCsd(r) THEN "metric" ELSE "replyId"
        /\ UNCHANGED <<frame[r], MetricsOf(r), SnippetsOf(r)>>
        /\ log' \in Stored("log", LogRow(r), log)
    BY <1>1, <1>9 DEF InsertLog, MetricsOf, SnippetsOf
  <2>2. LogOf(r) = {} /\ MetricsOf(r) = {} /\ SnippetsOf(r) = {} /\ f.rows = 0
    BY <2>1 DEF f
  <2>3. LogRow(r).req = r /\ LogRow(r).id = f.id
    BY DEF LogRow, f
  <2>4. LogOf(r)' \in {{}, {LogRow(r)}} /\ ("log" \notin FaultySql => LogOf(r)' = {LogRow(r)})
    BY <2>1, <2>2, <2>3 DEF Stored, LogOf
  <2> QED BY <2>1, <2>2, <2>3, <2>4 DEF f
<1>10. CASE InsertMetric(r)
  <2> DEFINE next == f.rows + 1
             row == MetricRow(r, f.rows)
  <2>1. /\ pc[r] = "metric" /\ pc'[r] = IF next = f.option.csdCount THEN "replyId" ELSE "metric"
        /\ UNCHANGED <<LogOf(r), SnippetsOf(r)>>
        /\ frame'[r].rows = next /\ frame'[r].id = f.id /\ SameRest
        /\ metrics' \in Stored("metric", row, metrics)
    BY <1>1, <1>10 DEF InsertMetric, LogOf, SnippetsOf, Frames, f
  <2>2. row.req = r /\ row.id = f.id /\ row.csd = f.rows
    BY DEF MetricRow, f
  <2>3. MetricsOf(r)' \in {MetricsOf(r), MetricsOf(r) \union {row}}
    BY <2>1, <2>2 DEF Stored, MetricsOf
  <2>4. "metric" \notin FaultySql => MetricsOf(r)' = MetricsOf(r) \union {row}
    BY <2>1, <2>2 DEF Stored, MetricsOf
  <2>5. "metric" \notin FaultySql => MetricsSoFar(r)' = 0..f.rows
    <3>1. SUFFICES ASSUME "metric" \notin FaultySql PROVE MetricsSoFar(r)' = 0..f.rows
      OBVIOUS
    <3>2. MetricsSoFar(r) = 0..f.rows - 1
      BY <2>1, <3>1 DEF f
    <3>3. MetricsSoFar(r)' = MetricsSoFar(r) \union {f.rows}
      <4> HIDE DEF MetricsOf, row
      <4> QED BY <2>2, <2>4, <3>1, OneRowMore
    <3> QED BY <1>2, <3>2, <3>3, OneIndexMore DEF f
  <2>6. f.rows + 1 - 1 = f.rows /\ (next = f.option.csdCount => f.option.csdCount - 1 = f.rows)
    BY <1>2, OneIndexMore DEF f
  <2> HIDE DEF row, next
  <2>7. FiledInOrder(r)'
    BY <2>1, <2>3 DEF f
  <2>8. FiledUnderOwnId(r)'
    BY <2>1, <2>2, <2>3 DEF f
  <2>9. FiledSoFar(r)'
    <3>1. PlanLength(r)' = PlanLength(r) /\ OnCsd(r)' = OnCsd(r)
      BY <2>1 DEF f
    <3>2. frame'[r].rows - 1 = f.rows
      BY <1>2, <2>1 DEF next
    <3> HIDE DEF PlanLength, OnCsd, MetricsSoFar, SnippetsSoFar
    <3>3. Len(frame'[r].ids) = PlanLength(r)'
      BY <2>1, <3>1 DEF f
    <3>4. CASE pc'[r] = "metric"
      BY <2>1, <2>5, <3>1, <3>2, <3>3, <3>4
    <3>5. CASE pc'[r] = "replyId"
      BY <2>1, <2>5, <2>6, <3>1, <3>2, <3>3, <3>5
    <3> QED BY <2>1, <3>4, <3>5
  <2> QED BY <2>7, <2>8, <2>9
<1>11. CASE ReadReplyId(r)
  <2>1. /\ pc[r] = "replyId" /\ pc'[r] = "snippet" /\ SameRows
        /\ frame'[r].rows = 0 /\ frame'[r].id = f.id /\ SameRest
    BY <1>1, <1>3, <1>11 DEF ReadReplyId, Frames, f
  <2>2. SnippetsOf(r)' = {} /\ 1..0 = {}
    BY <2>1
  <2> QED BY <2>1, <2>2 DEF f
<1>12. CASE InsertSnippet(r)
  <2> DEFINE next == f.rows + 1
             row == SnippetRow(r, next)
  <2>1. /\ pc[r] = "snippet" /\ pc'[r] = IF next = Len(f.ids) THEN "reply" ELSE "snippet"
        /\ next <= Len(f.ids)
        /\ UNCHANGED <<LogOf(r), MetricsOf(r)>>
        /\ frame'[r].rows = next /\ frame'[r].id = f.id /\ SameRest
        /\ snippets' \in Stored("snippet", row, snippets)
    BY <1>1, <1>12 DEF InsertSnippet, LogOf, MetricsOf, Frames, f
  <2>2. row.req = r /\ row.id = f.ids[next] /\ row.work = next
    BY DEF SnippetRow, f
  <2>3. SnippetsOf(r)' \in {SnippetsOf(r), SnippetsOf(r) \union {row}}
    BY <2>1, <2>2 DEF Stored, SnippetsOf
  <2>4. "snippet" \notin FaultySql => SnippetsOf(r)' = SnippetsOf(r) \union {row}
    BY <2>1, <2>2 DEF Stored, SnippetsOf
  <2>5. "snippet" \notin FaultySql => SnippetsSoFar(r)' = 1..next
    <3>1. SUFFICES ASSUME "snippet" \notin FaultySql PROVE SnippetsSoFar(r)' = 1..next
      OBVIOUS
    <3>2. SnippetsSoFar(r) = 1..f.rows
      BY <2>1, <3>1 DEF f
    <3>3. SnippetsSoFar(r)' = SnippetsSoFar(r) \union {next}
      <4> HIDE DEF SnippetsOf, row, next
      <4> QED BY <2>2, <2>4, <3>1, OneRowMore
    <3> QED BY <1>2, <3>2, <3>3, OneIndexMore DEF f
  <2>6. next \in 1..Len(f.ids)
    BY <1>2, <2>1
  <2> HIDE DEF row, next
  <2>7. FiledInOrder(r)'
    BY <2>1, <2>3 DEF f
  <2>8. FiledUnderOwnId(r)'
    BY <2>1, <2>2, <2>3, <2>6 DEF f
  <2>9. FiledSoFar(r)'
    BY <2>1, <2>5 DEF f
  <2> QED BY <2>7, <2>8, <2>9
<1>13. CASE Reply(r)
  <2>1. pc[r] = "reply" /\ pc'[r] = "replied" /\ SameRows /\ UNCHANGED frame[r]
    BY <1>1, <1>3, <1>13 DEF Reply
  <2> QED BY <2>1
<1> QED
  BY <1>4, <1>5, <1>6, <1>7, <1>8, <1>9, <1>10, <1>11, <1>12, <1>13 DEF Handler, QueryParserMain

\* What a request has filed when the process is gone, whatever its thread was doing.
LEMMA FiledByTheDead ==
  ASSUME TypeOK, NEW r \in Requests, Filed(r), Die
  PROVE  Filed(r)'
<1>1. /\ pc'[r] = IF pc[r] \in Running THEN "lost" ELSE pc[r]
      /\ UNCHANGED <<frame, LogOf(r), MetricsOf(r), SnippetsOf(r)>>
  BY DEF Die, tables, LogOf, MetricsOf, SnippetsOf
<1>2. CASE pc[r] \in Running
  BY <1>1, <1>2 DEF Filed, FiledInOrder, FiledUnderOwnId, FiledSoFar, BeforeInserts, Parsing, Logged, Running
<1>3. CASE pc[r] \notin Running
  BY <1>1, <1>3, FiledKept
<1> QED
  BY <1>2, <1>3

\* Neither a handler, nor a crash or a restart, breaks what requests have filed.
LEMMA FilingStep == TypeOK /\ FilingInv /\ [Next]_vars => FilingInv'
<1> SUFFICES ASSUME TypeOK, FilingInv, [Next]_vars, NEW q \in Requests PROVE Filed(q)'
  BY DEF FilingInv
<1>1. Filed(q)
  BY DEF FilingInv
<1>2. ASSUME NEW r \in Requests, Handler(r), ~ScaleFault(r) PROVE Filed(q)'
  <2>1. CASE q = r
    BY <1>1, <1>2, <2>1, FiledByThread
  <2>2. CASE q # r
    BY <1>1, <1>2, <2>2, OthersKept, FiledKept
  <2> QED
    BY <2>1, <2>2
<1>3. ASSUME Crash \/ \E r \in Requests : ScaleFault(r) PROVE Filed(q)'
  BY <1>1, <1>3, FiledByTheDead DEF Crash, ScaleFault
<1>4. ASSUME Boot \/ UNCHANGED vars PROVE Filed(q)'
  <2>1. UNCHANGED <<pc, frame, log, metrics, snippets>>
    BY <1>4 DEF Boot, vars, tables
  <2> QED
    BY <1>1, <2>1, FiledKept DEF LogOf, MetricsOf, SnippetsOf
<1> QED
  BY <1>2, <1>3, <1>4 DEF Next, Idle

\* No request has filed anything at first.
LEMMA FilingInit == Init => FilingInv
<1> SUFFICES ASSUME Init, NEW r \in Requests PROVE Filed(r)
  BY DEF FilingInv
<1>1. pc[r] = "idle" /\ frame[r].ids = <<>> /\ frame[r].rows = 0
  BY DEF Init, EmptyFrame
<1>2. LogOf(r) = {} /\ MetricsOf(r) = {} /\ SnippetsOf(r) = {}
  BY DEF Init, LogOf, MetricsOf, SnippetsOf
<1> QED
  BY <1>1, <1>2 DEF Filed, FiledInOrder, FiledUnderOwnId, FiledSoFar, BeforeInserts, Parsing, Logged, Running

\* FilingInv is an invariant of the server.
LEMMA FilingSafety == Spec => [](TypeOK /\ FilingInv)
<1>1. Init => TypeOK /\ FilingInv
  BY TypeInit, FilingInit
<1>2. TypeOK /\ FilingInv /\ [Next]_vars => TypeOK' /\ FilingInv'
  BY TypeStep, FilingStep
<1> QED
  BY <1>1, <1>2, PTL DEF Spec

\* Whatever the other handlers do to the counter between two INSERTs of a
\* validation, its log row and its metric rows are filed under one id.
THEOREM OneId == Spec => []OneIdPerValidation
<1>1. TypeOK /\ FilingInv => OneIdPerValidation
  <2> SUFFICES ASSUME TypeOK, FilingInv, NEW row \in log, NEW m \in metrics, row.req = m.req
               PROVE  row.id = m.id
    BY DEF OneIdPerValidation
  <2>1. row.req \in Requests
    BY DEF TypeOK, LogRows
  <2> QED
    BY <2>1 DEF FilingInv, Filed, FiledUnderOwnId, LogOf, MetricsOf
<1> QED
  BY <1>1, FilingSafety, PTL

\* An answered validation is complete in every table whose INSERTs do not fail.
THEOREM Complete == Spec => []CompleteWhenAnswered
<1>1. TypeOK /\ FilingInv => CompleteWhenAnswered
  <2> SUFFICES ASSUME FilingInv, NEW r \in Requests, pc[r] = "replied"
               PROVE  /\ "log" \notin FaultySql => \E row \in log : row.req = r
                      /\ "metric" \notin FaultySql /\ OnCsd(r) =>
                           MetricsSoFar(r) = 0 .. frame[r].option.csdCount - 1
                      /\ "snippet" \notin FaultySql => SnippetsSoFar(r) = 1 .. PlanLength(r)
    BY DEF CompleteWhenAnswered, MetricsSoFar, SnippetsSoFar, MetricsOf, SnippetsOf
  <2>1. Filed(r)
    BY DEF FilingInv
  <2>2. "log" \notin FaultySql => LogOf(r) # {}
    BY <2>1 DEF Filed, FiledInOrder, Logged
  <2> QED
    BY <2>1, <2>2 DEF Filed, FiledSoFar, LogOf
<1> QED
  BY <1>1, FilingSafety, PTL

\* Whenever the process dies, no detail row is left without its log row.
THEOREM DetailNeverAlone == Spec => []DetailFollowsLog
<1>1. TypeOK /\ FilingInv => DetailFollowsLog
  <2> SUFFICES ASSUME TypeOK, FilingInv, "log" \notin FaultySql, NEW detail \in metrics \union snippets
               PROVE  \E row \in log : row.req = detail.req
    BY DEF DetailFollowsLog
  <2>1. detail.req \in Requests
    BY DEF TypeOK, MetricRows, SnippetRows
  <2>2. MetricsOf(detail.req) # {} \/ SnippetsOf(detail.req) # {}
    BY DEF MetricsOf, SnippetsOf
  <2>3. LogOf(detail.req) # {}
    BY <2>1, <2>2 DEF FilingInv, Filed, FiledInOrder
  <2> QED
    BY <2>3 DEF LogOf
<1> QED
  BY <1>1, FilingSafety, PTL

-----------------------------------------------------------------------------
\* The threads counted are finitely many, and those of a start are not forgotten.
LEMMA MoreCounted ==
  ASSUME TypeOK, UNCHANGED <<boot, bootIds>>,
         \A q \in Requests : frame[q].boot # 0 => frame'[q].boot = frame[q].boot,
         \A q \in Requests : pc[q] \notin {"idle", "load", "store"} => pc'[q] \notin {"idle", "load", "store"}
  PROVE  /\ Bound \in Nat /\ Bound' \in Nat /\ Bound <= Bound'
         /\ \A b \in 1..boot : /\ Cardinality(Served(b)) \in Nat /\ Cardinality(Served(b))' \in Nat
                               /\ Cardinality(Served(b)) <= Cardinality(Served(b))'
         /\ Bound <= Base + Cardinality(Served(boot))
<1>1. boot \in 1..boot /\ Base \in Nat /\ Base' = Base
  BY DEF TypeOK, Base
<1>2. ASSUME NEW b \in 1..boot
      PROVE  /\ Served(b) \subseteq Served(b)'
             /\ IsFiniteSet(Served(b)) /\ IsFiniteSet(Served(b)')
  <2>1. b # 0
    OBVIOUS
  <2>2. Served(b) \subseteq Served(b)' /\ Served(b) \subseteq Requests /\ Served(b)' \subseteq Requests
    BY <2>1 DEF Served
  <2> QED
    BY <2>2, RequestsAssumption, FS_Subset
<1>3. /\ Advanced \subseteq Advanced' /\ Advanced \subseteq Served(boot)
      /\ IsFiniteSet(Advanced')
  <2>1. Advanced \subseteq Advanced' /\ Advanced \subseteq Served(boot) /\ Advanced' \subseteq Served(boot)'
    BY <1>1, <1>2 DEF Advanced, Served
  <2> QED
    BY <1>1, <1>2, <2>1, FS_Subset
<1>4. /\ Cardinality(Advanced) \in Nat /\ Cardinality(Advanced') \in Nat
      /\ Cardinality(Advanced) <= Cardinality(Advanced')
      /\ Cardinality(Advanced) <= Cardinality(Served(boot))
  BY <1>1, <1>2, <1>3, FS_Subset, FS_CardinalityType
<1>5. \A b \in 1..boot : /\ Cardinality(Served(b)) \in Nat /\ Cardinality(Served(b)') \in Nat
                         /\ Cardinality(Served(b)) <= Cardinality(Served(b)')
  BY <1>2, FS_Subset, FS_CardinalityType
<1> QED
  BY <1>1, <1>4, <1>5 DEF Bound

\* A thread that stands still goes on being counted.
LEMMA CountedKept ==
  ASSUME TypeOK, UNCHANGED <<boot, bootIds>>, NEW q \in Requests, CountsThread(q),
         Bound \in Nat, Bound' \in Nat, Bound <= Bound',
         \A b \in 1..boot : /\ Cardinality(Served(b)) \in Nat /\ Cardinality(Served(b))' \in Nat
                            /\ Cardinality(Served(b)) <= Cardinality(Served(b))',
         frame'[q].boot = frame[q].boot,
         pc'[q] = "idle" => pc[q] = "idle",
         pc'[q] = "store" => pc[q] = "store" /\ frame'[q].loaded = frame[q].loaded,
         pc'[q] \in {"snippet", "reply", "replied"} =>
           pc[q] \in {"snippet", "reply", "replied"} /\ frame'[q].reply = frame[q].reply
  PROVE  CountsThread(q)'
<1>1. frame[q].boot \in 0..boot /\ frame[q].loaded \in Nat /\ frame[q].reply \in Nat /\ boot \in Nat
  BY FrameFields DEF CountsThread, TypeOK
<1>2. \A b \in 1..boot : bootIds[b] \in Nat
  BY DEF TypeOK
<1>3. pc'[q] = "store" => (frame[q].loaded <= Bound)'
  BY <1>1 DEF CountsThread
<1>4. ASSUME pc'[q] \in {"snippet", "reply", "replied"}
      PROVE  /\ frame'[q].boot > 0 /\ frame'[q].reply > bootIds'[frame'[q].boot]
             /\ frame'[q].reply <= bootIds'[frame'[q].boot] + Cardinality(Served(frame[q].boot))'
  <2>1. frame[q].boot \in 1..boot /\ frame[q].reply > bootIds[frame[q].boot]
        /\ frame[q].reply <= bootIds[frame[q].boot] + Cardinality(Served(frame[q].boot))
    BY <1>1, <1>4 DEF CountsThread
  <2> DEFINE b == frame[q].boot
  <2>2. /\ Cardinality(Served(b)) \in Nat /\ Cardinality(Served(b)') \in Nat
        /\ Cardinality(Served(b)) <= Cardinality(Served(b)') /\ bootIds[b] \in Nat
    BY <1>2, <2>1
  <2> QED
    BY <1>1, <1>2, <1>4, <2>1, <2>2
<1> QED
  BY <1>1, <1>3, <1>4 DEF CountsThread

\* Storing an increment makes one thread more that has advanced the counter.
LEMMA OneMoreAdvanced ==
  ASSUME TypeOK, UNCHANGED <<boot, bootIds, frame>>, NEW r \in Requests,
         pc[r] = "store", pc' = [pc EXCEPT ![r] = "option"], frame[r].boot = boot
  PROVE  Bound' = Bound + 1
<1>1. Advanced' = Advanced \union {r} /\ r \notin Advanced /\ Advanced \subseteq Requests
  BY DEF Advanced, Served, TypeOK
<1>2. IsFiniteSet(Advanced) /\ Cardinality(Advanced) \in Nat
  BY <1>1, RequestsAssumption, FS_Subset, FS_CardinalityType
<1>3. Cardinality(Advanced') = Cardinality(Advanced) + 1
  BY <1>1, <1>2, FS_AddElement
<1>4. Base \in Nat /\ Base' = Base
  BY DEF TypeOK, Base
<1> QED
  BY <1>2, <1>3, <1>4 DEF Bound

\* The step of a handler keeps the count.
LEMMA CountByThread ==
  ASSUME TypeOK, TypeOK', EpochInv, CountInv, NEW r \in Requests, Handler(r), ~ScaleFault(r)
  PROVE  CountInv'
<1> DEFINE f == frame[r]
<1>0. /\ f \in Frames /\ frame \in [Requests -> Frames]
      /\ pc \in [Requests -> {"idle"} \union Running \union Ended]
  BY DEF TypeOK
<1>1. /\ UNCHANGED <<boot, bootIds>> /\ \A q \in Requests \ {r} : UNCHANGED <<pc[q], frame[q]>>
      /\ simulationNum \in Nat /\ boot \in 1..boot
  BY OthersKept DEF process, TypeOK
<1>2. /\ f \in Frames /\ f.loaded \in Nat /\ CountsThread(r) /\ ThreadAboveBase(r) /\ simulationNum <= Bound
  BY FrameFields DEF CountInv, EpochInv
<1> USE DEF process, globals, tables, Step, Goto, Keep
<1> DEFINE Still == /\ frame'[r].boot = f.boot /\ frame'[r].reply = f.reply /\ simulationNum' = simulationNum
                    /\ pc'[r] \notin {"idle", "load", "store"}
                    /\ pc'[r] \in {"snippet", "reply", "replied"} => pc[r] \in {"snippet", "reply"}
<1>3. /\ Accept(r) => pc[r] = "idle" /\ pc'[r] = "load" /\ frame'[r].boot = boot /\ simulationNum' = simulationNum
      /\ LoadCounter(r) =>
           /\ pc[r] = "load" /\ pc'[r] = "store" /\ frame'[r].boot = f.boot
           /\ frame'[r].loaded = simulationNum /\ simulationNum' = simulationNum
      /\ StoreCounter(r) =>
           /\ pc[r] = "store" /\ pc' = [pc EXCEPT ![r] = "option"] /\ frame' = frame
           /\ simulationNum' = f.loaded + 1
      /\ ReadReplyId(r) =>
           /\ pc[r] = "replyId" /\ pc'[r] = "snippet" /\ frame'[r].boot = f.boot
           /\ frame'[r].reply = simulationNum /\ simulationNum' = simulationNum
  <2>1. Accept(r) => frame'[r].boot = boot
    BY <1>0 DEF Accept, EmptyFrame
  <2>2. Accept(r) => pc[r] = "idle" /\ pc'[r] = "load" /\ simulationNum' = simulationNum
    BY <1>0 DEF Accept
  <2>3. LoadCounter(r) =>
          /\ pc[r] = "load" /\ pc'[r] = "store" /\ frame'[r].boot = f.boot
          /\ frame'[r].loaded = simulationNum /\ simulationNum' = simulationNum
    BY <1>0 DEF LoadCounter, Frames
  <2>4. ReadReplyId(r) =>
          /\ pc[r] = "replyId" /\ pc'[r] = "snippet" /\ frame'[r].boot = f.boot
          /\ frame'[r].reply = simulationNum /\ simulationNum' = simulationNum
    <3> SUFFICES ASSUME ReadReplyId(r) PROVE pc[r] = "replyId" /\ pc'[r] = "snippet" /\ frame'[r].boot = f.boot
                   /\ frame'[r].reply = simulationNum /\ simulationNum' = simulationNum
      OBVIOUS
    <3>1. frame'[r] = [f EXCEPT !.reply = simulationNum, !.rows = 0]
      BY <1>0 DEF ReadReplyId
    <3>2. frame'[r].boot = f.boot /\ frame'[r].reply = simulationNum
      BY <1>0, <3>1 DEF Frames
    <3> QED BY <1>0, <3>2 DEF ReadReplyId
  <2> QED
    BY <2>1, <2>2, <2>3, <2>4 DEF StoreCounter
<1>4. HandleOther(r) \/ OptionFault(r) \/ SetQueryNum(r) \/ Estimate(r) \/ InsertLog(r) \/ Reply(r) => Still
  BY <1>0 DEF HandleOther, OptionFault, SetQueryNum, Estimate, InsertLog, Reply
<1>5. /\ ReadOption(r) \/ ParseSnippet(r) \/ PassId(r) => Still
      /\ PassQuery(r) \/ InsertMetric(r) \/ InsertSnippet(r) => Still
  <2> DEFINE Local(g) == g.boot = f.boot /\ g.reply = f.reply
  <2>1. \A v : /\ Local([f EXCEPT !.option = v]) /\ Local([f EXCEPT !.ids = v]) /\ Local([f EXCEPT !.id = v])
               /\ Local([f EXCEPT !.query = v]) /\ Local([f EXCEPT !.rows = v])
    BY <1>0 DEF Frames
  <2>2. ASSUME ReadOption(r) PROVE Still
    <3>1. \E v : frame'[r] = [f EXCEPT !.option = v]
      BY <1>0, <2>2 DEF ReadOption
    <3>2. Local(frame'[r])
      BY <2>1, <3>1
    <3> QED BY <1>0, <2>2, <3>2 DEF ReadOption
  <2>3. ASSUME ParseSnippet(r) PROVE Still
    <3>1. \E v : frame'[r] = [f EXCEPT !.ids = v]
      BY <1>0, <2>3 DEF ParseSnippet
    <3>2. Local(frame'[r])
      BY <2>1, <3>1
    <3> QED BY <1>0, <2>3, <3>2 DEF ParseSnippet
  <2>4. ASSUME PassId(r) PROVE Still
    <3>1. \E v : frame'[r] = [f EXCEPT !.id = v]
      BY <1>0, <2>4 DEF PassId
    <3>2. Local(frame'[r])
      BY <2>1, <3>1
    <3> QED BY <1>0, <2>4, <3>2 DEF PassId
  <2>5. ASSUME PassQuery(r) PROVE Still
    <3>1. \E v : frame'[r] = [f EXCEPT !.query = v]
      BY <1>0, <2>5 DEF PassQuery
    <3>2. Local(frame'[r])
      BY <2>1, <3>1
    <3> QED BY <1>0, <2>5, <3>2 DEF PassQuery
  <2>6. ASSUME InsertMetric(r) PROVE Still
    <3>1. \E v : frame'[r] = [f EXCEPT !.rows = v]
      BY <1>0, <2>6 DEF InsertMetric
    <3>2. Local(frame'[r])
      BY <2>1, <3>1
    <3> QED BY <1>0, <2>6, <3>2 DEF InsertMetric
  <2>7. ASSUME InsertSnippet(r) PROVE Still
    <3>1. \E v : frame'[r] = [f EXCEPT !.rows = v]
      BY <1>0, <2>7 DEF InsertSnippet
    <3>2. Local(frame'[r])
      BY <2>1, <3>1
    <3> QED BY <1>0, <2>7, <3>2 DEF InsertSnippet
  <2> QED
    BY <2>2, <2>3, <2>4, <2>5, <2>6, <2>7
<1>6. Accept(r) \/ LoadCounter(r) \/ StoreCounter(r) \/ ReadReplyId(r) \/ Still
  BY <1>4, <1>5 DEF Handler, QueryParserMain
<1> HIDE DEF f, Still
<1>7. /\ \A q \in Requests : frame[q].boot # 0 => frame'[q].boot = frame[q].boot
      /\ \A q \in Requests : pc[q] \notin {"idle", "load", "store"} => pc'[q] \notin {"idle", "load", "store"}
  BY <1>0, <1>1, <1>2, <1>3, <1>6 DEF CountsThread, Still, f
<1>8. /\ Bound \in Nat /\ Bound' \in Nat /\ Bound <= Bound' /\ Bound <= Base + Cardinality(Served(boot))
      /\ \A b \in 1..boot : /\ Cardinality(Served(b)) \in Nat /\ Cardinality(Served(b))' \in Nat
                            /\ Cardinality(Served(b)) <= Cardinality(Served(b))'
  BY <1>0, <1>1, <1>7, MoreCounted
<1>9. ASSUME NEW q \in Requests \ {r} PROVE CountsThread(q)'
  BY <1>0, <1>1, <1>8, CountedKept DEF CountInv
<1>10. CASE Accept(r)
  BY <1>0, <1>1, <1>2, <1>3, <1>8, <1>9, <1>10 DEF CountInv, CountsThread
<1>11. CASE LoadCounter(r)
  BY <1>0, <1>1, <1>2, <1>3, <1>8, <1>9, <1>11 DEF CountInv, CountsThread, f
<1>12. CASE StoreCounter(r)
  <2>1. Bound' = Bound + 1
    BY <1>0, <1>1, <1>2, <1>3, <1>12, OneMoreAdvanced DEF ThreadAboveBase, Running
  <2>2. f.loaded <= Bound
    BY <1>2, <1>3, <1>12 DEF CountsThread, f
  <2>3. simulationNum' <= Bound'
    BY <1>2, <1>3, <1>8, <1>12, <2>1, <2>2
  <2>4. CountsThread(r)'
    BY <1>0, <1>1, <1>2, <1>3, <1>12 DEF CountsThread, f
  <2> QED
    BY <1>9, <2>3, <2>4 DEF CountInv
<1>13. CASE ReadReplyId(r)
  <2>1. f.boot = boot /\ Base < simulationNum
    BY <1>2, <1>3, <1>13 DEF ThreadAboveBase, Running, PastStore, f
  <2>2. simulationNum <= Base + Cardinality(Served(boot))'
    BY <1>0, <1>1, <1>2, <1>8 DEF Base, TypeOK
  <2>3. CountsThread(r)'
    BY <1>0, <1>1, <1>3, <1>13, <2>1, <2>2 DEF CountsThread, Base, TypeOK
  <2> QED
    BY <1>0, <1>1, <1>2, <1>3, <1>8, <1>9, <1>13, <2>3 DEF CountInv
<1>14. CASE Still
  <2>1. CountsThread(r)'
    BY <1>0, <1>1, <1>2, <1>8, <1>14, CountedKept DEF Still, f
  <2> QED
    BY <1>0, <1>1, <1>2, <1>8, <1>9, <1>14, <2>1 DEF CountInv, Still
<1> QED
  BY <1>6, <1>10, <1>11, <1>12, <1>13, <1>14

\* The bound on the counter survives every step, a restart included.
LEMMA CountStep == TypeOK /\ TypeOK' /\ EpochInv /\ CountInv /\ [Next]_vars => CountInv'
<1> SUFFICES ASSUME TypeOK, TypeOK', EpochInv, CountInv, [Next]_vars PROVE CountInv'
  OBVIOUS
<1>1. ASSUME NEW r \in Requests, Handler(r), ~ScaleFault(r) PROVE CountInv'
  BY <1>1, CountByThread
<1>2. ASSUME Crash \/ \E r \in Requests : ScaleFault(r) PROVE CountInv'
  <2>1. /\ UNCHANGED <<boot, bootIds, simulationNum, frame>>
        /\ \A q \in Requests : pc'[q] = IF pc[q] \in Running THEN "lost" ELSE pc[q]
    BY <1>2 DEF Crash, ScaleFault, Die, globals
  <2>2. /\ Bound \in Nat /\ Bound' \in Nat /\ Bound <= Bound'
        /\ \A b \in 1..boot : /\ Cardinality(Served(b)) \in Nat /\ Cardinality(Served(b))' \in Nat
                              /\ Cardinality(Served(b)) <= Cardinality(Served(b))'
    BY <2>1, MoreCounted
  <2>3. ASSUME NEW q \in Requests PROVE CountsThread(q)'
    <3>1. pc'[q] = pc[q] \/ pc'[q] = "lost"
      BY <2>1
    <3> QED
      BY <2>1, <2>2, <3>1, CountedKept DEF CountInv
  <2>4. simulationNum' <= Bound'
    BY <2>1, <2>2 DEF CountInv, TypeOK
  <2> QED
    BY <2>3, <2>4 DEF CountInv
<1>3. CASE Boot
  <2>1. PICK m : simulationNum' = m /\ bootIds' = Append(bootIds, m)
    BY <1>3 DEF Boot
  <2>2. ~up /\ boot' = boot + 1 /\ UNCHANGED <<pc, frame>>
    BY <1>3 DEF Boot
  <2>3. simulationNum' \in Nat /\ bootIds \in Seq(Nat) /\ Len(bootIds) = boot /\ boot \in Nat \ {0}
    BY DEF TypeOK
  <2>4. bootIds'[boot'] = simulationNum' /\ \A b \in 1..boot : bootIds'[b] = bootIds[b]
    BY <2>1, <2>2, <2>3
  <2>5. Advanced' \subseteq Requests /\ IsFiniteSet(Advanced')
    BY RequestsAssumption, FS_Subset DEF Advanced, Served
  <2>6. simulationNum' <= Bound'
    BY <2>3, <2>4, <2>5, FS_CardinalityType DEF Bound, Base
  <2>7. ASSUME NEW q \in Requests PROVE CountsThread(q)'
    <3>1. CountsThread(q) /\ pc[q] \notin Running /\ pc'[q] = pc[q] /\ frame'[q] = frame[q]
      BY <2>2 DEF CountInv, EpochInv, ThreadAboveBase
    <3>2. frame[q].boot \in 0..boot' /\ (frame[q].boot > 0 => frame[q].boot \in 1..boot)
      BY <2>2, <2>3, <3>1 DEF CountsThread
    <3>3. \A b : Served(b)' = Served(b)
      BY <2>2 DEF Served
    <3> QED
      BY <2>4, <3>1, <3>2, <3>3 DEF CountsThread, Running
  <2> QED
    BY <2>6, <2>7 DEF CountInv
<1>4. CASE UNCHANGED vars
  <2>1. UNCHANGED <<boot, bootIds, simulationNum, pc, frame>>
    BY <1>4 DEF vars, process, globals
  <2>2. Bound' = Bound /\ \A b : Served(b)' = Served(b)
    BY <2>1 DEF Bound, Base, Advanced, Served
  <2>3. ASSUME NEW q \in Requests PROVE CountsThread(q)'
    BY <2>1, <2>2 DEF CountInv, CountsThread
  <2> QED
    BY <2>1, <2>2, <2>3 DEF CountInv
<1> QED
  BY <1>1, <1>2, <1>3, <1>4 DEF Next, Idle

\* At first the counter is 0 and no thread has advanced.
LEMMA CountInit == Init => CountInv
<1> SUFFICES ASSUME Init PROVE CountInv
  OBVIOUS
<1>1. \A r \in Requests : pc[r] = "idle" /\ frame[r].boot = 0
  BY DEF Init, EmptyFrame
<1>2. Advanced = {} /\ Base = 0 /\ simulationNum = 0 /\ boot = 1
  BY <1>1 DEF Init, Advanced, Served, Base
<1>3. Bound = 0
  BY <1>2, FS_EmptySet DEF Bound
<1> QED
  BY <1>1, <1>2, <1>3 DEF CountInv, CountsThread

-----------------------------------------------------------------------------
(***************************************************************************)
(* What parseSnippet read from the counter stays within the same bound.    *)
(***************************************************************************)
StampsOf(r) ==
  \A k \in DOMAIN frame[r].ids : frame[r].boot > 0 /\ GivenOutSince(frame[r].ids[k], frame[r].boot)

StampInv == \A r \in Requests : StampsOf(r)

\* A handler starts without stamps, adds the counter to them, or leaves them alone.
LEMMA StampsByThread ==
  ASSUME TypeOK, NEW r \in Requests, Handler(r)
  PROVE  \/ pc[r] = "idle" /\ frame'[r].ids = <<>>
         \/ /\ pc[r] = "parse"
            /\ frame'[r].boot = frame[r].boot
            /\ frame'[r].ids = Append(frame[r].ids, simulationNum)
         \/ frame'[r].boot = frame[r].boot /\ frame'[r].ids = frame[r].ids
<1> DEFINE f == frame[r]
<1> DEFINE Same(g) == g.boot = f.boot /\ g.ids = f.ids
<1>0. f \in Frames /\ frame \in [Requests -> Frames]
  BY DEF TypeOK
<1> USE DEF Step, Goto, Keep
<1>1. \A v : /\ Same([f EXCEPT !.loaded = v]) /\ Same([f EXCEPT !.option = v]) /\ Same([f EXCEPT !.id = v])
             /\ Same([f EXCEPT !.query = v]) /\ Same([f EXCEPT !.rows = v])
             /\ \A w : Same([f EXCEPT !.reply = v, !.rows = w])
  BY <1>0 DEF Frames
<1>2. CASE Accept(r)
  BY <1>0, <1>2 DEF Accept, EmptyFrame
<1>3. CASE ParseSnippet(r)
  <2>1. pc[r] = "parse" /\ frame'[r] = [f EXCEPT !.ids = Append(f.ids, simulationNum)]
    BY <1>0, <1>3 DEF ParseSnippet
  <2> QED BY <1>0, <2>1 DEF Frames
<1>4. CASE LoadCounter(r)
  <2>1. \E v : frame'[r] = [f EXCEPT !.loaded = v]
    BY <1>0, <1>4 DEF LoadCounter
  <2> QED BY <1>1, <2>1
<1>5. CASE ReadOption(r)
  <2>1. \E v : frame'[r] = [f EXCEPT !.option = v]
    BY <1>0, <1>5 DEF ReadOption
  <2> QED BY <1>1, <2>1
<1>6. CASE PassId(r)
  <2>1. \E v : frame'[r] = [f EXCEPT !.id = v]
    BY <1>0, <1>6 DEF PassId
  <2> QED BY <1>1, <2>1
<1>7. CASE PassQuery(r)
  <2>1. \E v : frame'[r] = [f EXCEPT !.query = v]
    BY <1>0, <1>7 DEF PassQuery
  <2> QED BY <1>1, <2>1
<1>8. CASE InsertMetric(r) \/ InsertSnippet(r)
  <2>1. \E v : frame'[r] = [f EXCEPT !.rows = v]
    BY <1>0, <1>8 DEF InsertMetric, InsertSnippet
  <2> QED BY <1>1, <2>1
<1>9. CASE ReadReplyId(r)
  <2>1. \E v, w : frame'[r] = [f EXCEPT !.reply = v, !.rows = w]
    BY <1>0, <1>9 DEF ReadReplyId
  <2> QED BY <1>1, <2>1
<1>10. CASE frame' = frame
  BY <1>10
<1> QED
  BY <1>2, <1>3, <1>4, <1>5, <1>6, <1>7, <1>8, <1>9, <1>10
  DEF Handler, QueryParserMain, HandleOther, StoreCounter, OptionFault, SetQueryNum, Estimate, ScaleFault, Die,
      InsertLog, Reply

\* The requests a start has accepted are not forgotten, nor where its counter began.
LEMMA ServedGrows ==
  ASSUME TypeOK, CountInv, [Next]_vars
  PROVE  /\ \A q \in Requests : frame[q].boot # 0 => frame'[q].boot = frame[q].boot
         /\ \A b \in 1..boot : bootIds'[b] = bootIds[b]
<1>1. /\ bootIds \in Seq(Nat) /\ Len(bootIds) = boot /\ boot \in Nat \ {0}
      /\ \A q \in Requests : pc[q] = "idle" => frame[q].boot = 0
  BY DEF TypeOK, CountInv, CountsThread
<1>2. ASSUME NEW r \in Requests, Handler(r)
      PROVE  /\ \A q \in Requests : frame[q].boot # 0 => frame'[q].boot = frame[q].boot
             /\ bootIds' = bootIds
  <2>1. CASE ScaleFault(r)
    BY <2>1 DEF ScaleFault, Die
  <2>2. CASE ~ScaleFault(r)
    BY <1>1, <1>2, <2>2, OthersKept, StampsByThread DEF process
  <2> QED BY <2>1, <2>2
<1>3. CASE Crash
  BY <1>3 DEF Crash, Die
<1>4. CASE Boot
  <2>1. frame' = frame /\ \E m \in Nat : bootIds' = Append(bootIds, m)
    BY <1>4 DEF Boot, TypeOK, LogRows
  <2> QED BY <1>1, <2>1
<1>5. CASE UNCHANGED vars
  BY <1>5 DEF vars, process
<1> QED
  BY <1>2, <1>3, <1>4, <1>5 DEF Next, Idle

\* What was given out since a start remains so.
LEMMA GivenOutStays ==
  ASSUME TypeOK, CountInv, [Next]_vars
  PROVE  \A n \in Nat : \A b \in 1..boot : GivenOutSince(n, b) => GivenOutSince(n, b)'
<1> SUFFICES ASSUME NEW n \in Nat, NEW b \in 1..boot, GivenOutSince(n, b)
             PROVE  GivenOutSince(n, b)'
  OBVIOUS
<1>1. Served(b) \subseteq Served(b)' /\ Served(b) \subseteq Requests /\ Served(b)' \subseteq Requests
  <2>1. b # 0
    BY DEF TypeOK
  <2> QED BY <2>1, ServedGrows DEF Served
<1>2. /\ Cardinality(Served(b)) \in Nat /\ Cardinality(Served(b)') \in Nat
      /\ Cardinality(Served(b)) <= Cardinality(Served(b)')
  BY <1>1, RequestsAssumption, FS_Subset, FS_CardinalityType
<1>3. bootIds'[b] = bootIds[b] /\ bootIds[b] \in Nat
  BY ServedGrows DEF TypeOK
<1>4. n > bootIds[b] /\ n <= bootIds[b] + Cardinality(Served(b))
  BY DEF GivenOutSince, Served
<1>5. n > bootIds'[b] /\ n <= bootIds'[b] + Cardinality(Served(b)')
  BY <1>2, <1>3, <1>4
<1> QED BY <1>5 DEF GivenOutSince, Served

\* The counter a running thread reads past its own increment was given out since
\* the start.
LEMMA CounterGivenOut ==
  ASSUME TypeOK, EpochInv, CountInv, NEW r \in Requests, pc[r] \in PastStore
  PROVE  frame[r].boot = boot /\ GivenOutSince(simulationNum, boot)
<1>1. frame[r].boot = boot /\ Base < simulationNum /\ simulationNum <= Bound
  BY DEF EpochInv, ThreadAboveBase, CountInv, PastStore, Running
<1>2. simulationNum \in Nat /\ Base \in Nat /\ boot \in Nat \ {0}
  BY DEF TypeOK, Base
<1>3. Bound \in Nat /\ Bound <= Base + Cardinality(Served(boot)) /\ Cardinality(Served(boot)) \in Nat
  <2>1. Advanced \subseteq Served(boot) /\ Served(boot) \subseteq Requests
    BY DEF Advanced, Served
  <2>2. IsFiniteSet(Served(boot)) /\ IsFiniteSet(Advanced)
    BY <2>1, RequestsAssumption, FS_Subset
  <2>3. /\ Cardinality(Served(boot)) \in Nat /\ Cardinality(Advanced) \in Nat
        /\ Cardinality(Advanced) <= Cardinality(Served(boot))
    BY <2>1, <2>2, FS_Subset, FS_CardinalityType
  <2> QED BY <1>2, <2>3 DEF Bound
<1>4. simulationNum <= Base + Cardinality(Served(boot))
  BY <1>1, <1>2, <1>3
<1> QED
  BY <1>1, <1>4 DEF GivenOutSince, Base, Served

\* The same of any step.
LEMMA StampsByStep ==
  ASSUME TypeOK, [Next]_vars, NEW q \in Requests
  PROVE  \/ frame'[q].ids = <<>>
         \/ /\ pc[q] = "parse"
            /\ frame'[q].boot = frame[q].boot
            /\ frame'[q].ids = Append(frame[q].ids, simulationNum)
         \/ frame'[q].boot = frame[q].boot /\ frame'[q].ids = frame[q].ids
<1>1. ASSUME NEW r \in Requests, Handler(r), q # r
      PROVE  frame'[q] = frame[q]
  <2>1. CASE ScaleFault(r)
    BY <2>1 DEF ScaleFault, Die
  <2>2. CASE ~ScaleFault(r)
    BY <1>1, <2>2, OthersKept
  <2> QED BY <2>1, <2>2
<1>2. Crash \/ Boot \/ Idle \/ UNCHANGED vars => frame' = frame
  BY DEF Crash, Die, Boot, Idle, vars
<1>3. CASE Handler(q)
  BY <1>3, StampsByThread
<1> QED BY <1>1, <1>2, <1>3 DEF Next

\* No step stamps a snippet with an id of another run.
LEMMA StampStep == TypeOK /\ EpochInv /\ CountInv /\ StampInv /\ [Next]_vars => StampInv'
<1> SUFFICES ASSUME TypeOK, EpochInv, CountInv, StampInv, [Next]_vars, NEW q \in Requests
             PROVE  StampsOf(q)'
  BY DEF StampInv
<1> DEFINE ids == frame[q].ids
<1>1. /\ frame[q].boot \in 0..boot /\ ids \in Seq(Nat) /\ boot \in Nat \ {0} /\ simulationNum \in Nat
      /\ \A k \in DOMAIN ids : frame[q].boot > 0 /\ GivenOutSince(ids[k], frame[q].boot)
  BY FrameFields DEF TypeOK, CountInv, CountsThread, StampInv, StampsOf
<1>2. \A k \in DOMAIN ids : ids[k] \in Nat /\ frame[q].boot \in 1..boot
  BY <1>1
<1>3. \A n \in Nat : \A b \in 1..boot : GivenOutSince(n, b) => GivenOutSince(n, b)'
  BY GivenOutStays
<1> HIDE DEF ids
<1>4. CASE frame'[q].ids = <<>>
  BY <1>4 DEF StampsOf
<1>5. CASE frame'[q].boot = frame[q].boot /\ frame'[q].ids = frame[q].ids
  BY <1>1, <1>2, <1>3, <1>5 DEF StampsOf, GivenOutSince, ids
<1>6. CASE /\ pc[q] = "parse"
           /\ frame'[q].boot = frame[q].boot
           /\ frame'[q].ids = Append(ids, simulationNum)
  <2>1. frame[q].boot = boot /\ GivenOutSince(simulationNum, boot)
    BY <1>6, CounterGivenOut DEF PastStore
  <2>2. \A k \in DOMAIN frame'[q].ids : \/ frame'[q].ids[k] = simulationNum
                                        \/ k \in DOMAIN ids /\ frame'[q].ids[k] = ids[k]
    BY <1>1, <1>6
  <2>3. \A k \in DOMAIN frame'[q].ids : /\ frame'[q].ids[k] \in Nat
                                        /\ GivenOutSince(frame'[q].ids[k], boot)
    BY <1>1, <1>2, <2>1, <2>2
  <2>4. boot \in 1..boot /\ boot > 0
    BY <1>1
  <2> QED BY <1>3, <1>6, <2>1, <2>3, <2>4 DEF StampsOf, GivenOutSince
<1> QED BY <1>4, <1>5, <1>6, StampsByStep DEF ids

\* At first there is no stamp.
LEMMA StampInit == Init => StampInv
<1> SUFFICES ASSUME Init, NEW r \in Requests PROVE DOMAIN frame[r].ids = {}
  BY DEF StampInv, StampsOf
<1>1. frame[r].ids = <<>>
  BY DEF Init, EmptyFrame
<1> QED BY <1>1

\* However the increments race and overwrite each other, the answer of a start and
\* the ids of its snippets are above the counter it began with by no more than the
\* requests it accepted.
THEOREM IdsOfThisRun == Spec => []IdsFromThisRun
<1>1. Init => TypeOK /\ EpochInv /\ CountInv /\ StampInv
  BY TypeInit, EpochInit, CountInit, StampInit
<1>2. TypeOK /\ EpochInv /\ CountInv /\ StampInv /\ [Next]_vars
        => TypeOK' /\ EpochInv' /\ CountInv' /\ StampInv'
  BY TypeStep, EpochStep, CountStep, StampStep
<1>3. TypeOK /\ FilingInv /\ CountInv /\ StampInv => IdsFromThisRun
  <2> SUFFICES ASSUME TypeOK, FilingInv, CountInv, StampInv PROVE IdsFromThisRun
    OBVIOUS
  <2>1. \A r \in Requests : pc[r] = "replied" => GivenOutSince(frame[r].reply, frame[r].boot)
    BY DEF CountInv, CountsThread, GivenOutSince, Served
  <2>2. ASSUME NEW row \in snippets PROVE GivenOutSince(row.id, frame[row.req].boot)
    <3>1. row.req \in Requests /\ row \in SnippetsOf(row.req)
      BY DEF TypeOK, SnippetRows, SnippetsOf
    <3>2. frame[row.req].ids \in Seq(Nat)
      BY <3>1, FrameFields
    <3>3. row.work \in DOMAIN frame[row.req].ids /\ row.id = frame[row.req].ids[row.work]
      BY <3>1, <3>2 DEF FilingInv, Filed, FiledUnderOwnId
    <3> QED BY <3>1, <3>3 DEF StampInv, StampsOf
  <2> QED BY <2>1, <2>2 DEF IdsFromThisRun
<1> QED
  BY <1>1, <1>2, <1>3, FilingSafety, PTL DEF Spec
=============================================================================
