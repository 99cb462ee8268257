-------------------------- MODULE ValidatorService --------------------------
(***************************************************************************)
(* One validator server: the REST handler threads that run                 *)
(* QueryParserMain, the two process-wide globals they share without a lock *)
(* (simulationNum and queryNum), and the MariaDB tables they write.        *)
(*                                                                         *)
(* A thread is the request it serves.  Every read and every write of a     *)
(* global is a step of its own, in the order of the source, and so is      *)
(* every statement sent to the database.  The numbers an estimate is made  *)
(* of are not modelled here: a row keeps the columns that say which        *)
(* request it belongs to and under which validation_id it was filed.       *)
(***************************************************************************)
EXTENDS Naturals, Sequences, FiniteSets

CONSTANTS
  Requests,         \* HTTP requests, each served at most once
  Statements,       \* values of the Query_Statement field
  QueryOfKnown,     \* the statements getSnippetInfo recognises, and their query
  SnippetCount,     \* query -> number of snippets of its plan
  OptionIds,        \* values of the Option_ID field
  OptionTable,      \* the rows of validation_option, by option_id
  HandlerThreads,   \* requests the HTTP library serves at once
  FaultySql,        \* kinds of SQL statements that may throw SQLException
  MaxCrashes        \* bound: crashes of the process from outside

QueryNumbers == 1..22

StorageKinds == {"csd", "ssd", ""}

SqlKinds == {"option", "log", "metric", "snippet"}

ASSUME RequestsAssumption == IsFiniteSet(Requests)

ASSUME StatementsAssumption ==
  /\ DOMAIN QueryOfKnown \subseteq Statements
  /\ \A s \in DOMAIN QueryOfKnown : QueryOfKnown[s] \in QueryNumbers
  /\ SnippetCount \in [QueryNumbers -> Nat \ {0}]

ASSUME OptionsAssumption ==
  /\ DOMAIN OptionTable \subseteq OptionIds
  /\ OptionIds \subseteq Nat
  /\ \A o \in DOMAIN OptionTable :
        OptionTable[o] \in [storage : StorageKinds, csdCount : Nat]

ASSUME BoundsAssumption ==
  /\ HandlerThreads \in Nat \ {0}
  /\ FaultySql \subseteq SqlKinds
  /\ MaxCrashes \in Nat

VARIABLES
  up,               \* the server process runs
  boot,             \* history: how often it was started
  bootIds,          \* history: simulationNum as InitQueryParser left it, by boot
  crashes,          \* history: crashes from outside so far
  simulationNum,    \* global: the last validation_id given out
  queryNum,         \* global: the TPC-H query parsed last
  pc,               \* where the thread of each request stands
  frame,            \* its local variables
  log,              \* table validation_log
  metrics,          \* table validation_csd_metric
  snippets          \* table validation_snippet

process == <<up, boot, bootIds, crashes>>
globals == <<simulationNum, queryNum>>
tables  == <<log, metrics, snippets>>
vars    == <<process, globals, pc, frame, tables>>

(***************************************************************************)
(* The locals of a handler: what it parsed from the request, the id it     *)
(* loaded to increment, the option it read, the ids its snippets carry,    *)
(* the two globals as passed to the validator, the rows written so far and *)
(* the id it answers with.  "boot" is history: the start that served it.   *)
(***************************************************************************)
NoRow == [storage |-> "", csdCount |-> 0]

EmptyFrame ==
  [boot |-> 0, statement |-> "", optionId |-> 0,
   loaded |-> 0, option |-> NoRow, ids |-> <<>>,
   id |-> 0, query |-> 11, rows |-> 0, reply |-> 0]

Frames ==
  [boot : Nat, statement : Statements \union {""}, optionId : OptionIds \union {0},
   loaded : Nat, option : [storage : StorageKinds, csdCount : Nat],
   ids : Seq(Nat), id : Nat, query : QueryNumbers, rows : Nat, reply : Nat]

Running ==
  {"load", "store", "option", "parse", "setQuery", "passId", "passQuery", "estimate",
   "log", "metric", "replyId", "snippet", "reply"}

Ended == {"replied", "error", "lost", "unanswered"}

InFlight == {r \in Requests : pc[r] \in Running}

Goto(r, next) == pc' = [pc EXCEPT ![r] = next]

Step(r, from, next) ==
  /\ up
  /\ pc[r] = from
  /\ Goto(r, next)

Keep(r, locals) == frame' = [frame EXCEPT ![r] = locals]

\* The query getSnippetInfo takes a statement for: its last branch has no test.
Recognised(statement) ==
  IF statement \in DOMAIN QueryOfKnown THEN QueryOfKnown[statement] ELSE 22

PlanLength(r) == SnippetCount[Recognised(frame[r].statement)]

(***************************************************************************)
(* The first start, on empty tables.                                       *)
(***************************************************************************)
Init ==
  /\ up = TRUE
  /\ boot = 1
  /\ bootIds = <<0>>
  /\ crashes = 0
  /\ simulationNum = 0
  /\ queryNum = 11
  /\ pc = [r \in Requests |-> "idle"]
  /\ frame = [r \in Requests |-> EmptyFrame]
  /\ log = {} /\ metrics = {} /\ snippets = {}

(***************************************************************************)
(* handle_post: POST /validator/run enters QueryParserMain.  Every other   *)
(* request is handled by an empty body and never answered.                 *)
(***************************************************************************)
Accept(r) ==
  /\ Step(r, "idle", "load")
  /\ Cardinality(InFlight) < HandlerThreads
  /\ \E s \in Statements, o \in OptionIds :
       Keep(r, [EmptyFrame EXCEPT !.boot = boot, !.statement = s, !.optionId = o])
  /\ UNCHANGED <<process, globals, tables>>

HandleOther(r) ==
  /\ Step(r, "idle", "unanswered")
  /\ Cardinality(InFlight) < HandlerThreads
  /\ UNCHANGED <<process, globals, frame, tables>>

\* simulationNum++ : a load and a store, and any thread may run in between.
LoadCounter(r) ==
  /\ Step(r, "load", "store")
  /\ Keep(r, [frame[r] EXCEPT !.loaded = simulationNum])
  /\ UNCHANGED <<process, globals, tables>>

StoreCounter(r) ==
  /\ Step(r, "store", "option")
  /\ simulationNum' = frame[r].loaded + 1
  /\ UNCHANGED <<process, queryNum, frame, tables>>

\* getOptionInfo.  An unknown option_id yields no row, and the fields stay unset.
ReadOption(r) ==
  /\ Step(r, "option", "parse")
  /\ LET o == frame[r].optionId
     IN  Keep(r, [frame[r] EXCEPT
                    !.option = IF o \in DOMAIN OptionTable THEN OptionTable[o] ELSE NoRow])
  /\ UNCHANGED <<process, globals, tables>>

\* Its SQLException is not caught: the HTTP library answers with an error.
OptionFault(r) ==
  /\ "option" \in FaultySql
  /\ Step(r, "option", "error")
  /\ UNCHANGED <<process, globals, frame, tables>>

\* parseSnippet stamps the snippet with the global as it is now.
ParseSnippet(r) ==
  LET ids == Append(frame[r].ids, simulationNum)
  IN  /\ Step(r, "parse", IF Len(ids) = PlanLength(r) THEN "setQuery" ELSE "parse")
      /\ Keep(r, [frame[r] EXCEPT !.ids = ids])
      /\ UNCHANGED <<process, globals, tables>>

\* Mutant: a branch of getSnippetInfo without its last assignment.
KeepQueryNum(r) ==
  /\ Step(r, "setQuery", "passId")
  /\ UNCHANGED <<process, globals, frame, tables>>

\* Mutant: a last branch that reports no query.
SetQueryNumOrNone(r) ==
  /\ Step(r, "setQuery", "passId")
  /\ queryNum' = IF frame[r].statement \in DOMAIN QueryOfKnown THEN Recognised(frame[r].statement) ELSE 0
  /\ UNCHANGED <<process, simulationNum, frame, tables>>

SetQueryNum(r) ==
  /\ Step(r, "setQuery", "passId")
  /\ queryNum' = Recognised(frame[r].statement)
  /\ UNCHANGED <<process, simulationNum, frame, tables>>

(***************************************************************************)
(* The call of the CSD or the SSD validator passes both globals by value;  *)
(* the compiler evaluates the arguments from the last to the first.        *)
(***************************************************************************)
PassId(r) ==
  /\ Step(r, "passId", "passQuery")
  /\ Keep(r, [frame[r] EXCEPT !.id = simulationNum])
  /\ UNCHANGED <<process, globals, tables>>

PassQuery(r) ==
  /\ Step(r, "passQuery", "estimate")
  /\ Keep(r, [frame[r] EXCEPT !.query = queryNum])
  /\ UNCHANGED <<process, globals, tables>>

OnCsd(r) == frame[r].option.storage = "csd"

\* Mutant: the metric rows are inserted before StorageValidatorMain is called.
EstimateLogLast(r) ==
  /\ Step(r, "estimate", IF OnCsd(r) THEN "metric" ELSE "log")
  /\ OnCsd(r) => frame[r].option.csdCount # 0
  /\ UNCHANGED <<process, globals, frame, tables>>

\* The estimates; on the CSD path they divide 8 by csd_count.
Estimate(r) ==
  /\ Step(r, "estimate", "log")
  /\ OnCsd(r) => frame[r].option.csdCount # 0
  /\ UNCHANGED <<process, globals, frame, tables>>

(***************************************************************************)
(* The process is gone: every thread with it, the tables stay.             *)
(***************************************************************************)
Die ==
  /\ up' = FALSE
  /\ pc' = [r \in Requests |-> IF pc[r] \in Running THEN "lost" ELSE pc[r]]
  /\ UNCHANGED <<boot, bootIds, globals, frame, tables>>

ScaleFault(r) ==
  /\ up
  /\ pc[r] = "estimate" /\ OnCsd(r) /\ frame[r].option.csdCount = 0
  /\ Die
  /\ UNCHANGED crashes

Crash ==
  /\ up
  /\ crashes < MaxCrashes
  /\ crashes' = crashes + 1
  /\ Die

LogRow(r) ==
  [req |-> r, boot |-> frame[r].boot, id |-> frame[r].id, query |-> frame[r].query,
   storage |-> IF OnCsd(r) THEN "csd" ELSE "ssd"]

\* Mutant: the rows of the loop read the global instead of the argument.
MetricRowFromGlobal(r, csd) == [req |-> r, id |-> simulationNum, csd |-> csd]

MetricRow(r, csd) == [req |-> r, id |-> frame[r].id, csd |-> csd]

\* Mutant: the snippets are stamped with the counter as it was before the increment.
SnippetRowOldId(r, k) == [req |-> r, id |-> frame[r].loaded, work |-> k]

SnippetRow(r, k) == [req |-> r, id |-> frame[r].ids[k], work |-> k]

\* An INSERT that throws is caught and forgotten: the row is missing, the thread goes on.
Stored(kind, row, table) == {table \union {row}} \union (IF kind \in FaultySql THEN {table} ELSE {})

InsertLog(r) ==
  /\ Step(r, "log", IF OnCsd(r) THEN "metric" ELSE "replyId")
  /\ log' \in Stored("log", LogRow(r), log)
  /\ UNCHANGED <<process, globals, frame, metrics, snippets>>

\* Mutant: the loop over the CSDs stops one too early.
InsertMetricButLast(r) ==
  LET next == frame[r].rows + 1
  IN  /\ next <= frame[r].option.csdCount
      /\ Step(r, "metric", IF next + 1 >= frame[r].option.csdCount THEN "replyId" ELSE "metric")
      /\ metrics' \in Stored("metric", MetricRow(r, frame[r].rows), metrics)
      /\ Keep(r, [frame[r] EXCEPT !.rows = next])
      /\ UNCHANGED <<process, globals, log, snippets>>

\* Mutant: the loop over the CSDs without its increment.
InsertMetricAgain(r) ==
  /\ frame[r].rows < frame[r].option.csdCount
  /\ Step(r, "metric", IF frame[r].rows + 1 = frame[r].option.csdCount THEN "replyId" ELSE "metric")
  /\ metrics' \in Stored("metric", MetricRow(r, frame[r].rows), metrics)
  /\ UNCHANGED <<process, globals, frame, log, snippets>>

\* One row per CSD of the option; its count is not 0, or ScaleFault ended the process.
InsertMetric(r) ==
  LET next == frame[r].rows + 1
  IN  /\ next <= frame[r].option.csdCount
      /\ Step(r, "metric", IF next = frame[r].option.csdCount THEN "replyId" ELSE "metric")
      /\ metrics' \in Stored("metric", MetricRow(r, frame[r].rows), metrics)
      /\ Keep(r, [frame[r] EXCEPT !.rows = next])
      /\ UNCHANGED <<process, globals, log, snippets>>

\* Mutant: answers with the value of simulationNum++, which is the one before it.
ReadOldReplyId(r) ==
  /\ Step(r, "replyId", "snippet")
  /\ Keep(r, [frame[r] EXCEPT !.reply = frame[r].loaded, !.rows = 0])
  /\ UNCHANGED <<process, globals, tables>>

\* The answer is made from the global again, and from nothing else.
ReadReplyId(r) ==
  /\ Step(r, "replyId", "snippet")
  /\ Keep(r, [frame[r] EXCEPT !.reply = simulationNum, !.rows = 0])
  /\ UNCHANGED <<process, globals, tables>>

\* InsertSnippetDB
InsertSnippet(r) ==
  LET next == frame[r].rows + 1
  IN  /\ next <= Len(frame[r].ids)
      /\ Step(r, "snippet", IF next = Len(frame[r].ids) THEN "reply" ELSE "snippet")
      /\ snippets' \in Stored("snippet", SnippetRow(r, next), snippets)
      /\ Keep(r, [frame[r] EXCEPT !.rows = next])
      /\ UNCHANGED <<process, globals, log, metrics>>

Reply(r) ==
  /\ Step(r, "reply", "replied")
  /\ UNCHANGED <<process, globals, frame, tables>>

(***************************************************************************)
(* main and InitQueryParser: the counter starts at max(validation_id).     *)
(***************************************************************************)
\* Mutant: the id of some row, as a SELECT without max() returns.
SomeLogged(m) ==
  \/ log = {} /\ m = 0
  \/ \E row \in log : m = row.id

MaxLogged(m) ==
  \/ log = {} /\ m = 0
  \/ \E row \in log : m = row.id /\ \A other \in log : other.id <= m

Boot ==
  /\ ~up
  /\ up' = TRUE
  /\ boot' = boot + 1
  /\ \E m \in {0} \union {row.id : row \in log} :
       /\ MaxLogged(m)
       /\ simulationNum' = m
       /\ bootIds' = Append(bootIds, m)
  /\ queryNum' = 11
  /\ UNCHANGED <<crashes, pc, frame, tables>>

\* Nothing left to serve.
Idle ==
  /\ \A r \in Requests : pc[r] \in Ended
  /\ UNCHANGED vars

QueryParserMain(r) ==
  \/ LoadCounter(r) \/ StoreCounter(r)
  \/ ReadOption(r) \/ OptionFault(r)
  \/ ParseSnippet(r) \/ SetQueryNum(r)
  \/ PassId(r) \/ PassQuery(r)
  \/ Estimate(r) \/ ScaleFault(r)
  \/ InsertLog(r) \/ InsertMetric(r)
  \/ ReadReplyId(r) \/ InsertSnippet(r)

Handler(r) == Accept(r) \/ HandleOther(r) \/ QueryParserMain(r) \/ Reply(r)

Next ==
  \/ \E r \in Requests : Handler(r)
  \/ Crash
  \/ Boot
  \/ Idle

Spec == Init /\ [][Next]_vars

\* A thread the operating system keeps scheduling, and a database that answers or throws.
Fairness == \A r \in Requests : WF_vars(QueryParserMain(r) \/ Reply(r))

FairSpec == Spec /\ Fairness

-----------------------------------------------------------------------------
(***************************************************************************)
(* Types.                                                                  *)
(***************************************************************************)
LogRows == [req : Requests, boot : Nat, id : Nat, query : QueryNumbers, storage : {"csd", "ssd"}]
MetricRows == [req : Requests, id : Nat, csd : Nat]
SnippetRows == [req : Requests, id : Nat, work : Nat]

\* Every variable stays in its domain, and the boots are counted without gaps.
TypeOK ==
  /\ up \in BOOLEAN
  /\ boot \in Nat \ {0}
  /\ bootIds \in Seq(Nat) /\ Len(bootIds) = boot
  /\ crashes \in Nat
  /\ simulationNum \in Nat
  /\ queryNum \in QueryNumbers
  /\ pc \in [Requests -> {"idle"} \union Running \union Ended]
  /\ frame \in [Requests -> Frames]
  /\ log \subseteq LogRows
  /\ metrics \subseteq MetricRows
  /\ snippets \subseteq SnippetRows

(***************************************************************************)
(* Whatever the threads do to each other and whichever statements fail.    *)
(***************************************************************************)

\* A validation_id filed since some start of the server is larger than the
\* counter that start began with, and one filed before it is not: however the
\* unlocked increments of QueryParserMain race, no id of an earlier run of the
\* process is filed again in validation_log.
EpochsDisjoint ==
  \A row \in log :
    /\ row.boot \in 1..boot
    /\ \A b \in 1..boot : (row.id > bootIds[b]) <=> (row.boot >= b)

\* n was made since the b-th start, by one of the requests it accepted.
GivenOutSince(n, b) ==
  /\ n > bootIds[b]
  /\ n <= bootIds[b] + Cardinality({q \in Requests : frame[q].boot = b})

\* The id a client is answered with, and every id its snippets are filed under,
\* was made since the start that served it, and by one of the requests that start
\* accepted: ReadReplyId and ParseSnippet read the shared counter while others
\* move it, back too, but never a value left over from the tables.
IdsFromThisRun ==
  /\ \A r \in Requests : pc[r] = "replied" => GivenOutSince(frame[r].reply, frame[r].boot)
  /\ \A row \in snippets : GivenOutSince(row.id, frame[row.req].boot)

\* The log row and the metric rows of one request are filed under one id, though
\* the global may change between the INSERTs: both use the id passed by value.
OneIdPerValidation ==
  \A row \in log, m \in metrics : row.req = m.req => row.id = m.id

\* When the client has its answer every row of its validation has been offered
\* to the database: only a statement that failed can be missing.
CompleteWhenAnswered ==
  \A r \in Requests : pc[r] = "replied" =>
    /\ "log" \notin FaultySql => \E row \in log : row.req = r
    /\ "metric" \notin FaultySql /\ OnCsd(r) =>
         {m.csd : m \in {m \in metrics : m.req = r}} = 0 .. frame[r].option.csdCount - 1
    /\ "snippet" \notin FaultySql =>
         {s.work : s \in {s \in snippets : s.req = r}} = 1 .. PlanLength(r)

\* A crash leaves a prefix of a validation behind, in the order of the INSERTs:
\* the detail rows of a validation are never without its validation_log row.
DetailFollowsLog ==
  "log" \notin FaultySql =>
    \A detail \in metrics \union snippets : \E row \in log : row.req = detail.req

\* Every request handed to QueryParserMain ends: with an answer, with an error
\* or with the process.  Nothing it waits for depends on another thread.
EveryRequestEnds ==
  \A r \in Requests : pc[r] = "load" ~> pc[r] \in Ended

(***************************************************************************)
(* One handler at a time, and a database that files every log row.         *)
(***************************************************************************)

Rows == log \union metrics \union snippets

\* Two rows filed under one validation_id describe the same request, whichever
\* of the three tables they are in and however often the server was restarted.
IdNamesOneRequest ==
  \A x, y \in Rows : x.id = y.id => x.req = y.req

\* The answer names the row that describes the caller's own statement and option.
AnswerNamesOwnRow ==
  \A r \in Requests : pc[r] = "replied" =>
    \E row \in log :
      /\ row.req = r
      /\ row.id = frame[r].reply
      /\ row.query = Recognised(frame[r].statement)
      /\ row.storage = "csd" <=> OnCsd(r)
=============================================================================
