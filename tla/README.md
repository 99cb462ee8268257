# A TLA+ development of KETI-Validator

KETI-Validator estimates how long a TPC-H query would take when its scans run
on computational storage devices (CSDs) or on ordinary SSDs. A REST server takes
a validation request, reads the query's plan from JSON snippets, estimates rows,
times and resource use, files the result in MariaDB and answers with an id under
which a web client later reads the tables. One estimate is not computed but
measured: scans are sent to an emulated CSD (QEMU), which returns blocks of rows
with execution times.

This directory holds the specification of that program: modules that follow its
C++ sources, TLC configurations that check them on small instances, and proofs
for all instances of nearly everything the runs find to hold: the ids and rows of a
validation, the refinement of its ledger, the exchange with the CSD, the queue, the
estimators, the walk over a filter and the histograms.
`PROJECT.json` maps every definition to the lines it stands for and lists
components, runs, mutants, findings, hazards and theorems.

    tlc -config ServiceSerial.cfg MCValidatorService.tla     # one run
    tlapm ValidatorServiceProofs.tla                         # one proof module


## 1. The system

### Components

| component | sources | state | operations | modelled in |
|---|---|---|---|---|
| Query parser and REST handler | `RestHandler.*`, `QueryParser.*` | globals `simulationNum`, `queryNum` (no lock) | `handle_post`, `InitQueryParser`, `QueryParserMain`, `getOptionInfo`, `getSnippetInfo`, `parseSnippet`, `InsertSnippetDB` | `ValidatorService`, abstractly `ValidationLedger` |
| Database access | `DBManager.hpp` | one shared connection; the tables | `executeQuery`, `executeUpdate` | steps of `ValidatorService` |
| Plan catalogue | `snippet/`, read by `QueryParser.cpp` | none (files) | one list of snippets per query | `SnippetCatalogue`, `ScanFilters` |
| CSD scan exchange | `QEMUHandler.*`, `executeQEMU` in `CSDValidator.cpp` | `resultMap` (shared, no lock), `rowCountMap`, sockets | `executeQEMU`, `CalculateQEMU`, `inputQEMUHandler` | `QEMUHandler` |
| CSD estimate | `CSDValidator.cpp` | none | `CSDValidatorTemp` | INSERTs in `ValidatorService`, the rest in `CSDValidator` |
| Storage estimate | `StorageValidator.cpp` | locals of one call | `StorageValidatorMain` | `StorageValidator` |
| Filter estimate | `HistogramTable.cpp`, `parseSnippet` | locals of one call; read-only histograms | `getFilteredRow` | `FilterEstimate` |
| SSD estimate | `SSDValidator.cpp` | none | `SSDValidatorTemp`, `executeSSDValidate` | INSERT in `ValidatorService`, the loop in `SSDValidator` |
| Work queue | `internal_queue.hpp` | queue, mutex, condition variable | `push_work`, `wait_and_pop` | `KQueue` |
| Histogram data | `HistogramTable.cpp` | one record per column, written at start-up | `InitHistogram`, `makeDataMap`, `makeDataMapFloat`, `makeDataMapDate` | `HistogramCatalogue`, `HistogramTable` |
| Query texts | `convertTPCH1/2` | none | query number to text | no: text |
| Start-up, logging | `main.cpp`, `keti_log.h` | log level | initialisers, a busy loop | start and restart in `ValidatorService.Boot` |
| Build files, copies of snippets | `Makefile`, `cmake/`, ... | - | - | no |

### How they interact

`main` reads the log level, connects to the database, starts the input thread
of `QEMUHandler`, loads the histograms, sets `simulationNum` to
`max(validation_id)` and opens the listener; the HTTP library then runs each
request on a thread of its pool. A POST to `/validator/run` runs
`QueryParserMain` from beginning to end on that thread:

1. `simulationNum++`, an unlocked global;
2. `getOptionInfo` reads `validation_option`;
3. `getSnippetInfo` parses the files of the plan, stamps each snippet with the
   global as it is then, and sets the global `queryNum`;
4. the CSD or the SSD validator is called with both globals by value. The CSD one
   exchanges the scans with the emulator (`executeQEMU`), calls
   `StorageValidatorMain`, which walks over the plan and inserts the
   `validation_log` row, and inserts one `validation_csd_metric` row per CSD; the
   SSD one inserts the `validation_log` row;
5. the answer is made from the global `simulationNum`, read again;
   `InsertSnippetDB` inserts the `validation_snippet` rows; the answer is sent.

Failed INSERTs are caught and forgotten; a failed read of the option is not
caught. The handlers and the input thread meet in `resultMap`.

### What is hard here

* **Interleaving.** Two globals and an `unordered_map` without locks. The id that
  names a validation is read from a global again and again while one request runs.
* **Ordering and partial failure.** Rows of one validation go to three tables in
  several statements, each of which may be lost without a trace.
* **Crash and restart.** The counter is rebuilt from the table it feeds; the
  measured times are not persisted at all.
* **Time.** The lookup of a measured time gives up after three polls with no
  pause, usually long before the scan has answered.
* **Positions.** Filter estimates, connectors, work ids and inputs are matched by
  index arithmetic over flat lists, which has to agree with how the lists were made.
* **Numbers.** `int` products of row counts, `8 / csdCount`, ratios from
  histograms whose totals differ from the table constants.

### What makes each component correct

* *Service:* an id never names two validations, before or after a restart; the
  caller is answered with the id of its own rows; rows are complete when it is
  answered and form a prefix when the process dies; every request ends.
* *Exchange:* a time returned was measured for that validation and scan; a time
  that is there is used; everything that arrives is counted; no call hangs.
* *Queue:* first in first out, each item once, no lost wake-up.
* *Storage estimate:* names resolve to one input; estimates stay within the
  tables and above zero; products do not overflow.
* *Filter estimate:* the walk reads each comparison once with its own operands,
  connectors stay between what they connect, and the result is the share of rows
  that satisfy the filter.
* *CSD and SSD estimate:* `StorageValidatorMain` is handed the snippets it expects;
  sums and quotients stay within an `int`; what is answered and what is stored
  agree; an aggregation is charged for the rows it reads.
* *Histogram data:* no bucket is lost to another with its key; each column a filter
  compares has its own buckets; a bucket is on the right side of a bound.


## 2. Modules

An arrow points at the module that is extended or instantiated.

    ValidationLedger <-- SerialService   (what clients of the result tables rely on)
    ValidatorService <-- SerialService <-- MCValidatorService
                     <-- ValidatorServiceProofs <-- FilingProofs
    SerialService, FilingProofs <-- SerialServiceProofs

    QEMUHandler <-- MCQEMUHandler        KQueue <-- KQueueProofs
                <-- QEMUHandlerProofs

    PlanEstimates <-- StorageValidator <-- CSDValidator <-- Estimators
                  <-- SSDValidator <----------------------- Estimators
    Estimators, SnippetCatalogue <-- MCEstimators     Estimators <-- EstimatorsProofs

    ScanFilters, HistogramCatalogue <-- FilteredColumns <-- HistogramTable <-- HistogramTableProofs
    FilteredColumns, FilterEstimate <-- MCFilterEstimate
    FilterEstimate                  <-- FilterEstimateProofs

### ValidatorService

A thread is the request it serves: `pc[r]` is the statement it stands at and
`frame[r]` its locals. Reads and writes of a global are steps of their own, and
so is every SQL statement, because anything may happen between two of them.

| action | code |
|---|---|
| `Accept`, `HandleOther` | `handle_post`; anything but `/validator/run` has an empty body and gets no answer |
| `LoadCounter`, `StoreCounter` | `simulationNum++` |
| `ReadOption`, `OptionFault` | `getOptionInfo`; an unknown option leaves the fields unset |
| `ParseSnippet`, `SetQueryNum` | `getSnippetInfo`; its last branch has no test, so an unknown statement is query 22 |
| `PassId`, `PassQuery` | the two arguments of the validator call, evaluated last to first |
| `Estimate`, `ScaleFault` | the computation; `8 / csdCount` with no CSDs ends the process |
| `InsertLog`, `InsertMetric`, `ReadReplyId`, `InsertSnippet` | the INSERTs and the answer, in the order of the code |
| `Reply`, `Crash`, `Boot` | the answer sent; the process dies; `InitQueryParser` at the next start |

Rows keep their keys: which request they describe and the id they are filed
under. The figures of an estimate are the subject of the other modules. The
variables `boot` and `bootIds` are history.

`ValidationLedger` is the abstract specification: a validation is filed once,
under an id above all filed before, details are added to filed validations only,
and a client is answered with its own id. `SerialService` maps the server onto it.

### QEMUHandler

`executeQEMU` sends every scan except those of table `region` (a failed
`connect` goes on with the next one) and then looks each up with `calculateQEMU`.
The input thread accepts a connection, receives one block in one or more `recv`
calls, adds its rows to `rowCountMap` and publishes the block in `resultMap` at
a count of 5, 25, 1250 or from 100000 on.

The unlocked `unordered_map` is undefined behaviour, modelled by outcomes: an
insertion takes two steps; a lookup in between may miss an entry that exists;
two overlapping insertions leave the map `damaged`, after which entries may be
missed, insertions lost, and the process may end (`Abort`). It also ends when an `accept` or
a `recv` of the input thread fails (`InputExit`). The default entry
that `operator[]` makes has an uninitialised time: `Garbage`. `CalculateQEMU`,
the wrapper, lacks a `return`; the model has the outcome of the build files kept
in the repository (no optimisation), in which the time is passed on.

The CSD is outside: `flight` holds the blocks it will return, delivered in any
order.

### KQueue

`push_work` (lock, test for empty, push, unlock, notify if it was empty) and
`wait_and_pop` (lock, wait while empty, pop), with spurious wake-ups. The queue is a
member of `QEMUHandler`; no code calls it at this commit, so that what is checked here is
what the class promises to its first caller, and no hazard of the running program;
`is_empty`,
`get_size` and `qclear`, which use it without the mutex, are left out.

### The estimators

`SnippetCatalogue` lists the snippets of all 22 plans: type, alias, inputs, numbers of
filter entries, of projected columns and of grouping columns. `PlanEstimates` holds
what both estimators share: the plan and, per scan, the ratio `getFilteredRow`
returns. That ratio is a parameter, `Ratios(snippet)`; where it comes from is the
subject of `FilterEstimate`. Ratios are fractions; products of counts are taken in
32-bit `int` arithmetic.

* `StorageValidator` is the call and the loop of `StorageValidatorMain`, one action per
  snippet type, with `est[k]` for the `querySnippetInfo` of snippet k and `calc` for
  the running totals. It is also a specification, `StorageSpec`: of the call it says
  what must have been handed over (`Handed`).
* `CSDValidator` is `CSDValidatorTemp` after `executeQEMU`: `ScanNext` (the loop over
  the scans), `ScaleTime` (the two integer divisions), `ReplyAndCall` (the metrics in
  the reply, then the call with its own `snippetInfo` by value),
  `StorageValidatorMain` (a step of the callee) and `InsertMetric`. Of the CPU
  figures the model keeps which weight is used.
* `SSDValidator` is the loop of `executeSSDValidate` with its two lists. An index past
  the end of `tableRowList` reads something out of `Beyond`.
* `Estimators` puts them side by side as `QueryParserMain` does, by storage type. That
  it implements `StorageSpec` is the property `ImplementsStorage`: the two share the
  callee's variables, so that no mapping is needed.

Four facts these modules are written around: ten plans let an aggregation on SSD
read past the end of a list; `cpuUsage == ...` leaves the rows of five queries unset;
the reply lists `8 / csdCount` CSDs, the table `csdCount`; and the factor is cut, so
that 3 CSDs count as 4, 5 to 7 as 8, and more than 8 make the time 0.

### ScanFilters and FilterEstimate

`ScanFilters` lists the 28 distinct filters of the plans' scans, with values
reduced to ranks. `FilterEstimate` follows one of them from JSON entries to a
ratio: `ParseEntry` flattens it into `filterInfo` as `parseSnippet` does,
`ReadPredicate`, `ReadConnector`, `ReadNot` and `ReadSubstringList` are the walk of
`getFilteredRow` with its index formulas, `CombineOne` is the last loop. Every
token knows its entry, so that the properties can say whether the index met the
right one. The buckets of a column are counted as a set of rows (`RowsIn`), so that
estimates of overlapping sets of values can be compared. `WellFormed`, `Positioned` and
`Sound` say which filters the code is right for: nothing in it checks any of them, and
TLC evaluates that the plans' filters are all three (`PlansAssumption`).

### HistogramCatalogue, FilteredColumns and HistogramTable

`HistogramCatalogue` says of each column, in the order of `InitHistogram`, which fields
are set, which ranges its text lists, which function makes buckets of the text and
which column they are assigned to. `HistogramTable` runs it: `SetFields`, `ReadText`
(into the one string `input`), `MakeBuckets` (a map by key: `makeDataMap` keys a line by its
lower bound, the others by the upper, dates through `dateToInt`). Afterwards
`CompareWithBound` takes a comparison of the plans' filters with a bound of a line and
lets each bucket count or not as the loops of `getFilteredRow` do. `FilteredColumns` says
what the plans' filters need of the catalogue: every column they compare identifies its
rows, or has a text of its own with as many lines as its fields say. `MCFilterEstimate`
evaluates that this is what `FilterEstimate` assumes of its columns, so that the two
models speak of the same histograms.

The catalogue keeps ranges as regular as the texts are, and of the numbers of rows
the sum only. It records what the code has: of 61 columns declared, 57 are set
(`c_address`, `c_nationkey`, `l_suppkey` and `l_linenumber` never are); the text of
`ps_partkey` becomes the buckets of `ps_suppkey`; those of `o_orderpriority` and
`l_linestatus` are assigned to nothing. The texts of `lineitem` count 6,001,215 rows for a
table of 6,000,000, those of `customer` 150,000 for one of 15,000.


## 3. Runs

Every property of a passing run has a mutant in `PROJECT.json`: a small change
of the code's logic under which the run finds the property violated.

| run | instance | states | shows |
|---|---|---|---|
| `service_concurrent` | 3 requests and handlers, 1 CSD, option reads and log INSERTs may fail, 1 crash | 696,294 | `EpochsDisjoint`: ids of different runs of the server never meet in `validation_log`. `IdsFromThisRun`: an answer, and the id of a snippet row, was given out since this start. `OneIdPerValidation`: log and metric rows of a request agree. `TypeOK` |
| `service_durable` | 2 requests, 2 handlers, 2 statements, 4 kinds of option, option reads may fail, 1 crash, fair | 377,182 | `CompleteWhenAnswered`, `DetailFollowsLog`, `EveryRequestEnds` |
| `service_serial` | 3 requests, 1 handler, 2 crashes, option reads and snippet INSERTs may fail | 1,389,204 | `IdNamesOneRequest`, `AnswerNamesOwnRow`, refinement `ImplementsLedger` |
| `qemu_exchange` | 2 validations, 4 scans, blocks that cross a threshold | 2.1 million | `NoForeignTime`, `ReadyIsUsed`, `CountedIsPublished`, `TypeOK` |
| `qemu_progress` | 2 validations, blocks in up to 2 pieces, connections may close early, fair | 89,083 | `LookupsEnd`, `BlocksConsumed` |
| `queue_one_consumer` | 3 producers, 1 consumer, 6 items, fair | 5,578 | `WakeupPending`, `FifoOrder`, `EveryItemTaken`, `TypeOK` |
| `estimates` | all 22 plans on both kinds of storage, real table sizes, each filter keeps a half or a quarter, 1 to 8 CSDs | 48,652 | the call of the storage estimate: `ImplementsStorage`. The storage estimate: `InputsResolved`, `WithinLargestTable`, `RowsLeft`, `ProductsFit`. The CSD estimate: `PrintedRowsFit`, `CutLosesLittle`, `RowsAgreeWithReply`. The SSD estimate: `OwnRowsAggregated`, `AggregatedRowsFit`. `TypeOK` |
| `filter_plans` | 28 filters, columns of 3 values, 3 distributions per column | 4,814 | `ReadsInTurn`, `CombinesByPosition`, `KeepsAShare`, `EstimateIsExact`, `TypeOK` |
| `histograms` | all columns and their texts, every fourth bound | 2,175 | `NoBucketLost`, `FilteredColumnsLoaded`, `SidesKept`, `TypeOK` |
| `qemu_query15` | query 15 alone | | violation of `SoughtKeyIsOwn` (finding 1) |
| `storage_last_aggregation` | query 1 alone | | violation of `LastAggregationIsFree` (finding 2) |
| `filter_substring` | a filter of query 22 | | violation of `SubstringCountsItsList` (finding 3) |

### What the properties leave open

Some hazards are what the code does, and no property of it can exclude them:

* With several handlers an answer, and the id of a snippet row, may be that of another
  request of the same run of the server, and a request may be estimated with the query of
  another. `IdsFromThisRun` says what is left; `IdNamesOneRequest` and
  `AnswerNamesOwnRow` need one handler at a time.
* A row whose INSERT fails is missing without a trace: `CompleteWhenAnswered` and
  `DetailFollowsLog` speak of the tables whose INSERTs do not fail.
* Two scans with one key get each other's times: `NoForeignTime` assumes different ids and,
  for the scan, a plan in which index and work id agree.
* A count that jumps over a threshold is not published; `CountedIsPublished` is about those
  that meet one.
* The input thread spins for ever behind a connection that is closed early.
  `BlocksConsumed` allows it; `LookupsEnd` says that no handler waits for it.
* The index `SSDValidator` uses may lie past the end of its list. `OwnRowsAggregated` says
  the rest are right, `AggregatedRowsFit` limits what is added.

### Bounds

* *Three requests* are enough for one handler to lose the increment of a second
  while a third has already moved the counter on. In the serial run, two crashes
  and three requests give an id that was handed out, never logged and handed out
  again after a restart, followed by one that was logged.
* *Two statements, four options*: a plan of two snippets and the fall-through to
  query 22; CSD, SSD, CSD without CSDs, and no such option. Two CSDs give the metric
  loop a middle.
* *Two validations* in the exchange: keys of one id meet keys of another. The
  scans hit 25 with one block and 100000 with two, and one is of `region`.
  `Chunks` is 2 where the receive loop is the question and 1 elsewhere.
* *The queue*: three producers let one find the queue empty, a second push before
  the first notifies, and a third do so after. That order is kept with several
  consumers too is proved (`QueueIsFifo`).
* *Three values* per column tell below, at and above the value compared with. The
  distributions include an empty bucket at either place.
* A filter in `estimates` keeps a half or a quarter. That of query 3 on
  `customer` may keep twice the table, because the histograms of `customer` count ten
  times its rows.
* *One to eight CSDs* (`CsdCounts`): every value of `8 / csdCount` that is not 0. With more
  the reply has no entry at all, and `RowsAgreeWithReply` has nothing to compare.
* *Memory past a list* (`Beyond`): a count at the limit `executeSSDValidate` tests for,
  a negative and a huge number. The property is about the upper side; a
  negative number passes the test and is added.
* `BoundStep` is 4: bounds are every fourth number among the ends of the lines, which
  meets every position within a line of ten days or of 4 to 800 units. All
  buckets are looked at for each. `Sides` is proved for all bounds.

Deadlock is checked in every run; an `Idle` or `Done` step says where the
system is at rest. The queue has none: a spurious wake-up keeps a waiting consumer
going.

### Fairness

Each handler thread is weakly fair (`QueryParserMain(r) \/ Reply(r)`), since the
operating system keeps scheduling it and the database answers or throws; nothing
makes clients send requests, the process crash or restart. In the exchange,
`executeQEMU` and the input thread are weakly fair, which includes that the CSD
delivers what it has; closing a connection early is not fair, nor is a failing socket
call. In the queue `push_work` and `wait_and_pop` are, and spurious wake-ups are not:
the liveness property must not depend on them.


## 4. Proofs

All constants are arbitrary subject to the named assumptions in the modules.

**`ValidatorServiceProofs`.** `Types` proves `TypeOK`. `EpochSafety` proves
`EpochsDisjoint` for any number of handlers, any failing statements and any
number of crashes. `EpochsDisjoint` alone is not inductive, since it says
nothing of the counter or of ids that threads have read and not yet filed. The
invariant is `EpochInv`:

* `BootsOrdered`: the values the counter started with never exceed the latest,
  and each is 0 or the id of some log row;
* `CounterAboveBase`: while the process runs, the counter is not below the
  value it started with;
* `ThreadAboveBase(r)`: a thread runs only in the current boot; the value it
  loaded is not below the base; once it has stored its increment the counter is
  above the base, and so is the id it was passed.

Lost increments are harmless for this: a store writes a loaded value plus one, and
every loaded value is at least the base. `ThreadStep` is the lemma for steps of one
thread, `EpochsKept` the one for rows added to the log; `Boot` is the only step
that moves the base, and moves it to the maximum of the table.

**`FilingProofs`.** What a request files, for any number of handlers racing on the
counter, crashes and failing statements. The properties are about the end of a
request or about two of its rows, so that the invariant `FilingInv` says of every
request, by where its thread stands, what it has filed:

* `FiledInOrder`: rows of a table exist only from the INSERT of that table on, or
  when the thread went down with the process; without lost log rows details imply
  the log row;
* `FiledUnderOwnId`: log and metric rows bear the id the thread was passed, which
  does not change once it was passed; a snippet row bears the id its snippet was
  stamped with;
* `FiledSoFar`: without lost rows the metric rows are those of the CSDs below the loop
  counter, and so for the snippets.

`OneId`, `Complete` and `DetailNeverAlone` follow. `IdsOfThisRun` needs a bound from
above too: an answer, like the id of a snippet, is read from the global after other handlers have moved it.
`CountInv` says the counter exceeds the value it started with by no more than the
threads that have stored an increment since (`Advanced`, a cardinality, since increments
may be lost). The threads of one run of the server only grow in number, which makes the
bound stable. `StampInv` says the same of the ids `parseSnippet` has read, which
`FilingInv` finds in the snippet rows.

**`SerialServiceProofs`.** With one handler thread and no lost log row (`OneAtATime`),
for any number of requests and crashes and any other failing statement. `SerialInv`:

* `Alone`: one thread runs at most;
* `OwnGlobals`: that thread finds the globals as it left them, and the counter, which
  is its id, above every id in the log until it has filed its own;
* `LogUnique`, `CounterAboveLog`: an id in the log is of one request, and the counter
  is not below it - after a restart too, since it starts with the maximum;
* `OwnRows`: each detail, and the answer, has a log row of its request with its id.

From these `IdNamesRequest` and `AnswerNamesRow`. For the refinement,
`ServiceImplementsLedger`, each step of a thread is matched with one of
`ValidationLedger` (`LedgerByThread`): the log INSERT files a pair above all filed, an
INSERT of a detail adds to a filed pair, the reply answers with the thread's own, and any
other step, a crash and a restart leave the ledger alone.

**`QEMUHandlerProofs`.** For any number of validations with any ids, plans of at
most 100 scans with work ids below 100, any blocks, and every outcome of the unlocked
map. `Types` proves `TypeOK` with `ScanInv` (a call that is not over stands at a scan of
its plan, and has missed less than three times). Then one invariant per property:

* `TimesAreOwn` (`NoForeignTime`): `OwnInv` says a value in the map that is no garbage
  belongs to the key of its node, and a lookup used the key of its scan's index. Two
  blocks have one key only if they have one id and one work id (`KeyInjective`: ids
  times 100 plus less than 100). Validations that share an id share their times; that
  they do not is the subject of the service.
* `ReadyUsed` (`ReadyIsUsed`): `OneNodeInv` says that until two insertions have
  overlapped there is one insertion at a time, into a key without a node, and hence
  one node per key. A lookup that finds the key published then finds that node. In
  a damaged map the property claims nothing.
* `Counted` (`CountedIsPublished`): `CountedInv` says of each key whose count has met a
  threshold that it is published, or is the one the input thread is about to
  publish.

The proofs needed two facts the runs had taken for granted, which `QEMUHandler` now
states in `ValidationsAssumption`: a plan is a sequence with work ids below 100, and the
input thread is none of the validations.

**`KQueueProofs`.** `QueueTypes`, `QueueIsFifo` and `NoLostWakeup`, for any
number of producers and items, the last for one consumer. The invariant `Inv` adds to
the types: which thread can stand where, that the mutex is held exactly between
lock and unlock, and that a consumer about to pop has seen the queue non-empty.
With it `got \o work = sent` is inductive. `WakeupPending` is inductive because
only the consumer empties the queue and it cannot wait and pop at once: a producer
that found the queue empty is the one still to notify.

**`EstimatorsProofs`.** For any plans, tables and ratios. `LoopSafety` proves the
invariant `LoopInv`: `snippetInfo` has the estimates of the scans below `scanAt` and is
as parsed elsewhere (`EstimatedUpTo(scanAt)`). `LoopHandsOver` concludes that past the
last snippet this is what `StorageSpec` expects, `StorageStep` that every step of
either estimator is a step of `StorageSpec` or leaves its variables, and
`EstimatorsImplementStorage` puts them together: `Spec => ImplementsStorage`.
`RowsAgree` proves `RowsAgreeWithReply` if no option has more than 8 CSDs: the
rows inserted all have the class `RowWeight`, the reply has an entry since the factor is
at least 1, and `SameClass` says the two chains of conditions agree outside query 3 and
the unset rows.
`OwnRows` proves `OwnRowsAggregated`. Nothing in the code aligns the two lists, so that it
depends on the plans: `FindsItsRows` says that an aggregation reads one of the scans
the plan begins with, or a snippet whose index is beyond the number of scans. TLC
evaluates that the plans of all queries but 15 are so, and that of query 15 is
not (`PlansFindTheirRows`). The invariant `SSDInv` counts the scans passed and says that up
to the first snippet that is no scan an index means the same in both lists.
`AggregatedFit` proves `AggregatedRowsFit` for any tables, ratios and integers behind the
list: `SumInv` bounds the sum by 6000000 per aggregation passed, and no plan has
more than three (`PlansAggregateLittle`).

The estimates of the storage loop are bounded by `BoundsInv`: behind the loop every
estimate is a number of rows with a fraction for its ratio, before it what was handed
over, and the running top table is no larger than the largest scanned, with ratios of at
most 1, under the condition `Shrinks` (no union, and filters that keep a share).
`LargestBounds` concludes `WithinLargestTable`, `EstimatorTypes` the `TypeOK` of both
estimators; there the condition is only needed where `NOT IN` takes a complement
(`Complements`), since that of a ratio above 1 is negative. `SmallTablesFit` proves
`ProductsFit` if the largest table scanned has at most 3,276,799 rows (`ProductInv`: up to
the last snippet there is one product at most, and the last one adds another to it; dividing
both counts by 100 is enough then). `OneProducer` proves `InputsResolved` for plans
that name their inputs (`NamesItsInputs`).
`TallyInv` says that the loop of `CSDValidatorTemp` has added up exactly the scans it has
passed (`ScannedBy`) and at most as many filtered rows. `PrintedFit` concludes
`PrintedRowsFit` for plans with `ScansLittle`. `CutInv` says the same of the rows of QEMU's
tables, counted as scans of certain tables, and that the factor is the quotient of
the two totals; `CutLittle` concludes `CutLosesLittle` for any options and ratios if the
plan's own quotient is one (`CutIsSmall`).
`MCEstimators` evaluates for which plans these conditions hold: all, but for `OnlyShrinks`,
which queries 7 and 19 miss by their unions. TLC checks `WithinLargestTable` for these two
as well.

**`FilterEstimateProofs`.** For any filters of the form `WellFormed` describes, any values,
distributions and constants: an alternation of comparisons and connectors, a NOT before a
comparison, a list after a substring, and not both of these in one filter; it is what
the index arithmetic of `getFilteredRow` needs, nothing in the code checks it, and TLC
evaluates that all 28 filters of the plans have it (`PlansAssumption`). `Turns` proves
`ReadsInTurn`. `TokensInv` says where in the flat list the strings of each entry are: four
for every comparison before it and one for every entry. `WalkInv` gives the five positions
the walk may be in, each with what `itemp` and the flags are there: before an operand,
before one that is negated, before a connector, before a connector that is lost to the
NOT behind it, before the list of a substring. Each of the four branches leads from a position
to a position (`WalkNot`, `WalkList`, `WalkConnector`, `WalkPredicate`).
`Positions` proves `CombinesByPosition` for filters that are `Positioned` as well: a comparison
adds no estimate exactly where the connector after it is lost, so that the two
mistakes cancel. `PositionsInv` says that estimates and connectors alternate in
`filterRatio` in the order of the entries, and that the number there is odd exactly behind
an entry that was estimated.

`Shares` proves `KeepsAShare`, and `FilterTypes` the types, for filters that are `Sound`
too: a value compared with a column without buckets is one the column has, a second
ordering of a column is the other end of a range whose first end comes before it, a
filter with NOT leaves customer's columns alone, and OR joins different values of one column.
Three steps of the code could exceed a share or go below zero:

* *The two ends of a range.* `Shared` takes 1 from a sum. Together the two ends pass every
  value (`EndsRange`), so that each row is counted by one of them at least (`RowsOfBoth`)
  and the rest is no less than 0 (`SharedShare`) - if the ratio the code finds with
  `2 * duplicateIndex` is that of the other end and has not become 1 already. `PlaceInv`
  therefore says that in a filter without NOT the entry at place n of `filterRatio` is the
  estimate of entry n until its other end is read, `TableInv` and `StepInv` that
  `duplicateIndex` counts the comparisons passed.
* *OR.* It adds ratios. `CombineInv` says that the result is then the share of the values
  seen so far (`ValuesUpTo`), all of one column; since they differ, their rows do
  (`RowsOfBoth`), and all of them are no more than the column counts.
* *All else* is a product of shares (`TimesShare`), each from at most all buckets of its
  column (`InBucketsShare`, `AddedShare`) or a complement of one (`RestShare`).

`SharesStep` goes through the branches of the walk, `CombineStep` through the last
loop. Columns of customer have histograms that count more rows than the table is taken to
have: their ratios are fractions, but `InBucketsShare` does not bound them by 1.

**`HistogramTableProofs`.** For every text that is a set of ranges apart from each other,
with dates in 1992 to 1999, and for every bound, where the run takes every fourth.
`CatalogueAssumption` and `TextsAssumption` say what is used of the catalogue, and TLC
evaluates them. `EveryLineABucket` proves `NoBucketLost`: keys are lower or upper ends, which
ranges apart do not share, or the number `dateToInt` makes of the date of an end, and
`DateOrder` proves that strictly monotone over the days of the eight years (`Years`,
`Months`, `DateParts`: the year, month and day of a day number; `Later`: those of a later
day make the greater number). `Sides` proves `SidesKept` from
`DatesPass`, by which a date passes as text just when the day does as a number.
`HistogramTypes` proves `TypeOK` and `FilteredLoaded` proves `FilteredColumnsLoaded` for every
catalogue with `ColumnsFit` and `FilteredFit`: which histogram the buckets of a text
go to is a matter of the assignment behind it (`to`), not of the column it is listed for, so
that the invariant has to say of each column passed what its fields are and, if only its
own text is assigned to it, its buckets.

The maximum of a set occurs in many definitions, and the library's theorems on it would
need induction with an operator as a parameter; `Least` and `Greatest` take it from the
well-foundedness of `<` on the naturals instead.

**Only model-checked.** The liveness properties (`EveryRequestEnds`, `LookupsEnd`,
`BlocksConsumed`, `EveryItemTaken`): liveness under fairness is beyond the prover.
`RowsLeft` is a fact about these plans, tables and ratios, true of no others in general; so
are `ProductsFit` for the plans that scan lineitem and `WithinLargestTable` for the two with
a union. `EstimateIsExact` compares the result with a sum over all combinations of values,
whose terms are products over the columns: what these folds compute would need induction
over data.


## 5. Findings

1. **The lookup asks for the wrong scan** (`CSDValidator.cpp:467`). Blocks are filed
   under `query * 100 + workID`, the lookup passes the index among the
   CSD_Scan snippets. Queries 15, 18, 19, 20 and 22 have scans at later work
   ids; their times are not found, or are those of another scan.
2. **The last aggregation is computed** (`StorageValidator.cpp:29`), while the
   comment at line 12 says it is not.
3. **A list after SUBSTRING counts as one value** (`QueryParser.cpp:640`): the
   list of query 22 reaches the estimate as its length.

Properties that have to exclude something say so: `RowsLeft` excludes query 15,
which joins two aggregations before any table and is estimated to be empty;
`OwnRowsAggregated` excludes the same query, whose second aggregation gets the rows of
`supplier`; `RowsAgreeWithReply` excludes query 3, which is red in the reply and
yellow in the table, and the rows left unset (queries 5, 8, 14, 15 and 21);
`KeepsAShare` and `EstimateIsExact` exclude columns of `customer`.
`IdNamesOneRequest` and `AnswerNamesOwnRow` hold with one handler at a time and
not with several: increments are lost and the answer is read from the global.
`WakeupPending` and `EveryItemTaken` need one consumer.


## 6. Not modelled, and why

* Logging, wording and layout of answers, JSON and SQL text; the query texts.
* The numbers of rows in a bucket, but for their sum per column; the words of a column of
  strings. Patterns keep their blanks although the buckets have lost them.
* `convertTableFilterFormat` rewrites the filters of a scan for the CSD; the model
  sends the scan, not its text. It sends one value of a comparison, cut to an integer;
  what the CSD makes of it is not in this repository.
* The weights and per-query constants that turn rows and times into CPU and
  power figures: tables of numbers, with nothing to check them against. With them, the
  fallback for a failed exchange of query 6, which tests the number of the validation
  instead of the query (`CSDValidator.cpp:36`) and only touches such a figure.
* Concurrent use of the one database connection and the statements that are not
  freed: the behaviour belongs to the connector. The model has statements that
  store their row or throw.
* `qclear`, `is_empty`, `get_size`, `executeCSDValidate`: no callers.
* In filters: a comparison with the value 12, which `getFilteredRow` takes for
  NOT, and a substring inside a filter with NOT. No filter of the plans has either.


## 7. Plan

Modelled and checked: the life of a validation, the exchange with the CSD, the queue, the
storage, CSD and SSD estimates with their composition, the filters and the histograms.

Proved: all safety properties of the service, the exchange and the queue, the refinements
of the ledger and of the storage estimate, and all of the estimators, the filters and
the histograms but what `Only model-checked` lists, from conditions on the catalogues
that TLC evaluates.

What is left, the most important first:

1. A composition of service and exchange, in which the id handed to
   `executeQEMU` is the racing counter: what remains of `NoForeignTime` when two
   validations share an id, or when a restarted server meets late blocks of
   the one before.
2. `ProductsFit` for the plans that scan lineitem: there it matters which counts meet, so
   that the bound has to be one per snippet of the plan instead of one per plan.
3. `EstimateIsExact` for filters over one column, where it is about one sum.
