----------------------------- MODULE CSDValidator -----------------------------
(***************************************************************************)
(* CSDValidatorTemp after executeQEMU has returned (module QEMUHandler):   *)
(* the loop that asks getFilteredRow for each scan and adds up rows, the   *)
(* factors that scale the time of the exchange, the metrics in the reply,  *)
(* StorageValidatorMain, and the rows of validation_csd_metric.  Times,    *)
(* network usage and weights are figures nothing depends on and are left   *)
(* out; what an INSERT that fails means is in ValidatorService.            *)
(***************************************************************************)
EXTENDS StorageValidator

CONSTANT CsdCounts    \* csd_count of an option

ASSUME CsdCountsAssumption == CsdCounts \subseteq Nat \ {0}

VARIABLES
  csdCount,
  stage,       \* "scan", "reply" or "storage"
  scanAt,      \* the snippet the first loop is at
  snippetInfo, \* the snippets, as est in StorageValidator
  rows,        \* scannedrow, filteredrow, over10000row and suppCount
  scale,       \* qemuScannedRatio, and the factor for the number of CSDs
  reply,       \* metrics in the reply, per CSD the class of its CPU weight
  metrics      \* rows inserted into validation_csd_metric

csdVars == <<csdCount, stage, scanAt, snippetInfo, rows, scale, reply, metrics>>

CSDInit ==
  /\ StorageInit
  /\ csdCount \in CsdCounts
  /\ stage = "scan" /\ scanAt = 1
  /\ snippetInfo = [k \in DOMAIN plan |-> Parsed(k)]
  /\ rows = [scanned |-> 0, filtered |-> 0, over10000 |-> 0, supp |-> 0]
  /\ scale = [ratio |-> 0, factor |-> 0]
  /\ reply = <<>> /\ metrics = <<>>

Over10000 == {"lineitem", "orders", "part", "partsupp", "customer"}

\* Mutant: the running total is added to itself.
RowsAfterTwice(k) ==
  LET table == plan[k].in[1]
  IN  [scanned |-> 2 * rows.scanned + TableRows[table], filtered |-> rows.filtered + RowsKept(k),
       over10000 |-> rows.over10000 + (IF table \in Over10000 THEN 1 ELSE 0),
       supp |-> rows.supp + (IF table = "supplier" THEN 1 ELSE 0)]

RowsAfter(k) ==
  LET table == plan[k].in[1]
  IN  [scanned |-> rows.scanned + TableRows[table], filtered |-> rows.filtered + RowsKept(k),
       over10000 |-> rows.over10000 + (IF table \in Over10000 THEN 1 ELSE 0),
       supp |-> rows.supp + (IF table = "supplier" THEN 1 ELSE 0)]

\* Mutant: only the loop's copy of the snippet is written.
LocalEstimate(k) == snippetInfo

Estimated(k) == [snippetInfo EXCEPT ![k] = ScanEstimate(k)]

ScanNext ==
  /\ stage = "scan" /\ scanAt <= Len(plan)
  /\ scanAt' = scanAt + 1
  /\ IF scanAt \in Scans THEN rows' = RowsAfter(scanAt) /\ snippetInfo' = Estimated(scanAt)
                         ELSE UNCHANGED <<rows, snippetInfo>>
  /\ UNCHANGED <<storageVars, csdCount, stage, scale, reply, metrics>>

\* Mutant: QEMU's tables have ten times as many rows.
QemuRowsTenfold == 100000 * rows.over10000 + 1250 * rows.supp

\* QEMU's tables have 10000 rows at most, supplier has 1250, and nation and
\* region do not count.
QemuScannedRow == 10000 * rows.over10000 + 1250 * rows.supp

(***************************************************************************)
(* Both divisions are of ints.  With nothing but nation and region scanned *)
(* the first would divide by zero; an option without CSDs is in            *)
(* ValidatorService (ScaleFault).                                          *)
(***************************************************************************)
ScaleTime ==
  /\ stage = "scan" /\ scanAt > Len(plan)
  /\ QemuScannedRow > 0
  /\ scale' = [ratio |-> rows.scanned \div QemuScannedRow, factor |-> 8 \div csdCount]
  /\ stage' = "reply"
  /\ UNCHANGED <<storageVars, csdCount, scanAt, snippetInfo, rows, reply, metrics>>

ReplyWeight ==
  CASE query \in {1, 2, 3, 4, 9, 11, 16, 17, 18, 20, 22} -> "red"
    [] query \in {6, 7, 10, 19} -> "orange"
    [] query \in {5, 8, 14, 15, 21} -> "green"
    [] query = 12 -> "yellow"
    [] OTHER -> "13"

\* csdCount has become the factor: the reply has so many entries.  Then
\* StorageValidatorMain is called.
ReplyAndCall ==
  /\ stage = "reply"
  /\ reply' = [k \in 1..scale.factor |-> ReplyWeight]
  /\ stage' = "storage"
  /\ Called(snippetInfo)
  /\ UNCHANGED <<csdCount, scanAt, snippetInfo, rows, scale, metrics>>

StorageValidatorMain == stage = "storage" /\ StorageLoop /\ UNCHANGED csdVars

\* Mutant: query 22 has no branch of its own.
RowWeightWithout22 ==
  CASE query \in {1, 2, 4, 9, 11, 16, 17, 18, 20} -> "red"
    [] query \in {6, 7, 10, 19} -> "orange"
    [] query \in {5, 8, 14, 15, 21} -> "unset"
    [] query \in {3, 12} -> "yellow"
    [] OTHER -> "13"

\* The branch for the green weight compares, so that cpuUsage stays unset.
RowWeight ==
  CASE query \in {1, 2, 4, 9, 11, 16, 17, 18, 20, 22} -> "red"
    [] query \in {6, 7, 10, 19} -> "orange"
    [] query \in {5, 8, 14, 15, 21} -> "unset"
    [] query \in {3, 12} -> "yellow"
    [] OTHER -> "13"

InsertMetric ==
  /\ stage = "storage" /\ i > Len(plan) /\ Len(metrics) < csdCount
  /\ metrics' = Append(metrics, RowWeight)
  /\ UNCHANGED <<storageVars, csdCount, stage, scanAt, snippetInfo, rows, scale, reply>>

CSDNext == ScanNext \/ ScaleTime \/ ReplyAndCall \/ StorageValidatorMain \/ InsertMetric

CSDFinished == Len(metrics) = csdCount

-----------------------------------------------------------------------------
\* A hundred times the rows scanned and filtered, which are printed as ints,
\* fit: query 21 scans lineitem three times and stays just below.
PrintedRowsFit == rows.scanned <= MaxInt \div 100 /\ rows.filtered <= MaxInt \div 100

\* What a plan has to be like for that, if no filter keeps more than its table
\* has: the rows its first so many snippets scan, up to all of them.
ScannedBy(p) ==
  LET total[n \in 0..Len(p)] ==
        IF n = 0 THEN 0
        ELSE total[n - 1] + (IF p[n].type = "CSD_Scan" THEN TableRows[p[n].in[1]] ELSE 0)
  IN  total

ScansLittle(p) == ScannedBy(p)[Len(p)] <= MaxInt \div 100

ScansOf(p, tables) == {k \in DOMAIN p : p[k].type = "CSD_Scan" /\ p[k].in[1] \in tables}

QemuRowsOf(p) == 10000 * Cardinality(ScansOf(p, Over10000)) + 1250 * Cardinality(ScansOf(p, {"supplier"}))

\* Cutting the quotient of scanned rows and QEMU's rows to an integer takes less
\* than two in a hundred from the time of any plan.
CutLosesLittle ==
  scale.ratio > 0 \/ stage \notin {"scan", "reply"} =>
    scale.ratio * QemuScannedRow >= (rows.scanned \div 100) * 98

\* What a plan has to be like for that, whatever the option and the filters.
CutIsSmall(p) ==
  LET scanned == ScannedBy(p)[Len(p)]
  IN  QemuRowsOf(p) > 0 => (scanned \div QemuRowsOf(p)) * QemuRowsOf(p) >= (scanned \div 100) * 98

(***************************************************************************)
(* The two chains of conditions give a CSD the same CPU weight in the      *)
(* reply and in validation_csd_metric, but for query 3, and for the five   *)
(* queries whose row is left unset.                                        *)
(***************************************************************************)
RowsAgreeWithReply ==
  query # 3 =>
    \A k \in DOMAIN metrics : metrics[k] # "unset" => \E n \in DOMAIN reply : reply[n] = metrics[k]
=============================================================================
