------------------------------ MODULE Estimators ------------------------------
(***************************************************************************)
(* QueryParserMain calls one estimator for a plan, by the storage type of  *)
(* the option.  Both ask getFilteredRow for the same scans.                *)
(***************************************************************************)
EXTENDS CSDValidator, SSDValidator

VARIABLE storageType

vars == <<storageVars, csdVars, ssdVars, storageType>>

Init == CSDInit /\ SSDInit /\ storageType \in {"csd", "ssd"}

Validate_CSD == storageType = "csd" /\ CSDNext /\ UNCHANGED <<ssdVars, storageType>>

Validate_SSD == storageType = "ssd" /\ SSDNext /\ UNCHANGED <<storageVars, csdVars, storageType>>

Answered == IF storageType = "csd" THEN CSDFinished ELSE SSDFinished

Done == Answered /\ UNCHANGED vars

Next == Validate_CSD \/ Validate_SSD \/ Done

Spec == Init /\ [][Next]_vars

-----------------------------------------------------------------------------
\* Every variable of the two estimators stays in its domain.
TypeOK ==
  /\ StorageTypeOK
  /\ csdCount \in CsdCounts
  /\ stage \in {"scan", "reply", "storage"}
  /\ scanAt \in 1..(Len(plan) + 1) /\ ssdAt \in 1..(Len(plan) + 1)
  /\ rows \in [DOMAIN rows -> Nat] /\ scale \in [{"ratio", "factor"} -> Nat]
  /\ Len(metrics) <= csdCount
  /\ tableList = [k \in 1..(ssdAt - 1) |-> plan[k].alias]
  /\ Len(tableRowList) <= Cardinality(Scans)

(***************************************************************************)
(* CSDValidatorTemp calls StorageValidatorMain with what it expects: a     *)
(* snippet vector in which every scan has its row count, ratio and table,  *)
(* and nothing else has changed.  It calls it once, and nothing else       *)
(* disturbs its loop.                                                      *)
(***************************************************************************)
ImplementsStorage == StorageSpec
=============================================================================
