------------------------- MODULE MCValidatorService -------------------------
(***************************************************************************)
(* Instances of ValidatorService small enough for TLC.  The statements are *)
(* TPC-H_06, whose plan has two snippets, and one getSnippetInfo does not  *)
(* know, which it takes for TPC-H 22 (its plan cut to one snippet here).   *)
(* The options are a CSD option, an SSD option, a CSD option without CSDs  *)
(* and an option_id that has no row.                                       *)
(***************************************************************************)
EXTENDS SerialService, TLC

MCStatements == {"TPC-H_06", "other"}
MCQueryOfKnown == "TPC-H_06" :> 6
MCSnippetCount == [q \in QueryNumbers |-> IF q = 6 THEN 2 ELSE 1]

MCOptionTable ==
  1 :> [storage |-> "csd", csdCount |-> 2] @@
  2 :> [storage |-> "ssd", csdCount |-> 0] @@
  3 :> [storage |-> "csd", csdCount |-> 0]
MCOptionIds == 1..4

MCOther == {"other"}
MCNoneKnown == <<>>

MCCsdOnly == 1 :> [storage |-> "csd", csdCount |-> 1]
MCOptionTable2 == MCCsdOnly @@ 2 :> [storage |-> "ssd", csdCount |-> 0]

Symmetry == Permutations(Requests)
=============================================================================
