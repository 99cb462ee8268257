---------------------------- MODULE MCQEMUHandler ----------------------------
(***************************************************************************)
(* Instances of QEMUHandler.  Row counts are those of the TPC-H tables the *)
(* thresholds were chosen for (nation 25) or cross them in several blocks. *)
(***************************************************************************)
EXTENDS QEMUHandler

Read1(work, blocks) == [work |-> work, region |-> FALSE, blocks |-> blocks]
Region(work) == [work |-> work, region |-> TRUE, blocks |-> <<5>>]

\* Two validations at once: a scan in two blocks that reaches 100000 exactly
\* with the second, after a scan of region; and a scan of nation.
TwoValidations == {"v1", "v2"}
TwoIds == [v \in TwoValidations |-> IF v = "v1" THEN 1 ELSE 2]
TwoPlans ==
  [v \in TwoValidations |->
     IF v = "v1" THEN <<Read1(0, <<50000, 50000>>), Read1(1, <<25>>), Region(2)>>
                 ELSE <<Read1(0, <<25>>)>>]

\* The same with one scan each, for the temporal properties.
ShortPlans ==
  [v \in TwoValidations |->
     IF v = "v1" THEN <<Region(0), Read1(1, <<50000, 50000>>)>>
                 ELSE <<Read1(0, <<25>>)>>]

\* One validation of query 15, whose scans have the work ids 0 and 2.
OneValidation == {"v1"}
OneId == [v \in OneValidation |-> 1]
Query15 == [v \in OneValidation |-> <<Read1(0, <<1250>>), Read1(2, <<25>>)>>]
=============================================================================
