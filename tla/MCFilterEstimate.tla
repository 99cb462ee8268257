-------------------------- MODULE MCFilterEstimate --------------------------
(***************************************************************************)
(* Every filter of the plans, over columns of three values with one of     *)
(* three distributions each.                                               *)
(***************************************************************************)
EXTENDS FilterEstimate, FilteredColumns

ThreeDistributions == {<<1, 1, 2>>, <<2, 0, 4>>, <<0, 1, 1>>}

FiveEighths == Frac(5, 8)
OneTwentieth == Frac(1, 20)

\* The theorems of FilterEstimateProofs are about filters of this form: all of the plans'.
ASSUME PlansAssumption == \A f \in ToSet(PlanFilters) : WellFormed(f) /\ Positioned(f) /\ Sound(f)

\* The histograms are as the model takes them; HistogramTable shows what they come from.
ASSUME CatalogueAssumption == ColumnsFit /\ FilteredFit(Identifiers, Understated)

\* The last filter: a substring and its list.
SubstringFilter == <<PlanFilters[28]>>
=============================================================================
