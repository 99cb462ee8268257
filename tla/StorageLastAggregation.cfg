SPECIFICATION Spec
CONSTANTS
  Plans <- FirstPlan
  TableRows <- Tables
  Ratios <- KeptBy
  CsdCounts = {1}
  Beyond <- Stray
PROPERTY LastAggregationIsFree
