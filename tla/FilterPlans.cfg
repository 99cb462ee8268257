SPECIFICATION Spec
CONSTANTS
  Filters <- PlanFilters
  Domain = 3
  Identifiers <- WithoutBuckets
  Weights <- ThreeDistributions
  Understated <- OfCustomer
  CompareRatio <- FiveEighths
  NoMatchRatio <- OneTwentieth
INVARIANTS
  TypeOK
  ReadsInTurn
  CombinesByPosition
  KeepsAShare
  EstimateIsExact
