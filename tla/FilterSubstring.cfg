SPECIFICATION Spec
CONSTANTS
  Filters <- SubstringFilter
  Domain = 3
  Identifiers <- WithoutBuckets
  Weights <- ThreeDistributions
  Understated <- OfCustomer
  CompareRatio <- FiveEighths
  NoMatchRatio <- OneTwentieth
INVARIANTS
  SubstringCountsItsList
