SPECIFICATION Spec
CONSTANTS
  Identifiers <- WithoutBuckets
  Understated <- OfCustomer
  BoundStep = 4
INVARIANTS
  TypeOK
  NoBucketLost
  FilteredColumnsLoaded
  SidesKept
