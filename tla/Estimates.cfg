SPECIFICATION Spec
CONSTANTS
  Plans <- Catalogue
  TableRows <- Tables
  Ratios <- KeptBy
  CsdCounts = {1, 2, 3, 4, 5, 6, 7, 8}
  Beyond <- Stray
INVARIANTS
  TypeOK
  InputsResolved
  WithinLargestTable
  RowsLeft
  ProductsFit
  PrintedRowsFit
  CutLosesLittle
  RowsAgreeWithReply
  OwnRowsAggregated
  AggregatedRowsFit
PROPERTY ImplementsStorage
