\* Three handler threads, option reads and log INSERTs may fail, one crash.
CONSTANTS
  Requests = {r1, r2, r3}
  Statements <- MCOther
  QueryOfKnown <- MCNoneKnown
  SnippetCount <- MCSnippetCount
  OptionIds = {1}
  OptionTable <- MCCsdOnly
  HandlerThreads = 3
  FaultySql = {"option", "log"}
  MaxCrashes = 1
SPECIFICATION Spec
SYMMETRY Symmetry
INVARIANTS
  TypeOK
  EpochsDisjoint
  IdsFromThisRun
  OneIdPerValidation
