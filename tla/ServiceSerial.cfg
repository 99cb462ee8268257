\* One handler thread; option reads and snippet INSERTs may fail; two crashes.
CONSTANTS
  Requests = {r1, r2, r3}
  Statements <- MCStatements
  QueryOfKnown <- MCQueryOfKnown
  SnippetCount <- MCSnippetCount
  OptionIds = {1, 2}
  OptionTable <- MCOptionTable2
  HandlerThreads = 1
  FaultySql = {"option", "snippet"}
  MaxCrashes = 2
SPECIFICATION Spec
SYMMETRY Symmetry
INVARIANTS
  IdNamesOneRequest
  AnswerNamesOwnRow
PROPERTY
  ImplementsLedger
