\* Two handler threads, option reads may fail, one crash; every kind of option and statement.
CONSTANTS
  Requests = {r1, r2}
  Statements <- MCStatements
  QueryOfKnown <- MCQueryOfKnown
  SnippetCount <- MCSnippetCount
  OptionIds <- MCOptionIds
  OptionTable <- MCOptionTable
  HandlerThreads = 2
  FaultySql = {"option"}
  MaxCrashes = 1
SPECIFICATION FairSpec
INVARIANTS
  CompleteWhenAnswered
  DetailFollowsLog
PROPERTY
  EveryRequestEnds
