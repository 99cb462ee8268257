SPECIFICATION FairSpec
CONSTANTS
  Validations <- TwoValidations
  Id <- TwoIds
  Scans <- ShortPlans
  Chunks = 2
  MayCloseEarly = TRUE
PROPERTIES
  LookupsEnd
  BlocksConsumed
