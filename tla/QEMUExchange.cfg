SPECIFICATION Spec
CONSTANTS
  Validations <- TwoValidations
  Id <- TwoIds
  Scans <- TwoPlans
  Chunks = 1
  MayCloseEarly = FALSE
INVARIANTS
  TypeOK
  NoForeignTime
  ReadyIsUsed
  CountedIsPublished
