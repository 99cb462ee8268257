SPECIFICATION Spec
CONSTANTS
  Validations <- OneValidation
  Id <- OneId
  Scans <- Query15
  Chunks = 1
  MayCloseEarly = FALSE
INVARIANT SoughtKeyIsOwn
