SPECIFICATION Spec
CONSTANTS
  Entities <- AllEntities
  MaxCalls = 3
  MaxSaves = 3
CHECK_DEADLOCK FALSE
INVARIANTS
  EntTypeOK
  InvalidNeverStored
  SavedIsReadBack
PROPERTIES
  CallsAreKept
  OtherColumnsKept
  RefusalsAreExpected
