SPECIFICATION Spec
CONSTANTS
  Blocks = {}
  NoBlock = NoBlock
  None = None
  StorageError = StorageError
  ProgramError = ProgramError
  ConstraintError = ConstraintError
  Exceptions = {StorageError, ProgramError, ConstraintError}
  HandlerSets <- NamedOrOthers
  MaxFrames = 1
  MaxOpen = 7
INVARIANTS
  OccurrencesNamed
PROPERTIES
  DeliversExceptions
CHECK_DEADLOCK FALSE
