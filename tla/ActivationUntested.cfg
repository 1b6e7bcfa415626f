SPECIFICATION Spec
CONSTANTS
  Blocks = {b1}
  NoBlock = NoBlock
  None = None
  StorageError = ProgramError
  ProgramError = ProgramError
  ConstraintError = ConstraintError
  Exceptions = {ProgramError, ConstraintError}
  HandlerSets <- NamedOnly
  MaxFrames = 2
  MaxOpen = 3
INVARIANT InspectedAfterEveryCall
CHECK_DEADLOCK FALSE
