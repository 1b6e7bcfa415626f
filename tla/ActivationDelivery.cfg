SPECIFICATION FairSpec
CONSTANTS
  Blocks = {b1}
  NoBlock = NoBlock
  None = None
  StorageError = ProgramError
  ProgramError = ProgramError
  ConstraintError = ConstraintError
  Exceptions = {ProgramError, ConstraintError}
  HandlerSets <- NamedOnly
  MaxFrames = 2
  MaxOpen = 4
INVARIANTS
  PendingDiscipline
PROPERTIES
  DeliversExceptions
  UnwindingEnds
CHECK_DEADLOCK FALSE
