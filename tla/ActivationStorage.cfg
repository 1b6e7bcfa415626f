SPECIFICATION Spec
CONSTANTS
  Blocks = {b1, b2}
  NoBlock = NoBlock
  None = None
  StorageError = ProgramError
  ProgramError = ProgramError
  ConstraintError = ConstraintError
  Exceptions = {ProgramError, ConstraintError}
  HandlerSets <- NamedOnly
  MaxFrames = 2
  MaxOpen = 4
SYMMETRY BlockSymmetry
INVARIANTS
  TypeOK
  HeapAccounted
  ExactReclaim
  CheckpointsLive
CHECK_DEADLOCK FALSE
