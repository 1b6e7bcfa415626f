SPECIFICATION Spec
CONSTANTS
  TextA = TextA
  TextB = TextB
  Vars = {TextA, TextB}
  DirectVars = {}
  TextModes = {"in", "out"}
  PoolSize = 2
  Names = {report}
  Scratch = Scratch
  MaxOpenings = 3
SYMMETRY Handles
INVARIANT ReachesOwnFile
CHECK_DEADLOCK FALSE
