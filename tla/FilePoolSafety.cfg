SPECIFICATION Spec
CONSTANTS
  TextA = TextA
  TextB = TextB
  Vars = {TextA, TextB}
  DirectVars = {}
  TextModes = {"in", "out"}
  PoolSize = 2
  Names = {report}
  Scratch = Scratch
  MaxOpenings = 3
SYMMETRY Handles
INVARIANTS TypeOK StreamsAccounted HandlesKeepTheirFile StandardFilesKept
PROPERTY FailuresChangeNothing
CHECK_DEADLOCK FALSE
