CONSTANTS
  E = E
  Main = Main
  P = P
  Child = Child
  Q = Q
  NoUnit = NoUnit
  Units <- MCUnits
  Parent <- MCParent
  Required = E
  Libraries <- MCLibraries
  Unreadable <- MCUnreadable
  CommandLines <- MCCommandLines
SPECIFICATION FairSpec
INVARIANTS TypeOK SpecsComeFirst NothingMissing
PROPERTY LoadingEnds
CHECK_DEADLOCK FALSE
