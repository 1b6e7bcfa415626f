CONSTANTS
  E = E
  Main = Main
  P = P
  Child = Child
  Q = Q
  NoUnit = NoUnit
  Units <- MCUnits
  Parent <- MCParent
  Required = E
  Libraries <- TwoPackages
  Unreadable = {}
  CommandLines <- MainAlone
SPECIFICATION Spec
INVARIANT CirclesAreReal
CHECK_DEADLOCK FALSE
