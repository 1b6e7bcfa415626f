CONSTANTS
  E = E
  Main = Main
  P = P
  Child = Child
  Q = Q
  NoUnit = NoUnit
  Units <- MCUnits
  Parent <- MCParent
  Required = E
  Libraries <- ParentAndChild
  Unreadable = {}
  CommandLines <- MainAlone
SPECIFICATION Spec
INVARIANT ReadOnce
CHECK_DEADLOCK FALSE
