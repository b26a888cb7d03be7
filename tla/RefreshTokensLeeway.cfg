CONSTANTS
  Lifetimes = {1}
  Leeway    = 1
  Parsers   = {p1}
  MaxIds    = 3
  MaxTime   = 4
SPECIFICATION Spec
CHECK_DEADLOCK FALSE
INVARIANT PrunedBarsNothing
