\* Two boots' lifetimes, one parse at a time (parses only read, so two cannot meet), a leeway of one tick.
CONSTANTS
  Lifetimes = {1, 2}
  Leeway    = 1
  Parsers   = {p1}
  MaxIds    = 3
  MaxTime   = 4
SPECIFICATION Spec
CHECK_DEADLOCK FALSE
INVARIANTS
  TypeOK
  RevokedUntilExpiry
  ParseHonoursRevocation
