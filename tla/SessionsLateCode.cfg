CONSTANTS
  Subs         = {u1}
  Clients      = {c1}
  AnyClient    = any
  StaticIssuer = FALSE
  Reqs         = {r1}
  Traffic      = {"login"}
  MaxSessions  = 2
  AccessTTL    = 0
  Lifetimes    = {1}
  Leeway       = 0
  MaxIds       = 6
  MaxTime      = 3
SPECIFICATION Spec
CHECK_DEADLOCK FALSE
PROPERTY PrunedSessionHasNoLiveToken
