\* A configured issuer, and only programmatic logins and revocations.
CONSTANTS
  Subs         = {u1}
  Clients      = {c1, c2}
  AnyClient    = any
  StaticIssuer = TRUE
  Reqs         = {r1}
  Traffic      = {"grant", "revocation"}
  MaxSessions  = 1
  AccessTTL    = 0
  Lifetimes    = {1}
  Leeway       = 0
  MaxIds       = 3
  MaxTime      = 1
SPECIFICATION Spec
SYMMETRY Symmetry
CHECK_DEADLOCK FALSE
PROPERTY ClientIsolation
