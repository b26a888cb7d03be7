\* Picker logins of one client: late and concurrent redemptions, forked
\* rotations, logouts and a restart in the middle of any of them.
CONSTANTS
  Subs         = {u1}
  Clients      = {c1}
  AnyClient    = any
  StaticIssuer = FALSE
  Reqs         = {r1, r2}
  Traffic      = {"login", "evict", "refresh", "logout", "restart"}
  MaxSessions  = 2
  AccessTTL    = 0
  Lifetimes    = {1}
  Leeway       = 0
  MaxIds       = 6
  MaxTime      = 2
SPECIFICATION Spec
SYMMETRY Symmetry
CHECK_DEADLOCK FALSE
INVARIANTS
  TypeOK
  SessionCoversToken
  RotationRetires
  LogoutEndsFamily
