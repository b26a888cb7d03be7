\* Programmatic logins of two clients, and everything that ends a session; the
\* issuer is configured, so op passes RevokeToken the ids of refresh tokens, too.
\* No symmetry: the run checks a liveness property.
CONSTANTS
  Subs         = {u1}
  Clients      = {c1, c2}
  AnyClient    = any
  StaticIssuer = TRUE
  Reqs         = {r1, r2}
  Traffic      = {"grant", "access", "logout", "revocation"}
  MaxSessions  = 2
  AccessTTL    = 0
  Lifetimes    = {1}
  Leeway       = 0
  MaxIds       = 4
  MaxTime      = 1
SPECIFICATION FairSpec
CHECK_DEADLOCK FALSE
PROPERTIES
  SessionIsolation
  LogoutCompletes
