CONSTANTS
  Subs    = {u1}
  NoHint  = none
  Reqs    = {r1, r2}
  TTL     = 1
  MaxIds  = 2
  MaxTime = 0
SPECIFICATION Spec
CHECK_DEADLOCK FALSE
INVARIANT CodesAreSingleUse
