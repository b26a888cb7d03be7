\* Two devices of two clients, and two people with pages open: the devices may
\* be alive together under two user codes or one after the other under one, and
\* the clock runs past expiry and grace of the first.
CONSTANTS
  Subs       = {u1, u2}
  Clients    = {c1, c2}
  UserCodes  = {k1, k2}
  Browsers   = {b1, b2}
  Lifetime   = 1
  Interval   = 1
  Grace      = 1
  MaxDevices = 2
  MaxTime    = 5
SPECIFICATION Spec
SYMMETRY Symmetry
CHECK_DEADLOCK FALSE
INVARIANTS
  TypeOK
  UserCodesResolve
  TokensAsApproved
  AnswersStand
PROPERTIES
  PageDecidesShownDevice
  ImplementsGrant
