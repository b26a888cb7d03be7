\* Two devices of one client and a person who may or may not decide: the clock
\* and the devices' polling are fair, the person is not.
CONSTANTS
  Subs       = {u1}
  Clients    = {c1}
  UserCodes  = {k1, k2}
  Browsers   = {b1}
  Lifetime   = 1
  Interval   = 1
  Grace      = 1
  MaxDevices = 2
  MaxTime    = 5
SPECIFICATION FairSpec
CHECK_DEADLOCK FALSE
PROPERTIES
  EveryDeviceIsAnswered
