\* Two personas, two requests at a time: hinted and posted selections race,
\* reloads race redemptions, eviction races everything.
CONSTANTS
  Subs    = {u1, u2}
  NoHint  = none
  Reqs    = {r1, r2}
  TTL     = 1
  MaxIds  = 4
  MaxTime = 2
SPECIFICATION Spec
SYMMETRY Symmetry
CHECK_DEADLOCK FALSE
INVARIANTS
  TypeOK
  CodesIndexRequests
  OnePersonaPerLogin
  AnsweredLoginIsGone
PROPERTIES
  YoungFlowsSurvive
