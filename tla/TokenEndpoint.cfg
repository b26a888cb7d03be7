SPECIFICATION Spec
CONSTANTS
  Procs = {p1, p2}
  Configs <- MCConfigs
  Requests <- MCRequests
  Name <- MCName
  Text <- MCText
  Wire <- MCWire
  QueryEscape <- MCQueryEscape
  QueryUnescape <- MCQueryUnescape
  Undecodable = Undecodable
  ConfigArray = ConfigArray
SYMMETRY Symmetry
INVARIANTS
  TypeOK
  OpNeverPanics
  CredentialsDecide
  AudienceParity
  IdTokenNamesItsClient
  AccessTokensOmitStandardClaims
  ScopeMapAddsNoStandardClaim
  CodesNeedProof
  IntrospectionIsAuthenticated
CHECK_DEADLOCK FALSE
