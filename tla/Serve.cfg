\* Every configuration file of MCServe in turn, and two requests at a time.
CONSTANTS
  Disk            <- MCDisk
  Origins         <- MCOrigins
  Colours         <- MCColours
  SigningKeys     <- MCSigningKeys
  Dotted          <- MCDotted
  CaseFolding     <- MCCaseFolding
  DefaultPrefix   <- MCDefaultPrefix
  DefaultLifetime <- MCDefaultLifetime
  Files           <- MCFiles
  Strays          <- MCStrays
  Unpatternable   <- MCUnpatternable
  Compressible    <- MCCompressible
  MaxRequests     = 2
SPECIFICATION FairSpec
CHECK_DEADLOCK FALSE
INVARIANTS
  TypeOK
  NamedPersonaIsMeant
  EveryPersonaIsShown
  HintsIgnoreCase
  ReferencesAreServed
  HonestResponses
  GracefulMeansDrained
PROPERTIES
  ServeEnds
