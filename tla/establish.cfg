SPECIFICATION FairSpec
CONSTANTS
  Peer = {a, b}
  A = a
  B = b
  MinDepth <- MCMinDepth
  ANNOSIGS_CONFIRM = 2
  FundingSat = 2
  PushSat = {0, 1}
  MaxOpens = 2
  MaxDepth = 2
  MaxDrops = 2
  MaxCrashes = 1
  MaxRejects = 1
CHECK_DEADLOCK FALSE
INVARIANTS RefundSecured TermsAgree NormalWhenDeep AnnouncedByBoth OpenSurvives
PROPERTY EventuallyLocked
