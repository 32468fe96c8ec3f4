SPECIFICATION FairSpec
CONSTANTS
  h1 = h1
  h2 = h2
  NumNode = 4
  NumCnl = 4
  Ends <- MCEnds
  OwnCnl = {1, 2}
  Announced = {1, 2, 3}
  Updates <- MCUpdates
  FirstUpdate <- MCFirstUpdate
  Hash = {h1, h2}
  Payee <- MCPayee
  Amount <- MCAmount
  RField <- MCRField
  MinFinalCltv = 9
  HopMax = 3
  SlotMax = 1
  MaxCommands = 2
  MaxEvents = 2
CHECK_DEADLOCK FALSE
INVARIANT PaidOnce
PROPERTIES RoutePays PaymentEnds
