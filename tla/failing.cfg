SPECIFICATION Spec
CONSTANTS
  Funder = funder
  Fundee = fundee
  LN_HTLC_MAX = 2
  InitMsat <- MCInitMsat
  InitFee = 2
  MaxHtlc <- MCMaxHtlc
  MaxClose <- MCMaxClose
  Reserve = 10
  MaxInFlight = 100000
  MaxAccepted = 4
  MSAT_MOD = 100000000
  Amounts = {5}
  Fates = {"FULFILL", "FORWARD", "NEXT_SHUTDOWN"}
  FwdPeers = {funder}
  ForceClosers = {fundee}
  OfferFunder = 1
  OfferFundee = 0
  CloseFunder = 1
  CloseFundee = 2
  Capital = 1000000
CHECK_DEADLOCK FALSE
INVARIANTS TypeOK NeverBroadcastRevoked ClosingExclusive
