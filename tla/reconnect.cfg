SPECIFICATION RSpec
CONSTANTS
  Funder = funder
  Fundee = fundee
  LN_HTLC_MAX = 1
  InitMsat <- MCInitMsat
  InitFee = 2
  MaxHtlc <- MCMaxHtlc
  MaxClose <- MCMaxClose
  Reserve = 10
  MaxInFlight = 100000
  MaxAccepted = 4
  MSAT_MOD = 100000000
  Amounts = {5}
  Fates = {"FULFILL", "FAIL"}
  FwdPeers = {}
  ForceClosers = {}
  OfferFunder = 1
  OfferFundee = 0
  CloseFunder = 0
  CloseFundee = 0
  Capital = 1000000
  MaxDrops = 2
  MaxCrashes = 1
CHECK_DEADLOCK FALSE
INVARIANTS DatabasesFit PaymentsAgree
