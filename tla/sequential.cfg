SPECIFICATION FairSpec
CONSTANTS
  Funder = funder
  Fundee = fundee
  LN_HTLC_MAX = 2
  InitMsat <- MCInitMsat
  InitFee = 2
  MaxHtlc <- MCMaxHtlc
  MaxClose <- MCMaxClose
  Reserve = 10
  MaxInFlight = 4
  MaxAccepted = 4
  MSAT_MOD = 100000000
  Amounts = {5}
  Fates = {"FULFILL", "FAIL", "MALFORMED"}
  FwdPeers = {}
  ForceClosers = {}
  OfferFunder = 3
  OfferFundee = 0
  CloseFunder = 0
  CloseFundee = 0
  Capital = 1000000
CHECK_DEADLOCK FALSE
INVARIANTS HtlcKept DeletionApplies ChannelSurvives
PROPERTIES HtlcsResolved
