SPECIFICATION Spec
CONSTANTS
  Funder = funder
  Fundee = fundee
  LN_HTLC_MAX = 3
  InitMsat <- MCInitMsat
  InitFee = 2
  MaxHtlc <- MCMaxHtlc
  MaxClose <- MCMaxClose
  Reserve = 10
  MaxInFlight = 100000
  MaxAccepted = 4
  MSAT_MOD = 100000000
  Amounts = {5}
  Fates = {"FULFILL", "FAIL"}
  FwdPeers = {}
  ForceClosers = {}
  OfferFunder = 2
  OfferFundee = 1
  CloseFunder = 0
  CloseFundee = 0
  Capital = 1000000
CHECK_DEADLOCK FALSE
INVARIANTS SignatureAgrees PaymentsAgree CommitNumbersAgree PunishmentReady
PROPERTIES LockstepSpec
