SPECIFICATION Spec
CONSTANTS
  alice = alice
  vera = vera
  registry = registry
  oracle = oracle
  pool = pool
  treasury = treasury
  store = store
  a1 = a1
  a2 = a2
  Account <- AllAccounts
  Reporters = {alice}
  Verifiers = {vera}
  Registry = registry
  Oracle = oracle
  Pool = pool
  Treasury = treasury
  Store = store
  Nobody = Nobody
  AssertionId <- TwoIds
  NoId = NoId
  UmaBonds = {2, 4}
  OracleFee <- HalfKept
  MaxReports = 2
  Imo = {i1, i2}
  NoImo = NoImo
  Meta = {m1, m2}
  EmptyMeta = EmptyMeta
  Image = {g1}
  NoImage = NoImage
  NoText = NoText
  ClaimedImos = {}
  ProtocolBond = 11
  InitialBalance = 28
  WiredFirst = TRUE
  OutsideDeposits = {}
INVARIANTS
  StatusAgreesWithOracle
  OneAssertionPerReport
  Solvent
  NamedIffSighted
  EnsMirrorsRegistry
  CorroborationIsSigned
  BalancesExplained
  SightingsMatchSettlements
PROPERTIES
  SettledIsFinal
SYMMETRY SymmetricIds
CHECK_DEADLOCK FALSE
