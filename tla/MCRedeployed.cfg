SPECIFICATION FairSpec
CONSTANTS
  alice = alice
  vera = vera
  registry = registry
  oracle = oracle
  pool = pool
  treasury = treasury
  store = store
  a1 = a1
  a2 = a2
  Account <- AllAccounts
  Reporters = {alice}
  Verifiers = {vera}
  Registry = registry
  Oracle = oracle
  Pool = pool
  Treasury = treasury
  Store = store
  Nobody = Nobody
  AssertionId <- TwoIds
  NoId = NoId
  UmaBonds = {2}
  OracleFee <- HalfKept
  MaxReports = 2
  Imo = {i1}
  NoImo = NoImo
  Meta = {m1}
  EmptyMeta = EmptyMeta
  Image = {g1}
  NoImage = NoImage
  NoText = NoText
  ClaimedImos = {i1}
  ProtocolBond = 10
  InitialBalance = 30
  WiredFirst = TRUE
  OutsideDeposits = {}
PROPERTIES
  UndisputedIsUpheld
CHECK_DEADLOCK FALSE
