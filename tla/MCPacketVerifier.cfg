SPECIFICATION Spec
CONSTANTS
  K1 = K1
  K2 = K2
  Weak = Weak
  NoKey = NoKey
  Kid1 = Kid1
  Kid2 = Kid2
  ActA = ActA
  ActB = ActB
  H1 = H1
  H2 = H2
  Tsa1 = Tsa1
  Tsa2 = Tsa2
  P1 = P1
  P2 = P2
  Keys = {K1, K2, Weak}
  WeakKeys = {Weak}
  Commands <- MCCommands
  Packets <- MCPackets
  Ledger <- MCLedger
  Genesis <- Start
CHECK_DEADLOCK FALSE
INVARIANTS
  TypeOK
  HistoryIsTheLedgers
  ChainOnlyRestsOnTheLedger
  TrustMaterialOnlyNarrows
  StatusNamesTheSigner
PROPERTIES
  AnswersAsPromised
