SPECIFICATION Spec
CONSTANTS
  K1 = K1
  K2 = K2
  Weak = Weak
  NoKey = NoKey
  Kid1 = Kid1
  Kid2 = Kid2
  Keys = {K1, K2, Weak}
  WeakKeys = {Weak}
  Commands <- MCCommands
  Inputs <- MCInputs
CHECK_DEADLOCK FALSE
INVARIANTS
  TypeOK
  RejectionsAreExplained
  PolicyNeverMovesTheVerdict
  KeyringDecidesTheKey
  RevokedNeverPasses
PROPERTIES
  AnswersAsPromised
