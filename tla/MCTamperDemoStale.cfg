SPECIFICATION Spec
CONSTANTS
  K1 = K1
  K2 = K2
  Weak = Weak
  NoKey = NoKey
  ActA = ActA
  ActB = ActB
  H1 = H1
  DemoKey = K1
  DemoAction = ActA
  DemoActionHash = H1
  Keys = {K1, K2, Weak}
  WeakKeys = {Weak}
  Texts <- MCTexts
  Original <- MCOriginal
  Json <- MCJson
  Depth <- MCDepth
  MaxSafe <- MCSafe
  MaxEdits = 2
CHECK_DEADLOCK FALSE
INVARIANTS
  TheBadgeIsTheTexts
