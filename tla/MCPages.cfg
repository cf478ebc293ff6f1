SPECIFICATION PagesSpec
CONSTANTS
  K1 = K1
  K2 = K2
  Weak = Weak
  NoKey = NoKey
  ActA = ActA
  ActB = ActB
  H1 = H1
  DemoKey = K1
  DemoAction = ActA
  DemoActionHash = H1
  Keys = {K1, K2, Weak}
  WeakKeys = {Weak}
  Texts <- MCTexts
  Original <- MCOriginal
  Json <- MCJson
  Depth <- MCDepth
  MaxSafe <- MCSafe
  MaxEdits = 2
  OurKey = K1
  ForgerKey = K2
  Kid = Kid
  Act = Act
  ActHash = ActHash
  Good = Good
  Forged = Forged
  Raising = Raising
  Archive = Archive
  Share = Share
  Own = Own
  Sites = Sites
  Files = {Good, Forged, Share}
  Demos = {Share}
  Content <- MCContent
  Pasted = {K1}
  Rings = {Own}
  SiteRing = Sites
  Keyring <- MCKeyring
  Nothing = Nothing
  MaxClicks = 2
CHECK_DEADLOCK FALSE
INVARIANTS
  TypeOK
  ShownIsItsVerdict
  InOrderTheBadgeIsTheTexts
  AgreesWithVerifyPy
  AppTypeOK
  OneRunIsTheCommandLine
  PinnedIsTheUsers
PROPERTIES
  AVerdictFollows
  EveryClickIsAnswered
