SPECIFICATION AppSpec
CONSTANTS
  OurKey = OurKey
  ForgerKey = ForgerKey
  NoKey = NoKey
  Kid = Kid
  Act = Act
  ActHash = ActHash
  Good = Good
  Forged = Forged
  Raising = Raising
  Archive = Archive
  Share = Share
  Own = Own
  Sites = Sites
  Keys = {OurKey}
  WeakKeys = {}
  Files = {Good, Forged, Raising, Archive, Share}
  Demos = {Good, Share}
  Content <- MCContent
  Pasted = {OurKey}
  Rings = {Own}
  SiteRing = Sites
  Keyring <- MCKeyring
  Nothing = Nothing
  MaxClicks = 2
CHECK_DEADLOCK FALSE
INVARIANTS
  OverlapKeepsTheVerdict
