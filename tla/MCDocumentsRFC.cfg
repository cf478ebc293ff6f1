SPECIFICATION DocumentsSpec
CONSTANTS
  Kinds <- MCKinds
  OperatorKey = OperatorKey
  StrangerKey = StrangerKey
  ReceiptKey = ReceiptKey
  NoAction = "none"
  MaxLedger = 5
  MaxPerKind = 2
  HeadKey = HeadKey
  CopyKey = CopyKey
  Absent = Absent
  MaxLog = 6
  Paths = {p1, p2}
  Outside = Outside
  Inodes = {i1, i2, i3}
  Records = {a}
  Gone = Gone
  NoFile = NoFile
  MaxRecords = 2
  MaxChanges = 3
  AgentKey = AgentKey
  OtherKey = OtherKey
  OwnTSA = OwnTSA
  FreeTSA = FreeTSA
  OtherTSA = OtherTSA
  None = None
  MaxSeals = 2
SYMMETRY Symmetric
CHECK_DEADLOCK FALSE
INVARIANTS
  RFCProofsPass
