SPECIFICATION Spec
CONSTANTS
  a1 = a1
  a2 = a2
  gatewayKey = gatewayKey
  NoKey = NoKey
  Keys <- MCKeys
  WeakKeys = {}
  Actions <- MCActions
  SigningKey = gatewayKey
  ApprovalVersions = {"v1", "v2"}
  MaxLedger = 5
  MaxRecords = 2
  MaxAnchors = 2
  MaxDepartures = 1
  Edits <- MCEdits
SYMMETRY Symmetry
CHECK_DEADLOCK FALSE
INVARIANT ApprovalIsWitnessed
