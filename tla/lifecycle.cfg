SPECIFICATION Spec
CONSTANTS
  Peer = {p1, p2}
  p1 = p1
  p2 = p2
  Payload = {a, b}
  NoPayload = NoPayload
  MaxBlocks = 3
  Tasks = {t1}
  EndorsingPeers <- TwoPeers
  CommitPeers <- TwoPeers
  NumOrderers = 1
  Chains <- BothChains
  MaxOps = 3
  MaxAwaits = 2
INVARIANT ReportedOnLedger
PROPERTY LifecycleSpec
CHECK_DEADLOCK FALSE
