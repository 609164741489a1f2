SPECIFICATION FairSpec
CONSTANTS
  Peer = {p1, p2}
  p1 = p1
  p2 = p2
  Payload = {a}
  NoPayload = NoPayload
  MaxBlocks = 2
  Tasks = {t1}
  EndorsingPeers <- TwoPeers
  CommitPeers <- TwoPeers
  NumOrderers = 1
  Chains <- Steps
  MaxOps = 3
  MaxAwaits = 2
INVARIANTS TypeOK NoOpLost RunsOnce
PROPERTY AwaitTerminates
CHECK_DEADLOCK FALSE
