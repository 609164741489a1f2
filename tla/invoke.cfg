SPECIFICATION FairSpec
CONSTANTS
  Peer = {p1, p2}
  p1 = p1
  p2 = p2
  Payload = {a, b}
  NoPayload = NoPayload
  MaxBlocks = 4
  Tasks = {t1}
  EndorsingPeers <- TwoPeers
  CommitPeers <- OnePeer
  NumOrderers = 2
  Chains <- WaitingChains
  MaxOps = 3
  MaxAwaits = 1
INVARIANTS PayloadCommitted ReturnedValidOnFirst
PROPERTIES AwaitTerminates LifecycleSpec
CHECK_DEADLOCK FALSE
