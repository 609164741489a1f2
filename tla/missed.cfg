SPECIFICATION Spec
CONSTANTS
  Peer = {p1}
  p1 = p1
  p2 = p2
  Payload = {a}
  NoPayload = NoPayload
  MaxBlocks = 3
  Tasks = {t1}
  EndorsingPeers <- OnePeer
  CommitPeers <- OnePeer
  NumOrderers = 1
  Chains <- InvokeChain
  MaxOps = 3
  MaxAwaits = 1
INVARIANT WaitMissesNothing
CHECK_DEADLOCK FALSE
