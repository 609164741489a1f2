SPECIFICATION Spec
CONSTANTS
  Peer = {p1, p2}
  p1 = p1
  p2 = p2
  Payload = {a}
  NoPayload = NoPayload
  MaxBlocks = 3
  Tasks = {t1, t2}
  EndorsingPeers <- TwoPeers
  CommitPeers <- OnePeer
  NumOrderers = 1
  Chains <- InvokeChain
  MaxOps = 6
  MaxAwaits = 2
SYMMETRY Symmetry
INVARIANTS SentFullyEndorsed InvokeTookEffect
CHECK_DEADLOCK FALSE
