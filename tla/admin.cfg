SPECIFICATION FairSpec
CONSTANTS
  p1 = p1
  p2 = p2
  Tasks = {t1}
  Peer = {p1, p2}
  Peers <- TwoPeers
  Lists <- BothLists
  NumOrderers = 2
  MaxCreates = 1
INVARIANTS TypeOK ReturnedMeansDone JoinedInOrder
PROPERTIES InstallConverges JoinRecovers
CHECK_DEADLOCK FALSE
