SPECIFICATION Spec
CONSTANTS
  Schema <- MessageTypes
  SerializeToString <- WireSerializeToString
  WellFormed <- WireWellFormed
  FromString <- WireFromString
  IsMessage <- WireIsMessage
  Users = {alice, bob}
  Indefinite = 1000000
  Order = 3
  MaxNonces = 2
  Calls <- MCCalls
  Seeks <- MCSeeks
  Peers <- MCPeers
  ChannelTX <- MCChannelTX
SYMMETRY Symmetry
INVARIANT SeeksAccepted
CHECK_DEADLOCK FALSE
