SPECIFICATION Spec
CONSTANTS
  Schema <- MessageTypes
  SerializeToString <- WireSerializeToString
  WellFormed <- WireWellFormed
  FromString <- WireFromString
  IsMessage <- WireIsMessage
  Roles <- MCRoles
  Key <- MCKey
  Policies <- MCPolicies
  Depth <- MCDepth
  Satisfied <- PeerSatisfied
INVARIANT EnvelopeMeansPolicy
CHECK_DEADLOCK FALSE
