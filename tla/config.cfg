SPECIFICATION Spec
CONSTANTS
  Documents <- MCDocuments
  Files <- MCFiles
  Versions = {"v1", "v2"}
  MaxGateways = 3
INVARIANTS GatewayAsAsked CredentialsMatch
CHECK_DEADLOCK FALSE
