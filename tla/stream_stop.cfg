SPECIFICATION Spec
CONSTANTS
  MaxBlocks = 4
  None = None
  Indefinite <- MCIndefinite
  Starts <- MCStarts
  Stops <- MCStops
INVARIANT StopsQuietly
CHECK_DEADLOCK FALSE
