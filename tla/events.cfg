SPECIFICATION FairSpec
CONSTANTS
  MaxBlocks = 4
  None = None
  Indefinite <- MCIndefinite
  Starts <- MCStarts
  Stops <- MCStops
INVARIANT RangeInOrder
PROPERTY GetEnds
CHECK_DEADLOCK FALSE
