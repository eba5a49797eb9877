CONSTANTS
  Ids <- MCIds
  Distances <- MCDistances
  MAX_VALUE = 3
  INITIAL_SIZE = 2
  SIZE_INCREASE = 1
SPECIFICATION Spec
INVARIANTS TypeOK PositionsAgree HeapOrder
PROPERTY ImplementsQueue
