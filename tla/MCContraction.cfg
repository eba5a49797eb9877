CONSTANTS
  Nodes <- MCNodes
  Grids <- MCGrids
  Orders <- MCOrders
  NUM_OF_THREADS = 2
  MULTIPLE_STEP_NUMBER = 2
  far = 1000
  MCSize = 4
  MCLengths = {1, 3}
SPECIFICATION FairCHSpec
INVARIANTS CHTypeOK RemainingIsUndirected LevelsAreIndependent ShortcutsUnpack DistancesArePreserved
PROPERTY ContractionEnds
