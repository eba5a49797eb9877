CONSTANTS
  Nodes <- MCNodes
  Grids <- MCGrids
  Orders <- MCOrders
  NUM_OF_THREADS = 1
  MULTIPLE_STEP_NUMBER = 10
  LabelSettings = {2}
  far = 1000
  MCSize = 5
SPECIFICATION RouterSpec
INVARIANT AnswerIsShortest
