CONSTANTS
  Nodes <- MCNodes
  Grids <- MCGrids
  Orders <- MCOrders
  NUM_OF_THREADS = 2
  MULTIPLE_STEP_NUMBER = 10
  LabelSettings = {0, 2}
  far = 1000
  MCSize = 5
SPECIFICATION RouterSpec
INVARIANTS FirstEdgesLead LabelsCover LabelsAreExact LabelledAnswerIsShortest DistanceIsShortest
