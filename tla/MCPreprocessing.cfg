CONSTANTS
  Graphs = {g1, g2}
  null = null
  partial = partial
  MaxCrashes = 3
  MaxGraphs = 2
SPECIFICATION FairSpec
INVARIANTS IInv ServedIsWhole OutputIsCurrent FailsOnlyAfterCrash
PROPERTY EventuallyFinished
