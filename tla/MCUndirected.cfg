CONSTANTS
  InputFiles <- MCFiles
  MaxDegree = 2
  MCSize = 3
SPECIFICATION Spec
INVARIANT ImportIsUndirected
CHECK_DEADLOCK FALSE
