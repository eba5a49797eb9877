CONSTANTS
  Threads = {t1, t2}
  Nodes <- MCNodes
  Grids <- MCGrids
  Voyages <- MCVoyages
  MAX_VALUE = 1000
  MaxPathLength = 3
  RacyFields <- MCRacyFields
  MCSize = 3
  MCLengths = {1}
  MCHops = 3
SYMMETRY MCSymmetry
SPECIFICATION Spec
INVARIANTS NeverThrows AloneIsShortest
