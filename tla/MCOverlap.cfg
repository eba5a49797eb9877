CONSTANTS
  Threads = {t1, t2}
  Nodes <- MCNodes
  Grids <- MCGrids
  Voyages <- MCVoyages
  MAX_VALUE = 1000
  MaxPathLength = 4
  RacyFields <- NoRaces
  MCSize = 3
  MCLengths = {1}
  MCHops = 3
SPECIFICATION InterleavedSpec
INVARIANT RouteIsShortest
