CONSTANTS
  Threads = {t1}
  Nodes <- MCNodes
  Grids <- MCGrids
  Voyages <- MCVoyages
  MAX_VALUE = 1000
  MaxPathLength = 9
  RacyFields <- NoRaces
  MCSize = 4
  MCLengths = {0, 1, 3}
  MCHops = 3
SPECIFICATION FairSerialSpec
INVARIANTS IInv MatchesReference NoOverflow RouteIsShortest
PROPERTY RequestsReturn
