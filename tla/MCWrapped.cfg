CONSTANTS
  Requests <- MCNumbers
  Nodes <- MCNodes
  Coord <- MCCoord
  getDistance <- MCDistance
  Path <- MCPath
  MixedPaths <- MCMixedPaths
  Typed <- MCWrapped
  Clicked <- MCWrapped
  null = null
  Missing = Missing
  Garbage = Garbage
  MaxEdits = 4
  MCRequests = 1
SPECIFICATION Spec
INVARIANT RouteGoesWhereChosen
CHECK_DEADLOCK FALSE
