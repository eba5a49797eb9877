CONSTANTS
  Requests <- MCNumbers
  Nodes <- MCNodes
  Coord <- MCCoord
  getDistance <- MCDistance
  Path <- MCPath
  MixedPaths <- MCMixedPaths
  Typed <- MCTyped
  Clicked <- MCClicked
  null = null
  Missing = Missing
  Garbage = Garbage
  MaxEdits = 3
  MCRequests = 2
SPECIFICATION FairSpec
INVARIANTS IInv NothingLeaks MarkersFollow ViewIsConsistent RouteIsNear NoRouteIsTrue RepeatIsStable
PROPERTIES ImplementsRequestReply RequestsAreReported
CHECK_DEADLOCK FALSE
