CONSTANTS
  InputFiles <- MCFiles
  MaxDegree = 2
  MCSize = 4
SPECIFICATION Spec
INVARIANTS EdgesAreFound OnlyMissingAreAdded RoundTrip
CHECK_DEADLOCK FALSE
