SPECIFICATION Spec
CONSTANTS
  DEPTH = 2
  LIMIT = 1
  MaxMoves = 2
  MaxEdges = 3
  MaxFaults = 1
INVARIANTS
  MotionConserved
  NoEdgeSkipped
PROPERTIES
  NewestEdgeArrives
