\* Two activities, the end and the start; arcs of frequency 0 to 3.
CONSTANTS
  N = 4
  Source = 3
  MaxWeight = 3
  Infinity = 4
SPECIFICATION MCSpec
INVARIANTS
  TypeOK
  CapacityIsWidth
  PredecessorRealisesCapacity
  PredecessorsReachSource
CHECK_DEADLOCK FALSE
