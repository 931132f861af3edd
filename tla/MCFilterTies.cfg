\* The default threshold, on logs in which best arcs tie.
CONSTANTS
  M = 3
  Organizations = 2
  CaseBits = 3
  TimestampBits = 4
  Infinity = 100
  Epsilon <- MCEpsilon
  Etas <- MCDefaultEta
  Shapes <- Large
SPECIFICATION MCSpec
INVARIANT FilterMatchesReference
CHECK_DEADLOCK FALSE
