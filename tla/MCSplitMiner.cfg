\* Three activities, two parties; up to three traces.
CONSTANTS
  M = 3
  Organizations = 2
  CaseBits = 3
  TimestampBits = 4
  Infinity = 100
  Epsilon <- MCEpsilon
  Etas <- MCEtas
  Shapes <- Large
SPECIFICATION MCSpec
INVARIANTS
  FilterKeepsWidths
  EveryActivityOnPath
  DisclosedPairsAreUnordered
  WithheldConcurrencyIsVisible
  MatchesReference
CHECK_DEADLOCK FALSE
