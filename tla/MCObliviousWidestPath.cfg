\* Two activities, the end and the start; arcs of frequency 0, 1 or 2; every
\* order of the nodes.
CONSTANTS
  N = 4
  Source = 3
  MaxWeight = 2
  Infinity = 3
SPECIFICATION MCSpec
INVARIANTS
  ResultIsThePipelines
PROPERTIES
  VisitedSettled
  RunIsSearchInTheClear
CHECK_DEADLOCK FALSE
