\* Events with different timestamps under fixed-event-order.
CONSTANTS
  None = None
  M = 2
  Epsilon <- MCEpsilon
  CaseBits = 3
  TimestampBits = 3
  Prime = 5
  PrimeIsFixed = FALSE
  RoundConstants <- MCRoundConstants
  Organizations = 2
  InputLimit = 9
  Times = {0, 1, 3, 4}
  Events = 4
SPECIFICATION MCSpec
INVARIANT FixedOrderKeepsTimeOrder
CHECK_DEADLOCK FALSE
