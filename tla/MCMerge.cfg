\* Radix: four events, timestamps of three bits, so that 4 and above have the top bit.
\* Quick: four rows, six rows to fill the stack; every shuffle and every key.
CONSTANTS
  None = None
  M = 2
  Epsilon <- MCEpsilon
  CaseBits = 3
  TimestampBits = 3
  Prime = 5
  PrimeIsFixed = FALSE
  RoundConstants <- MCRoundConstants
  Organizations = 2
  InputLimit = 6
  Times = {0, 1, 3, 4}
  Events = 4
SPECIFICATION MCSpec
INVARIANTS
  CasesContiguous
  NothingLost
  CasesInTimeOrder
  LoopBoundsSuffice
  StartsMatchCases
  MergesLikeRadixSort
  GraphsAgree
PROPERTY EveryRoundSplits
CHECK_DEADLOCK FALSE
