\* One run whose computation is repeated.
CONSTANTS
  N = 2
  Experiments = 1
  Repetitions = 2
  Faults = {}
  Corrupt = {}
  Sizes = {"small"}
SPECIFICATION FairSpec
PROPERTY EveryRunIsReported
CHECK_DEADLOCK FALSE
