\* Two runs, the second of which may exceed the layout budget.
CONSTANTS
  N = 2
  Experiments = 2
  Repetitions = 1
  Faults = {}
  Corrupt = {}
  Sizes = {"small", "large"}
SPECIFICATION FairSpec
INVARIANT ReportedFilesAreOfTheRun
CHECK_DEADLOCK FALSE
