\* Pools of six nodes, words of four bits, three libraries or three lines on timers, two
\* processes that compile, two computations of three or four parties, two experiments of up
\* to three jobs, three pulls of three reports, three laps of two timers.
CONSTANTS
  None = None
  Torn = Torn
  K = 6
  Pool = {1, 2}
  ProcessPool = 3
  Sizes = {2, 3, 4, 5, 8, 9, 12}
  MaxBits = 4
  Prime = 17
  File = {f1, f2, f3}
  Name = {x, y}
  Number = {1, 3}
  MaxLines = 3
  MaxRounds = 5
  Procs = {p1, p2}
  Configs = {"prime", "other_prime", "ring"}
  Domain <- ConfigDomain
  MaxFileEdits = 1
  MaxEdits = 1
  MaxTurns = 2
  Primes = {5, 7}
  PartyCounts = {3, 4}
  Word = 4
  Values = {0, 3}
  MaxRuns = 2
  Specs = {e1, e2}
  MaxPasses = 3
  MaxAttempts = 2
  MaxPushes = 2
  MaxJobs = 3
  MaxActivities = 5
  MaxFaults = 2
  MaxReports = 3
  MaxPulls = 3
  Timer = {1, 2}
  MaxLaps = 3
SPECIFICATION MCSpec
SYMMETRY Alike
CONSTRAINT SearchedOnly
INVARIANTS
  NearestSeedWins
  HandoffsAtPoolBoundaries
  DemuxIsUnitVector
  DependenciesAreComplete
  NamedTimersAreFresh
  UploadedIsWholeAndOfItsText
  ReconstructsUnderOnePrime
  UploadsAsAsked
  ReportsOfExpectedProgram
  ProductOrError
  ListedReportsAreThere
  LapsSurvive
CHECK_DEADLOCK FALSE
