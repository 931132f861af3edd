\* Two runs, three parties, the first of which may alter what it sends; models of both
\* sizes; the client may fail at any point the code lets it.
CONSTANTS
  N = 3
  Experiments = 2
  Repetitions = 1
  Faults = {"connect", "build"}
  Corrupt = {1}
  Sizes = {"small", "large"}
SPECIFICATION FairSpec
INVARIANTS
  ArtifactsInOrder
  ReleasedAfterModel
PROPERTY ConnectedRunIsReported
CHECK_DEADLOCK FALSE
