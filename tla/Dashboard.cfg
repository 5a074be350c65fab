SPECIFICATION Spec
CONSTANTS
  Caller = {"t1", "t2"}
  MaxJob = 3
  Field = {"a", "b"}
  MaxChanges = 2
  MaxQueue = 1
  MaxStage = 5
  MaxRevision = 6
  Address = {"x", "y"}
  MaxFailures = 2
  Window = 2
  SweepThreshold = 1
  MaxClock = 5
  Middle = 2
  Coarse = 4
  FineWindow = 3
  MiddleWindow = 5
  CoarseWindow = 6
  PruneInterval = 2
  MaxDelay = 2
  MaxNow = 8
  Tab = {"c1"}
  Vanilla = {"stop"}
  Modded = {"warp"}
  HistoryLimit = 1
  MaxCommands = 2
INVARIANT HistoryIsWhole
PROPERTIES CallsAreAnswered FormsHold AcceptedStays 
