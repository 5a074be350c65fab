SPECIFICATION FairSpec
CONSTANTS
  Deleter = {d1}
  MaxJob = 2
  MaxWorld = 2
  Faulty = TRUE
INVARIANTS  SnapshotsKeepFaith RestoreTellsTheTruth CancelExact
PROPERTIES  JobEnds
