SPECIFICATION FairSpec
CONSTANTS
  Server <- MCServer
  NoServer = 0
  Operated = {2}
  Watched = {}
  Weight <- MCWeight
  Warning = 1
  Retry = 1
  EmptyTime = 1
INVARIANT SleepsAreRecorded
PROPERTIES CountdownKept ShedsLoad
