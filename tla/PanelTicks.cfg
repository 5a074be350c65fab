SPECIFICATION FairSpec
CONSTANTS
  Server = {1, 2}
  Client = {}
  Joiner = {}
  Reconciler = {r1}
  Refresher = {f1}
  Reader = {}
  Idler = {i1}
  Presser = {}
  IdlePolls = 1
  MaxContainer = 1
  SleepEnabled = TRUE
  WakeOnConnect = TRUE
  DockerFails = FALSE
  External = FALSE
  MaxCrash = 0
INVARIANT SleepsAreTold
PROPERTIES IntentsResolved SleepersAnswer
