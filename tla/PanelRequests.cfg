SPECIFICATION FairSpec
CONSTANTS
  Server = {1}
  Client = {c1}
  Joiner = {j1}
  Reconciler = {}
  Refresher = {}
  Reader = {d1}
  Idler = {}
  Presser = {}
  IdlePolls = 1
  MaxContainer = 1
  SleepEnabled = TRUE
  WakeOnConnect = TRUE
  DockerFails = FALSE
  External = FALSE
  MaxCrash = 0
INVARIANT NoRepairUnderJvm
PROPERTIES OwnerKeeps LocksReleased
