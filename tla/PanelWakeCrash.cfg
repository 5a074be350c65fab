SPECIFICATION FairSpec
CONSTANTS
  Server = {1}
  Client = {}
  Joiner = {j1}
  Reconciler = {r1}
  Refresher = {f1}
  Reader = {}
  Idler = {i1}
  Presser = {p1}
  IdlePolls = 1
  MaxContainer = 2
  SleepEnabled = TRUE
  WakeOnConnect = TRUE
  DockerFails = FALSE
  External = FALSE
  MaxCrash = 1
PROPERTIES SleepersComeBack
