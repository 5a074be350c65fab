SPECIFICATION Spec
CONSTANTS
  Server = {1}
  Client = {c1}
  Joiner = {j1}
  Reconciler = {r1}
  Refresher = {f1}
  Reader = {}
  Idler = {}
  Presser = {p1}
  IdlePolls = 1
  MaxContainer = 2
  SleepEnabled = TRUE
  WakeOnConnect = TRUE
  DockerFails = TRUE
  External = TRUE
  MaxCrash = 1
INVARIANTS OneOwner PortHeldOnce EmptyAtStop
PROPERTIES OwnerWrites 
