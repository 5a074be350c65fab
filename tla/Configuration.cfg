SPECIFICATION Spec
CONSTANTS
  Server = {"s1", "s2"}
  Pack = {"p1", "p2"}
  Request = {"r1", "r2"}
  Name = {"a"}
  MinPort = 1
  MaxPort = 3
  RouterPort = 0
  HostPort = {1}
  OverheadPercent = 15
  OverheadMinMb = 3
  DefaultMinMb = 5
  MaxRamMb = 18
  PackArgs <- MCPackArgs
  Heaps <- MCHeaps
  Id = {"a", "b"}
  Version = {1, 2}
  OwnMods = OwnMods
  Wishes <- MCWishes
  Host = {"h1", "h2"}
  Floors = {1, 3}
  Cap = 4
  Histories <- MCHistories
  HostMb = 8
  DaemonMb = 5
  ReserveMb = 1
  BurstMb = 6
  FreeMb = 1
  Free = {2, 8}
  Player = {"a", "b", "c"}
  Registered = {"a", "b"}
  WithUuid = {"c"}
  Plain = {"a", "c"}
INVARIANTS PlanIsRight TuningHolds
PROPERTIES SavesAreTrue RegistryHolds  AdmissionHolds
