SPECIFICATION ConnectionsSpec
CONSTANTS
  Client = {c1, c2}
  Server = {"alpha", "lobby"}
  Nobody = "nobody"
  Domain <- MCDomain
  Fallback = "lobby"
  HostNames <- MCHostNames
  Scripts <- MCScripts
  MostTokens = 3
  Command = {1, 2, 3}
  Full <- MCFull
  Exact = {1}
  MaxRun = 2
  MostPoints = 2
  Tabs = 2
  MaxBoot = 2
  MaxLines = 2
  MaxTime = 3
  Day = 2
  Slack = 0
  LogTail = 1
  FileTail = 2
INVARIANT AnswersBelong
PROPERTY ClientsAreServed
