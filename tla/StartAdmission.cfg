SPECIFICATION FairSpec
CONSTANTS
  Server <- MCServer
  Auditor = {a1}
  Starter = starter
  Room = 2
  Limit = 3
  Floor <- MCFloor
  Cap <- MCCap
  Legacy = {2}
INVARIANT AllowancesCover
PROPERTIES AdmissionFits StartsEnd
