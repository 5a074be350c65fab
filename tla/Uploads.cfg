CONSTANTS
  Upload = {u1}
  Slices = 3
  MaxAttempts = 3
  MaxTrouble = 4
  TornWrites = FALSE

SPECIFICATION FairSpec
INVARIANTS SentIsStored HandedOverWhole
PROPERTIES Assembled UploadsEnd
