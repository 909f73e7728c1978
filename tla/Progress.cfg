SPECIFICATION FairSpec
CONSTANTS
  N = 2
  Cap = 2
  TotalCnt = 3
  Old <- OldTables
  Faults = {"db", "shm", "select", "update", "commit", "kill"}
INVARIANT RowRight
PROPERTIES
  BackOnlyByOther
  SupsEnd
