SPECIFICATION SysSpec
CONSTANTS
  w1 = w1
  w2 = w2
  s = s
  a = a
  b = b
  c = c
  EMPTY = EMPTY
  Seed = s
  Workers = {w1, w2}
  Urls = {s, a, b}
  Hrefs <- Pair
  FileListed = {}
  Options = {"shixin"}
  TravelDepth = 0
  MaxAnalyse = 2
  QueueCap = 4
  UrlNum = 4
  Faults = {}
  Crashable = {w1, w2}
  FetchCap = 3
  NumProc = 1
  Resume = 1
  Runs = 2
  MainFaults = {"kill", "db", "send", "fork"}
  Overlap = TRUE
SYMMETRY WorkerSymmetry
INVARIANTS
  NoDupSlots
  TableAccounted
