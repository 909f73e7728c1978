SPECIFICATION SysFairSpec
CONSTANTS
  w1 = w1
  w2 = w2
  s = s
  a = a
  b = b
  c = c
  EMPTY = EMPTY
  Seed = s
  Workers = {w1, w2}
  Urls = {s, a, b, c}
  Hrefs <- Site
  FileListed = {}
  Options = {"shixin"}
  TravelDepth = 0
  MaxAnalyse = 2
  QueueCap = 4
  UrlNum = 5
  Faults = {}
  Crashable = {w1, w2}
  FetchCap = 3
  NumProc = 2
  Resume = 1
  Runs = 2
  MainFaults = {"kill", "db", "send"}
  Overlap = FALSE
INVARIANTS
  SysTypeOK
  PrefixPacked
  EndsLast
  TableAccounted
  OncePerClaim
PROPERTIES
  MainEnds
  LockGranted
