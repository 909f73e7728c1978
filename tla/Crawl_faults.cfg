SPECIFICATION Spec
CONSTANTS
  w1 = w1
  w2 = w2
  s = s
  a = a
  b = b
  c = c
  d = d
  EMPTY = EMPTY
  Seed = s
  Workers = {w1, w2}
  Urls = {s, a, b, c}
  Hrefs <- Diamond
  FileListed = {a}
  Options = {"shixin", "fileinvolve", "download", "icontrol"}
  TravelDepth = 3
  MaxAnalyse = 2
  QueueCap = 3
  UrlNum = 2
  Faults = {"fetch", "fopen", "file", "sql", "sem", "send"}
  Crashable = {w1, w2}
  FetchCap = 3
SYMMETRY WorkerSymmetry
INVARIANTS
  TypeOK
  LockHeld
  NoUrlForgotten
  WithinDepth
  OnlyReachable
PROPERTY ImplementsCrawl
