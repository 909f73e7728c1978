SPECIFICATION Spec
CONSTANTS
  w1 = w1
  w2 = w2
  s = s
  a = a
  b = b
  c = c
  d = d
  EMPTY = EMPTY
  Seed = s
  Workers = {w1, w2}
  Urls = {s, a, b, c, d}
  Hrefs <- Wide
  FileListed = {}
  Options = {}
  TravelDepth = 0
  MaxAnalyse = 2
  QueueCap = 2
  UrlNum = 6
  Faults = {}
  Crashable = {}
  FetchCap = 3
INVARIANT NoSendDeadlock
CHECK_DEADLOCK FALSE
