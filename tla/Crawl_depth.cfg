SPECIFICATION Spec
CONSTANTS
  w1 = w1
  w2 = w2
  s = s
  a = a
  b = b
  c = c
  d = d
  EMPTY = EMPTY
  Seed = s
  Workers = {w1, w2}
  Urls = {s, a, b, c, d}
  Hrefs <- TwoWays
  FileListed = {}
  Options = {"icontrol"}
  TravelDepth = 3
  MaxAnalyse = 2
  QueueCap = 5
  UrlNum = 6
  Faults = {}
  Crashable = {}
  FetchCap = 3
INVARIANT DepthComplete
