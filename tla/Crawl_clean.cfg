SPECIFICATION FairSpec
CONSTANTS
  w1 = w1
  w2 = w2
  s = s
  a = a
  b = b
  c = c
  d = d
  EMPTY = EMPTY
  Seed = s
  Workers = {w1, w2}
  Urls = {s, a, b, c}
  Hrefs <- Diamond
  FileListed = {a}
  Options = {"shixin", "fileinvolve", "download", "icontrol"}
  TravelDepth = 3
  MaxAnalyse = 2
  QueueCap = 4
  UrlNum = 5
  Faults = {"fetch"}
  Crashable = {}
  FetchCap = 3
INVARIANTS
  FetchOnce
  CrawlComplete
  RowsMatchPages
PROPERTIES
  Termination
  ImplementsFairCrawl
