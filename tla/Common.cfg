SPECIFICATION FairSpec
CONSTANTS
  s = s
  a = a
  b = b
  c = c
  d = d
  e = e
  NoUrl = NoUrl
  Urls = {s, a, b, c, d, e}
  Seed = s
  Hrefs <- Knot
  name = name
  more = more
  Texts = {name, more}
  NoText = NoText
  FileUrls = {s, c}
  FileTexts = {name}
  Modes <- AllModes
  TravelDepth = 3
  Faults = {"fetch", "fopen", "file"}
  FetchCap = 2
INVARIANTS
  TypeOK
  TriedOnce
  WithinDepth
  CrawlComplete
  ReportRight
PROPERTIES
  ImplementsCrawl
  CommonEnds
