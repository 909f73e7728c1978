SPECIFICATION Spec
CONSTANTS
  p1 = p1
  p2 = p2
  list = list
  det = det
  mail = mail
  about = about
  idw = idw
  adw = adw
  listw = listw
  NoUrl = NoUrl
  Procs = {p1, p2}
  Bases = {list, det, mail, about}
  Lists = {list}
  Seed = list
  Words = {idw, adw, listw}
  UrlWords <- SiteWords
  Ids = {det}
  Bad = {mail}
  MaxPage = 3
  RENEW = 2
  Faults = {"fetch", "init", "malloc", "shm", "shixinconf", "recv", "send", "semop", "fopen",
            "fileurlinvolve"}
  Anchors <- Site
  Conf <- SiteConf
  FilePath = TRUE
  Envs <- ShardWindows
  Files <- ShardFiles
  UrlNum = 2
  MaxAnalyse = 2
SYMMETRY ProcSymmetry
INVARIANTS
  HandleSound
  InWindow
  OwnPage
  OnlyAccepted
  ShardCovered
