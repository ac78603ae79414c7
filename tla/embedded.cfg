SPECIFICATION FairSpec
CONSTANTS
  c1 = c1
  c2 = c2
  t1 = t1
  t2 = t2
  Client = {c1, c2}
  Thread = {t1, t2}
  Of <- OneEach
  Ports <- SharedHttp
  Wanted <- Versions
  Release = {"1.30.5", "1.31.0"}
  Packages = {"tar.gz", "zip"}
  Slots = 4
  MaxDeaths = 2
  Env = {"offline", "kill", "unready"}
INVARIANTS RunsWhatWasAsked OwnServer StopsServer
PROPERTIES Recovers
