SPECIFICATION ScraperSpec
CONSTANTS
  e1 = e1  e2 = e2  p1 = p1  p2 = p2  c1 = c1  c2 = c2  r1 = r1  r2 = r2
  Absent = Absent
  Editions = {e1, e2}
  Paths = {p1, p2}
  PathOf <- MCPathOf
  Sums = {c1, c2}
  Runs = {r1, r2}
  Backfills = {r2}
  Periods <- MCPeriods
  TheRun = r1
  KeepsBucket = TRUE
  MaxAttempts = 1
  MaxFaults = 1
  Lookback = 1
  MaxRevisions = 1
  FirstSites <- MCFirstSites
  AloneSites <- MCAloneSites
  FirstPages <- MCFirstPages
  Old <- MCOld
  ToPublish <- MCToPublish
  PageSize = 2
  Reach = 2
  Period <- MCPeriod
  MaxPages = 4
  Days = 3
  MaxTries = 3
  Failures <- MCFailures
INVARIANTS MarkedWasAnnounced ReportsAddUp NothingIsLost
PROPERTIES SingleEveryEditionAnnounced
