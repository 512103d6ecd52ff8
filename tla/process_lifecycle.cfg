CONSTANTS
  Peer = {p1, p2}
  NoPeer = NoPeer
  CliNumbers <- MCCliNumbers
  LongestDelta = 200
  Calendar = 100
SPECIFICATION PoliteProcess
INVARIANTS TypeOK NoScrapeCut WholePage ProcessOK ServedEndsOrderly SharedRootHarmless SettingsServe
PROPERTIES QuietAfterJoin ShutdownReturns ScrapeServed FaultEnds
CHECK_DEADLOCK FALSE
