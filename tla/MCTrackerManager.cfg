SPECIFICATION FairSpec
CONSTANTS
  Torrents <- MCTorrents
  Callers = {c1, c2}
  FirstCounts = {0, 2}
  MaxTrackers = 2
  MaxStarts = 2
  MinCount <- MCMinCount
INVARIANTS
  TypeOK
  EachTrackerHasOneDriver
  EventFitsSwarm
  SpacesAgree
PROPERTIES
  AskedAgain
  ShutdownOutcome
CHECK_DEADLOCK FALSE
