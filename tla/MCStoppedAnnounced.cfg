SPECIFICATION FairSpec
CONSTANTS
  Torrents <- MCTorrents
  Callers = {c1}
  FirstCounts = {1, 2}
  MaxTrackers = 2
  MaxStarts = 1
  MinCount <- MCMinCount
INVARIANTS
  StoppedAnnounced
CHECK_DEADLOCK FALSE
