\* Two executions whose plans select the same torrent, and two workers: the
\* requests meet in qBittorrent and one recovery settles both rows.
CONSTANTS
  e1 = e1
  e2 = e2
  w1 = w1
  w2 = w2
  t1 = t1
  Executions <- TwoExecutions
  Workers <- TwoWorkers
  Torrents <- OneTorrent
  TorrentOf <- SameTorrent
  MaxAttempts = 1
  LeaseTicks = 1
  MaxRevision = 1
  NoExecution = NoExecution
  NoWorker = NoWorker
SPECIFICATION Spec
SYMMETRY FullSymmetry
INVARIANTS OutcomeIsTrue
PROPERTY ImplementsOutcome
\* A revoked or finished execution leaves nothing to do: the system may stop.
CHECK_DEADLOCK FALSE
