\* Two workers racing for one execution: crashes, stale leases, takeovers,
\* revocation, expiry and a policy change in any order; workers and clock are
\* fair, crashes and lost answers stay free.
CONSTANTS
  e1 = e1
  e2 = e2
  w1 = w1
  w2 = w2
  t1 = t1
  Executions <- OneExecution
  Workers <- TwoWorkers
  Torrents <- OneTorrent
  TorrentOf <- SameTorrent
  MaxAttempts = 2
  LeaseTicks = 2
  MaxRevision = 2
  NoExecution = NoExecution
  NoWorker = NoWorker
SPECIFICATION FairSpec
INVARIANTS TypeOK AddSentAtMostOnce SentAddIsAccountedFor ApprovalFollowsExecution ActiveIffLeased OneSubmitter
PROPERTY EveryRequestSettles
\* A revoked or finished execution leaves nothing to do: the system may stop.
CHECK_DEADLOCK FALSE
