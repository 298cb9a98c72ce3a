\* Two files, two saves, two faults; two jobs in pages of one.
SPECIFICATION RecoverySpec
CONSTANTS
  NFiles = 2
  MaxSaves = 2
  MaxFaults = 2
  Gone = Gone
  Foreign = Foreign
  NJobs = 2
  BatchSize = 1
  Views <- OneView
  MaxRestarts = 1
  NoJob = NoJob
  Absent = Absent
  Twice = Twice
INVARIANTS AnsweredIsKept
PROPERTIES ImplementsStore OthersAreKept LeftoversAreRecovered EveryJobIsWatched
CHECK_DEADLOCK FALSE
