\* A handler goes on with the copy it has read before a rejection or a grant.
SPECIFICATION Spec
CONSTANTS
  a1 = a1
  a2 = a2
  Approvals = {a1, a2}
  Candidates <- OneCandidate
  CandidateOf <- SameCandidate
  Handlers = {h1}
  Workers = {}
  Policies <- SomePolicies
  MaxRevision = 2
  MaxConfig = 2
  MaxRuns <- TwoRuns
  MaxJobs <- JobsOfFirst
  Verdicts <- SomeVerdicts
  MaxAttempts = 1
  NoEvidence = NoEvidence
  NoWork = NoWork
PROPERTIES ResultStoredOnlyIfPending
\* Every request may end: nothing is left to do.
CHECK_DEADLOCK FALSE
