\* Two requests of one candidate; the second one only ever stands in the way.  A
\* policy and a configuration change, two automatic jobs and two results.
SPECIFICATION Spec
CONSTANTS
  a1 = a1
  a2 = a2
  Approvals = {a1, a2}
  Candidates <- OneCandidate
  CandidateOf <- SameCandidate
  Handlers = {h1}
  Workers = {w1}
  Policies <- SomePolicies
  MaxRevision = 2
  MaxConfig = 2
  MaxRuns <- TwoRuns
  MaxJobs <- JobsOfFirst
  Verdicts <- SomeVerdicts
  MaxAttempts = 1
  NoEvidence = NoEvidence
  NoWork = NoWork
INVARIANTS TypeOK PlanBacksStatus OneLivePerCandidate AutomationIsEntitled OneAutomaticVerdict
PROPERTIES GrantIsJustified
\* Every request may end: nothing is left to do.
CHECK_DEADLOCK FALSE
