\* Two workers, three discoveries that change an item's input and change it
\* back, three resolutions and two searches of it, an operator beside them:
\* lapsed leases, late failures, crashes.
CONSTANTS
  m1 = m1
  s1 = s1
  s2 = s2
  w1 = w1
  w2 = w2
  i1 = i1
  i2 = i2
  Media <- OneMedia
  Sites <- OneSite
  Workers <- TwoWorkers
  Inputs <- TwoInputs
  MaxAttempts = 1
  MaxRows <- Rows332
  NoInput = NoInput
  NoRow = NoRow
  NoRequest = NoRequest
SPECIFICATION Spec
SYMMETRY WorkflowSymmetry
INVARIANTS TypeOK NoResolutionOnceConfirmed PendingWorkIsQueued ActiveRunHasJob
PROPERTIES ConfirmedIsKept MatchesFitInput
\* Once the bounded rows are used up, nothing is left to do.
CHECK_DEADLOCK FALSE
