\* One worker fails while another takes its job over.
CONSTANTS
  m1 = m1
  s1 = s1
  s2 = s2
  w1 = w1
  w2 = w2
  i1 = i1
  i2 = i2
  Media <- OneMedia
  Sites <- OneSite
  Workers <- TwoWorkers
  Inputs <- OneInput
  MaxAttempts = 2
  MaxRows <- Rows111
  NoInput = NoInput
  NoRow = NoRow
  NoRequest = NoRequest
SPECIFICATION Spec
PROPERTIES StaleWorkerCannotCommit
\* Once the bounded rows are used up, nothing is left to do.
CHECK_DEADLOCK FALSE
