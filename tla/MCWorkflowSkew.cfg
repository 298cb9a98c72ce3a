\* An operator asks for a second search while the first one ends.
CONSTANTS
  m1 = m1
  s1 = s1
  s2 = s2
  w1 = w1
  w2 = w2
  i1 = i1
  i2 = i2
  Media <- OneMedia
  Sites <- OneSite
  Workers <- OneWorker
  Inputs <- OneInput
  MaxAttempts = 1
  MaxRows <- Rows122
  NoInput = NoInput
  NoRow = NoRow
  NoRequest = NoRequest
SPECIFICATION Spec
INVARIANTS SearchStatusIsAggregated
\* Once the bounded rows are used up, nothing is left to do.
CHECK_DEADLOCK FALSE
