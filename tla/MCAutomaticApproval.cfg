\* A candidate that the automation has selected, and answers of qBittorrent that
\* are all good.
SPECIFICATION EvidenceSpec
CONSTANTS
  r1 = r1
  r2 = r2
  x1 = x1
  x2 = x2
  d1 = d1
  d2 = d2
  Titles = {r1, r2}
  Hashes = {x1, x2}
  Sizes = {1, 2}
  Ids = {d1, d2}
  SomeSettings <- TheSettings
  SomeAnswers <- TheAnswers
  MinSeeders = 1
  MaxChanges = 1
  Unknown = Unknown
  Nothing = Nothing
SYMMETRY EvidenceSymmetry
INVARIANTS CompleteEvidencePasses
CHECK_DEADLOCK FALSE
