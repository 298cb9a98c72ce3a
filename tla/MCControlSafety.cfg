\* Two approvals, two keys, two confirmations at a time and a target that
\* changes; two addresses and a user beside those of the environment; every
\* candidate of two titles, hashes, sizes and TMDB ids, and one change of settings;
\* one download and one import plan after another.
SPECIFICATION ControlSpec
CONSTANTS
  a1 = a1
  a2 = a2
  k1 = k1
  k2 = k2
  t1 = t1
  t2 = t2
  c1 = c1
  c2 = c2
  p0 = p0
  p1 = p1
  h1 = h1
  u0 = u0
  u1 = u1
  Approvals = {a1, a2}
  Keys = {k1, k2}
  Targets = {t1, t2}
  Clients = {c1, c2}
  MaxIntents = 2
  RandomKey = RandomKey
  NoRequest = NoRequest
  Places = {p0, p1}
  Insecure = {h1}
  Users = {u1}
  EnvPlace = p0
  EnvUser = u0
  None = None
  Blank = Blank
  r1 = r1
  r2 = r2
  x1 = x1
  x2 = x2
  d1 = d1
  d2 = d2
  Titles = {r1, r2}
  Hashes = {x1, x2}
  Sizes = {1, 2}
  Ids = {d1, d2}
  SomeSettings <- TheSettings
  SomeAnswers <- TheAnswers
  MinSeeders = 1
  MaxChanges = 1
  Unknown = Unknown
  Nothing = Nothing
  i1 = i1
  i2 = i2
  g1 = g1
  g2 = g2
  n1 = n1
  n2 = n2
  NJobs = 1
  BatchSize = 1
  Views <- SomeViews
  MaxRestarts = 0
  NoJob = NoJob
  Absent = Absent
  Twice = Twice
  Requests = {i1, i2}
  Configs = {g1, g2}
  MediaTitles = {n1, n2}
  NoImport = NoImport
  NoPreflight = NoPreflight
SYMMETRY ControlSymmetry
INVARIANTS ReviewIsBacked InspectedAsPlanned OneActivePlan PlannedDownloadIsComplete
INVARIANTS IntentBacksExecution AnswersAgree SecretsStayPut FileStaysReadable CompleteIsUsable
PROPERTIES SubmittedIsAsApproved
CHECK_DEADLOCK FALSE
