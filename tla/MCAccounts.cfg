\* Two users and three calls at a time; one connection and one to come; two
\* pictures and two attachments; two tabs, opened three times between them; two viewers
\* of one card's dates.
CONSTANTS
  u1 = u1
  u2 = u2
  p1 = p1
  p2 = p2
  p3 = p3
  n1 = n1
  n2 = n2
  g1 = g1
  a1 = a1
  a2 = a2
  x1 = x1
  x2 = x2
  f1 = f1
  f2 = f2
  w1 = w1
  w2 = w2
  v1 = v1
  v2 = v2
  \* ProfileProvisioning
  None = None
  User = {u1, u2}
  Call = {p1, p2, p3}
  MaxIds = 3
  MaxFailures = 1
  \* Integrations
  Link = {n1, n2}
  Provider = {g1}
  LinkCall = {p1, p2}
  NoLink = NoLink
  UsedLink = UsedLink
  SeedLinks <- MCSeedLinks
  FailureLimit = 2
  MaxLinkCalls = 4
  MaxLinkFails = 2
  \* Blobs
  Picture = {a1, a2}
  Path = {x1, x2}
  File = {f1, f2}
  BlobCall = {p1, p2}
  NoFile = NoFile
  UsedFile = UsedFile
  NoPicture = NoPicture
  MaxBlobCalls = 5
  MaxBlobFails = 1
  \* Consent
  Window = {w1, w2}
  NoConsent = NoConsent
  Never = Never
  MaxLoads = 3
  MaxChoices = 2
  MaxUnsaved = 1
  \* Schedule
  Viewer = {v1, v2}
  Zone <- MCZone
  FirstDay = 0
  LastDay = 1
  GridDays = 2
  MaxEdits = 2
  NoDate = NoDate
  Keep = Keep
  Unseen = Unseen
SPECIFICATION AccountsSpec
CHECK_DEADLOCK FALSE
INVARIANTS
  AccountsTypeOK
  OneIdentity
  NobodyStranded
  LoserFindsWinner
  CountsFailuresInARow
  UserHasLastWord
  NothingDangles
  TracksAsAllowed
  FetchCoversGrid
  BarMatchesCalendar
  NeverTurned
PROPERTIES
  EveryoneProvisioned
