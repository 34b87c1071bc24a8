\* Every module of the board, one area at a time; the last calls of an area are
\* its last steps.
CONSTANTS
  c1 = c1
  c2 = c2
  c3 = c3
  c4 = c4
  c5 = c5
  l1 = l1
  l2 = l2
  r1 = r1
  r2 = r2
  k1 = k1
  o1 = o1
  o2 = o2
  u1 = u1
  u2 = u2
  t1 = t1
  t2 = t2
  t3 = t3
  b1 = b1
  b2 = b2
  q1 = q1
  q2 = q2
  g1 = g1
  g2 = g2
  s1 = s1
  s2 = s2
  s3 = s3
  p1 = p1
  p2 = p2
  a1 = a1
  a2 = a2
  \* CardOrder
  None = None
  Gone = Gone
  NoKey = NoKey
  Letters = 26
  Card = {c1, c2, c3, c4, c5}
  List = {l1, l2}
  Request = {r1, r2}
  SeedCards <- MCSeedCards
  ForeignKeys <- MCForeignKeys
  BulkSize = 2
  MaxRequests = 2
  MaxFailures = 1
  \* BoardSync
  Tab = {u1}
  Elsewhere = Elsewhere
  SyncCard = {k1}
  Lane = {l1, l2}
  LaneOrder = {o1, o2}
  Change = {r1, r2}
  SeedBoard <- MCSeedBoard
  LISTS = LISTS
  NoBoardYet = NoBoardYet
  Unread = Unread
  NoFetch = NoFetch
  NoDrag = NoDrag
  MaxLosses = 1
  \* RealtimeHub
  Socket = {s1, s2, s3}
  Channel = {b1, b2}
  ProfileOf <- MCProfileOf
  SessionOf <- MCSessionOf
  NoBoard = NoBoard
  MaxMessages = 2
  \* BoardAccess
  Person = {u1, u2}
  Team = {t1, t2}
  Dojo = {b1, b2}
  Query = {r1, r2}
  SeedBoards <- MCSeedBoards
  SeedTeams <- MCSeedTeams
  Nobody = Nobody
  Removed = Removed
  NoRole = NoRole
  MaxQueries = 2
  MaxChanges = 1
  \* CardDetails
  Row = {c1, c2, c3}
  Editor = {u1, u2}
  Tag = {g1}
  DetailCall = {r1, r2}
  CHECKLIST = CHECKLIST
  FIELDS = FIELDS
  NoRow = NoRow
  UsedRow = UsedRow
  MaxDetailCalls = 4
  MaxDetailFails = 1
  \* ListOrder
  Column = {c1, c2, c3}
  ColumnCall = {r1, r2}
  NoColumn = NoColumn
  DroppedColumn = DroppedColumn
  MaxColumnCalls = 4
  MaxAtOnce = 2
  MaxColumnFails = 1
  \* OAuthServer
  AuthReq = {q1, q2}
  Agent = {g1, g2}
  AgentOf <- MCAgentOf
  AuthCode = {o1, o2}
  RefreshToken = {t1, t2, t3}
  OauthCall = {r1, r2}
  NoAuth = NoAuth
  AccessTtl = 1
  LastTick = 2
  MaxOauthCalls = 4
  MaxOauthFails = 1
  \* Notices
  Recipient = {u1, u2}
  Owner = u1
  Kata = {k1}
  NoticeCall = {r1, r2}
  Unassigned = Unassigned
  Same = Same
  NoKata = NoKata
  MaxNoticeCalls = 2
  MaxNoticeFails = 1
SYMMETRY Alike
SPECIFICATION BoardsSpec
CHECK_DEADLOCK FALSE
INVARIANTS
  BoardsTypeOK
  IndicesDistinct
  RespaceKeepsOrder
  RoomyDropLands
  RestingTabShowsBoard
  RosterIsShown
  AnswersWereTrue
  AloneNothingDoubles
  ColumnsAsMade
  OneTokenPerConsent
  RevokedLosesAccess
  ToldOncePerTurn
PROPERTIES
  LandsAtItsEnd
