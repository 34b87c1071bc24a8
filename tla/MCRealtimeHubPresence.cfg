\* One socket would be enough for a user who sees himself.
CONSTANTS
  s1 = s1
  s2 = s2
  s3 = s3
  p1 = p1
  p2 = p2
  a1 = a1
  a2 = a2
  b1 = b1
  b2 = b2
  Socket = {s1, s2, s3}
  Channel = {b1, b2}
  ProfileOf <- MCProfileOf
  SessionOf <- MCSessionOf
  NoBoard = NoBoard
  MaxMessages = 2
SPECIFICATION HubSpec
CHECK_DEADLOCK FALSE
INVARIANTS
  NeverSeesItself
