SPECIFICATION FairSchedulersSpec
CONSTANTS
  i1 = i1  i2 = i2  i3 = i3  i4 = i4
  u1 = u1  c1 = c1  c2 = c2  d1 = d1  d2 = d2  b1 = b1  b2 = b2
  Users = {u1}
  Chats = {c1, c2}
  Dispatchers = {d1, d2}
  NoBody = NoBody
  NoItem = NoItem
  Kind <- TwoKinds
  BatchLimit = 2
  MaxFailures = 1
  Shares = {1, 2}
  Rooms = {c1, c2}
  Devices = {v1}
  Ticker = Ticker
  Free = Free
  Batch = 1
  MaxLapses = 1
  Start = p0
  Items = {i1, i2, i3, i4}
  Bodies = {b1}
  Sender <- TwoChatsSender
  Chat <- TwoChatsChat
  MaxTime = 1
  MaxEdits = 0
  MaxDisturbances = 0
  Positions = {p0}
  Requests = {q1}
PROPERTIES DueIsResolved DueEnds
CHECK_DEADLOCK FALSE
