SPECIFICATION Spec
CONSTANTS
  i1 = i1  i2 = i2
  u1 = u1  c1 = c1
  Items = {i1, i2}
  Users = {u1}
  Chats = {c1}
  Dispatchers = {s1}
  Bodies = {b1}
  NoBody = NoBody
  NoItem = NoItem
  Sender <- OneGroupSender
  Chat <- OneGroupChat
  Kind <- OneGroupKind
  BatchLimit = 2
  MaxTime = 1
  MaxEdits = 0
  MaxFailures = 0
  MaxDisturbances = 1
PROPERTIES OnlyAdminsPostAnnouncements
CHECK_DEADLOCK FALSE
