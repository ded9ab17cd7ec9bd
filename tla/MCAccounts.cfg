SPECIFICATION AccountsSpec
CONSTANTS
  Tokens = {1, 2, 3}
  Clients = {s1, s2}
  NoClient = NoClient
  AttemptLimit = 1
  MaxUncounted = 1
  Members = {p1}
  Chats = {h1}
  NoChat = NoChat
  Editors = {q1, q2}
  Schedulers = {d1, d2}
  Unlocked = Unlocked
  Same = Same
  Rules = {"none", "daily", "weekly", "monthly"}
  Times = {30}
  FirstDay <- FourMonths
  Moments <- ThreeDays
INVARIANTS AccountsTypeOK OneLivePerLogin MissesBounded NoticesKnown AnnouncedOnce
PROPERTIES MovesToNext
CHECK_DEADLOCK FALSE
