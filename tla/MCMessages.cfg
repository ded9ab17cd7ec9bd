SPECIFICATION MessagesSpec
CONSTANTS
  Users = {ann, bob, cat}
  Private = {cat}
  Keys = {k1}
  NoKey = NoKey
  Sends = {1, 2}
  Reads = {r1, r2}
  None = None
  MaxOps = 3
  MaxFailures = 1
  Texts = {m1, m2}
  Edits = {e1, e2}
  PinMaximum = 1
  Voters = {v1, v2}
  Options = {o1, o2}
  Ballots = {b1, b2}
  AllowMultiple = FALSE
  Viewers = {w1, w2}
  Opens = {x1, x2, x3}
  Free = Free
  Contacts = {f1}
  Sharing = {j1, j2}
  Sweepers = {y1, y2}
  Admins = {a1, a2}
  Groups = {g1}
  Community = Community
  Linking = {l1, l2}
  Unheld = Unheld
  Destinations = {t1, t2}
  Transactions = {n1, n2, n3}
  Dispatchers = {n3}
  MaxChats = 2
  Connections = 2
SYMMETRY RequestSymmetry
INVARIANTS MessagesTypeOK ReadMeansAll RoomServed PinsLimited DeletedIsEmpty OneChoice ClosedIsFinal OpeningsCounted SharedMediaKept OnlyPoolBlocks
PROPERTIES PostedOnce LinkedByAdmin
CHECK_DEADLOCK FALSE
