SPECIFICATION ForwardSpec
CONSTANTS
  Destinations = {t1, t2}
  Transactions = {f1, f2, f3, d1}
  Dispatchers = {d1}
  MaxChats = 1
  Connections = 4
  Free = Free
PROPERTIES DispatchEnds
CHECK_DEADLOCK FALSE
