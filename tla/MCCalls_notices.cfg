SPECIFICATION Spec
CONSTANTS
  Users = {ann, bob, cat}
  Pair = {ann, bob}
  Organizer = ann
  Accepted = {bob}
  Ids = {1}
  Handlers = {h1, h2}
  Nobody = Nobody
  MaxOps = 3
  SecondOps = 3
  MaxFailures = 0
SYMMETRY HandlerSymmetry
INVARIANT NoticesSettle
CHECK_DEADLOCK FALSE
