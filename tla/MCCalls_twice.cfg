SPECIFICATION Spec
CONSTANTS
  Users = {ann, bob, cat}
  Pair = {ann, bob}
  Organizer = ann
  Accepted = {bob}
  Ids = {1, 2}
  Handlers = {h1, h2}
  Nobody = Nobody
  MaxOps = 2
  SecondOps = 2
  MaxFailures = 0
SYMMETRY HandlerSymmetry
INVARIANT OneCurrentCall
CHECK_DEADLOCK FALSE
