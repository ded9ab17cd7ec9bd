SPECIFICATION Spec
CONSTANTS
  Users = {ann, bob, cat}
  Pair = {ann, bob}
  Organizer = ann
  Accepted = {bob}
  Ids = {1, 2}
  Handlers = {h1, h2}
  Nobody = Nobody
  MaxOps = 4
  SecondOps = 3
  MaxFailures = 1
CONSTRAINT Bounded
SYMMETRY HandlerSymmetry
INVARIANTS TypeOK CallerPresent NoticesTrue
PROPERTIES LifeSpec OnlyCallerEndsGroup
CHECK_DEADLOCK FALSE
