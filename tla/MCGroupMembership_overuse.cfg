SPECIFICATION Spec
CONSTANTS
  Users = {ann, bob, cat}
  Creator = ann
  Founders = {}
  Handlers = {h1, h2}
  Nobody = Nobody
  Invites = {link}
  NoInvite = NoInvite
  MaxUses = 1
  MembersCanAdd = FALSE
  MaxOps = 5
  MaxSwitches = 1
SYMMETRY HandlerSymmetry
INVARIANTS UsesWithinLimit
CHECK_DEADLOCK FALSE
