SPECIFICATION Spec
CONSTANTS
  Users = {ann, bob, cat}
  Creator = ann
  Founders = {bob}
  Handlers = {h1, h2}
  Nobody = Nobody
  Invites = {link1, link2}
  NoInvite = NoInvite
  MaxUses = 1
  MembersCanAdd = TRUE
  MaxOps = 5
  MaxSwitches = 1
SYMMETRY HandlerSymmetry
INVARIANTS TypeOK NoMemberWaits LimitKeptUntilSwitched
PROPERTIES AdminKept AuthorityAtCommit
CHECK_DEADLOCK FALSE
