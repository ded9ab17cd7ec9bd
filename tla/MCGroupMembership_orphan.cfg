SPECIFICATION Spec
CONSTANTS
  Users = {ann, bob}
  Creator = ann
  Founders = {}
  Handlers = {h1}
  Nobody = Nobody
  Invites = {link}
  NoInvite = NoInvite
  MaxUses = 1
  MembersCanAdd = FALSE
  MaxOps = 4
  MaxSwitches = 0
INVARIANTS AdminPresent
CHECK_DEADLOCK FALSE
