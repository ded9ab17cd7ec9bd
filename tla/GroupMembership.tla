--------------------------- MODULE GroupMembership ---------------------------
(***************************************************************************)
(* Who belongs to a group and who runs it (social.go, group_invites.go,    *)
(* group_join_requests.go).  Each HTTP handler is a process whose          *)
(* statements are separate steps; handlers that change members hold the    *)
(* conversation row (SELECT ... FOR UPDATE) from their first statement to  *)
(* their commit, a review of a join request only holds the request's row,  *)
(* and the checks of the review and invite handlers precede their          *)
(* transaction.                                                            *)
(***************************************************************************)
EXTENDS Naturals, FiniteSets

CONSTANTS
  Users,
  Creator,        \* who created the group, its first admin
  Founders,       \* the members it was created with
  Handlers,       \* requests that may be in progress at the same time
  Nobody,         \* nobody holds the conversation row
  Invites,        \* ids of group_invites rows
  NoInvite,
  MaxUses,        \* max_uses of every invite
  MembersCanAdd,  \* members_can_add_members
  MaxOps,         \* bound on requests
  MaxSwitches     \* bound on changes of join_approval_required

ASSUME ConstantsAssumption ==
  /\ Creator \in Users
  /\ Founders \subseteq Users
  /\ IsFiniteSet(Users)
  /\ Nobody \notin Handlers
  /\ NoInvite \notin Invites
  /\ MaxUses \in Nat \ {0}
  /\ MembersCanAdd \in BOOLEAN
  /\ MaxOps \in Nat
  /\ MaxSwitches \in Nat

VARIABLES
  role,      \* conversation_members.role, "none" without a row
  approval,  \* join_approval_required
  request,   \* group_join_requests.status, "none" without a row
  via,       \* group_join_requests.invite_id
  invite,    \* the state of each invite, as groupInviteStatus names it
  uses,      \* group_invites.use_count
  holder,    \* the handler that holds the conversation row
  stage,     \* how far each handler is
  job,       \* what it was asked to do
  seen,      \* what it has read since it holds the conversation row
  ops, switches   \* counters of the bounds

rowVars  == <<role, approval, request, via, invite, uses>>
vars == <<rowVars, holder, stage, job, seen, ops, switches>>

Roles    == {"none", "member", "admin"}
Statuses == {"none", "pending", "approved", "rejected"}
Ops      == {"leave", "remove", "setRole", "add", "join", "approve", "reject",
             "createInvite", "revokeInvite", "resetInvites"}
Jobs == [op : Ops, actor : Users, target : Users, role : Roles, invite : Invites \cup {NoInvite}]
Views == [role : Roles, admins : Nat, members : Nat, pending : BOOLEAN]

Job(op, actor, target, newRole, i) ==
  [op |-> op, actor |-> actor, target |-> target, role |-> newRole, invite |-> i]
NoJob  == Job("leave", Creator, Creator, "none", NoInvite)
NoView == [role |-> "none", admins |-> 0, members |-> 0, pending |-> FALSE]

Admins  == {u \in Users : role[u] = "admin"}
Members == {u \in Users : role[u] # "none"}

TypeOK ==
  /\ role \in [Users -> Roles]
  /\ approval \in BOOLEAN
  /\ request \in [Users -> Statuses]
  /\ via \in [Users -> Invites \cup {NoInvite}]
  /\ invite \in [Invites -> {"none", "active", "revoked", "expired"}]
  /\ uses \in [Invites -> Nat]
  /\ holder \in Handlers \cup {Nobody}
  /\ stage \in [Handlers -> {"idle", "checked", "locked", "read"}]
  /\ job \in [Handlers -> Jobs]
  /\ seen \in [Handlers -> Views]
  /\ ops \in 0..MaxOps
  /\ switches \in 0..MaxSwitches

(* createGroup. *)
Init ==
  /\ role = [u \in Users |-> IF u = Creator THEN "admin"
                             ELSE IF u \in Founders THEN "member" ELSE "none"]
  /\ approval \in BOOLEAN
  /\ request = [u \in Users |-> "none"]
  /\ via = [u \in Users |-> NoInvite]
  /\ invite = [i \in Invites |-> "none"]
  /\ uses = [i \in Invites |-> 0]
  /\ holder = Nobody
  /\ stage = [h \in Handlers |-> "idle"]
  /\ job = [h \in Handlers |-> NoJob]
  /\ seen = [h \in Handlers |-> NoView]
  /\ ops = 0 /\ switches = 0

-----------------------------------------------------------------------------
(* Row locks and the life of a handler.                                    *)

NobodyAsked == TRUE
Unlocked == holder = Nobody

RequestLocked(u) ==
  \E h \in Handlers : /\ stage[h] = "locked"
                      /\ job[h].op \in {"approve", "reject"}
                      /\ job[h].target = u

InviteLocked(i) ==
  \E h \in Handlers : stage[h] \in {"locked", "read"} /\ job[h].op = "join" /\ job[h].invite = i

Start(h, j, s) ==
  /\ stage[h] = "idle"
  /\ ops < MaxOps
  /\ ops' = ops + 1
  /\ job' = [job EXCEPT ![h] = j]
  /\ stage' = [stage EXCEPT ![h] = s]

(* The first statement locks the conversation row and reads the actor's    *)
(* membership.                                                             *)
Acquire(h, j) ==
  /\ Unlocked
  /\ Start(h, j, "locked")
  /\ holder' = h
  /\ UNCHANGED <<rowVars, seen, switches>>

Finish(h) ==
  /\ stage' = [stage EXCEPT ![h] = "idle"]
  /\ job' = [job EXCEPT ![h] = NoJob]
  /\ seen' = [seen EXCEPT ![h] = NoView]
  /\ holder' = IF holder = h THEN Nobody ELSE holder
  /\ UNCHANGED <<ops, switches>>

(* A request that is refused, fails, loses its client or is chosen as the  *)
(* victim of a deadlock is rolled back.                                    *)
Quit(h) ==
  /\ stage[h] # "idle"
  /\ Finish(h)
  /\ UNCHANGED rowVars

Doing(h, op, s) == job[h].op = op /\ stage[h] = s

-----------------------------------------------------------------------------
(* leaveGroup, removeGroupMember and updateGroupMemberRole.                *)

BeginLeave(h, u) ==
  role[u] # "none" /\ Acquire(h, Job("leave", u, u, "none", NoInvite))

BeginRemove(h, a, t) ==
  role[a] = "admin" /\ a # t /\ Acquire(h, Job("remove", a, t, "none", NoInvite))

BeginSetRole(h, a, t, r) ==
  role[a] = "admin" /\ Acquire(h, Job("setRole", a, t, r, NoInvite))

(* The target's role, and how many members and admins there are. *)
ReadRoles(h) ==
  /\ stage[h] = "locked"
  /\ job[h].op \in {"leave", "remove", "setRole"}
  /\ stage' = [stage EXCEPT ![h] = "read"]
  /\ seen' = [seen EXCEPT ![h] = [NoView EXCEPT !.role = role[job[h].target],
                                                 !.admins = Cardinality(Admins),
                                                 !.members = Cardinality(Members)]]
  /\ UNCHANGED <<rowVars, holder, job, ops, switches>>

LastAdmin(view) == view.role = "admin" /\ view.admins <= 1

WriteLeave(h) ==
  /\ Doing(h, "leave", "read")
  /\ ~(LastAdmin(seen[h]) /\ seen[h].members > 1)
  /\ role' = [role EXCEPT ![job[h].target] = "none"]
  /\ Finish(h)
  /\ UNCHANGED <<approval, request, via, invite, uses>>

WriteRemove(h) ==
  /\ Doing(h, "remove", "read")
  /\ seen[h].role # "none"
  /\ ~LastAdmin(seen[h])
  /\ role' = [role EXCEPT ![job[h].target] = "none"]
  /\ Finish(h)
  /\ UNCHANGED <<approval, request, via, invite, uses>>

WriteRole(h) ==
  /\ Doing(h, "setRole", "read")
  /\ seen[h].role \notin {"none", job[h].role}
  /\ ~(LastAdmin(seen[h]) /\ job[h].role = "member")
  /\ role' = [role EXCEPT ![job[h].target] = job[h].role]
  /\ Finish(h)
  /\ UNCHANGED <<approval, request, via, invite, uses>>

-----------------------------------------------------------------------------
(* addGroupMembers: a pending request of the new member is approved.       *)

BeginAdd(h, a, t) ==
  /\ role[a] = "admin" \/ (role[a] = "member" /\ MembersCanAdd)
  /\ a # t
  /\ Acquire(h, Job("add", a, t, "none", NoInvite))

EnrolSwapped(u) == role' = [role EXCEPT ![u] = IF @ = "none" THEN request[u] ELSE @]
Enrol(u) == role' = [role EXCEPT ![u] = IF @ = "none" THEN "member" ELSE @]

(* An UPDATE ... WHERE status='pending' waits for a review of the request. *)
LeavePending(u) == UNCHANGED request
SettlePending(u) ==
  /\ ~(request[u] = "pending" /\ RequestLocked(u))
  /\ request' = [request EXCEPT ![u] = IF @ = "pending" THEN "approved" ELSE @]

WriteAdd(h) ==
  /\ Doing(h, "add", "locked")
  /\ Enrol(job[h].target)
  /\ SettlePending(job[h].target)
  /\ Finish(h)
  /\ UNCHANGED <<approval, via, invite, uses>>

-----------------------------------------------------------------------------
(* joinGroupInvite.                                                        *)

OwnPending(u, i) == request[u] = "pending" /\ via[u] = i

BeginJoin(h, u, i) ==
  /\ invite[i] = "active"
  /\ uses[i] < MaxUses \/ OwnPending(u, i)
  /\ Acquire(h, Job("join", u, u, "none", i))

ReadApplicant(h) ==
  /\ Doing(h, "join", "locked")
  /\ stage' = [stage EXCEPT ![h] = "read"]
  /\ seen' = [seen EXCEPT ![h] = [NoView EXCEPT !.role = role[job[h].actor],
                                                 !.pending = request[job[h].actor] = "pending"]]
  /\ UNCHANGED <<rowVars, holder, job, ops, switches>>

JoinAsMember(h) ==
  /\ Doing(h, "join", "read")
  /\ seen[h].role # "none"
  /\ SettlePending(job[h].actor)
  /\ Finish(h)
  /\ UNCHANGED <<role, approval, via, invite, uses>>

(* queueGroupJoinRequest locks the request, and charges the invite for a   *)
(* new or renewed one.                                                     *)
HasUsesLeftUnchecked(i) == TRUE
HasUsesLeft(i) == uses[i] < MaxUses

JoinByRequest(h) ==
  LET u == job[h].actor
      i == job[h].invite
  IN /\ Doing(h, "join", "read")
     /\ seen[h].role = "none"
     /\ approval
     /\ ~RequestLocked(u)
     /\ \/ /\ request[u] = "pending"
           /\ UNCHANGED rowVars
        \/ /\ request[u] # "pending"
           /\ HasUsesLeft(i)
           /\ request' = [request EXCEPT ![u] = "pending"]
           /\ via' = [via EXCEPT ![u] = i]
           /\ uses' = [uses EXCEPT ![i] = @ + 1]
           /\ UNCHANGED <<role, approval, invite>>
     /\ Finish(h)

(* Without approval: a request that was pending has paid for the invite.   *)
JoinDirectly(h) ==
  LET u == job[h].actor
      i == job[h].invite
  IN /\ Doing(h, "join", "read")
     /\ seen[h].role = "none"
     /\ ~approval
     /\ Enrol(u)
     /\ \/ /\ seen[h].pending
           /\ SettlePending(u)
           /\ UNCHANGED uses
        \/ /\ ~seen[h].pending
           /\ uses' = [uses EXCEPT ![i] = @ + 1]
           /\ UNCHANGED request
     /\ Finish(h)
     /\ UNCHANGED <<approval, via, invite>>

-----------------------------------------------------------------------------
(* reviewGroupJoinRequest: the reviewer is checked before the transaction, *)
(* which locks the request but not the conversation; inserting a member    *)
(* waits for whoever holds the conversation (the foreign key).             *)

BeginReview(h, a, t, op) ==
  /\ role[a] = "admin"
  /\ request[t] # "none"
  /\ Start(h, Job(op, a, t, "none", NoInvite), "checked")
  /\ UNCHANGED <<rowVars, holder, seen, switches>>

LockRequest(h) ==
  /\ stage[h] = "checked"
  /\ job[h].op \in {"approve", "reject"}
  /\ request[job[h].target] = "pending"
  /\ ~RequestLocked(job[h].target)
  /\ stage' = [stage EXCEPT ![h] = "locked"]
  /\ UNCHANGED <<rowVars, holder, job, seen, ops, switches>>

Approve(h) ==
  /\ Doing(h, "approve", "locked")
  /\ role[job[h].target] = "none" => Unlocked
  /\ Enrol(job[h].target)
  /\ request' = [request EXCEPT ![job[h].target] = "approved"]
  /\ Finish(h)
  /\ UNCHANGED <<approval, via, invite, uses>>

Reject(h) ==
  /\ Doing(h, "reject", "locked")
  /\ request' = [request EXCEPT ![job[h].target] = "rejected"]
  /\ Finish(h)
  /\ UNCHANGED <<role, approval, via, invite, uses>>

-----------------------------------------------------------------------------
(* createGroupInvite, revokeGroupInvite, resetGroupInvites: an admin is    *)
(* checked first, the rows are written later.                              *)

BeginInvite(h, a, i, op) ==
  /\ role[a] = "admin"
  /\ op = "revokeInvite" <=> invite[i] # "none"
  /\ Start(h, Job(op, a, a, "none", i), "checked")
  /\ UNCHANGED <<rowVars, holder, seen, switches>>

CreateInvite(h) ==
  /\ Doing(h, "createInvite", "checked")
  /\ invite[job[h].invite] = "none"
  /\ invite' = [invite EXCEPT ![job[h].invite] = "active"]
  /\ Finish(h)
  /\ UNCHANGED <<role, approval, request, via, uses>>

RevokeInvite(h) ==
  /\ Doing(h, "revokeInvite", "checked")
  /\ ~InviteLocked(job[h].invite)
  /\ invite' = [invite EXCEPT ![job[h].invite] = "revoked"]
  /\ Finish(h)
  /\ UNCHANGED <<role, approval, request, via, uses>>

ResetInvites(h) ==
  LET usable == {i \in Invites : invite[i] = "active" /\ uses[i] < MaxUses}
  IN /\ Doing(h, "resetInvites", "checked")
     /\ invite[job[h].invite] = "none"
     /\ \A i \in usable : ~InviteLocked(i)
     /\ invite' = [i \in Invites |-> IF i = job[h].invite THEN "active"
                                     ELSE IF i \in usable THEN "revoked" ELSE invite[i]]
     /\ Finish(h)
     /\ UNCHANGED <<role, approval, request, via, uses>>

(* expires_at passes. *)
Expire(i) ==
  /\ invite[i] = "active"
  /\ invite' = [invite EXCEPT ![i] = "expired"]
  /\ UNCHANGED <<role, approval, request, via, uses, holder, stage, job, seen, ops, switches>>

(* updateGroup changes join_approval_required in one locked transaction.   *)
SwitchApproval(a) ==
  /\ switches < MaxSwitches
  /\ role[a] = "admin"
  /\ Unlocked
  /\ approval' = ~approval
  /\ switches' = switches + 1
  /\ UNCHANGED <<role, request, via, invite, uses, holder, stage, job, seen, ops>>

-----------------------------------------------------------------------------
Begin(h) ==
  \/ \E u \in Users : BeginLeave(h, u)
  \/ \E a, t \in Users : BeginRemove(h, a, t)
  \/ \E a, t \in Users, r \in {"admin", "member"} : BeginSetRole(h, a, t, r)
  \/ \E a, t \in Users : BeginAdd(h, a, t)
  \/ \E u \in Users, i \in Invites : BeginJoin(h, u, i)
  \/ \E a, t \in Users, op \in {"approve", "reject"} : BeginReview(h, a, t, op)
  \/ \E a \in Users, i \in Invites, op \in {"createInvite", "revokeInvite", "resetInvites"} :
       BeginInvite(h, a, i, op)

Continue(h) ==
  \/ ReadRoles(h) \/ ReadApplicant(h) \/ LockRequest(h)
  \/ WriteLeave(h) \/ WriteRemove(h) \/ WriteRole(h) \/ WriteAdd(h)
  \/ JoinAsMember(h) \/ JoinByRequest(h) \/ JoinDirectly(h)
  \/ Approve(h) \/ Reject(h)
  \/ CreateInvite(h) \/ RevokeInvite(h) \/ ResetInvites(h)
  \/ Quit(h)

Next ==
  \/ \E h \in Handlers : Begin(h) \/ Continue(h)
  \/ \E i \in Invites : Expire(i)
  \/ \E a \in Users : SwitchApproval(a)

Spec == Init /\ [][Next]_vars

-----------------------------------------------------------------------------
(* What the component promises.                                            *)

(* A group that has an admin keeps one as long as it has members: two      *)
(* admins who leave, demote or remove each other at the same time do not   *)
(* both get through.                                                       *)
AdminKept == [][Admins # {} /\ Members' # {} => Admins' # {}]_role

(* Members are removed and roles changed by who is an admin at that        *)
(* moment, and added by who may add: none of these transactions acts on an *)
(* authority that was lost since it was read.                              *)
MayManage(j) ==
  \/ role[j.actor] = "admin"
  \/ j.op = "add" /\ role[j.actor] = "member" /\ MembersCanAdd

AuthorityAtCommit ==
  [][\A h \in Handlers :
       job[h].op \in {"remove", "setRole", "add"} /\ stage[h] # "idle"
         /\ stage'[h] = "idle" /\ role' # role => MayManage(job[h])]_vars

(* Whoever is in the group no longer waits to be let in, by whichever of   *)
(* the four ways in he came.                                               *)
NoMemberWaits == \A u \in Members : request[u] # "pending"

(* An invite is not used more often than it allows.  The code does not     *)
(* keep this: who has a request that already paid for the invite passes    *)
(* the check of an exhausted one, and joinGroupInvite charges it again if  *)
(* the request was rejected between its two reads.                         *)
UsesWithinLimit == \A i \in Invites : uses[i] <= MaxUses

(* It takes an admin who switches join_approval_required to get there:     *)
(* until then concurrent joins, requests, approvals and resets keep every  *)
(* invite within its limit.                                                *)
LimitKeptUntilSwitched == switches = 0 => UsesWithinLimit

(* A group with members has an admin, as removeGroupMember words it: group *)
(* must have at least one admin.  An admin who is the only member may      *)
(* leave, and whoever then uses an invite joins as an ordinary member.     *)
AdminPresent == Members # {} => Admins # {}
=============================================================================
