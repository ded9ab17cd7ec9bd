------------------------ MODULE GroupMembership_proof ------------------------
(***************************************************************************)
(* Proofs about GroupMembership for any number of users, handlers and      *)
(* invites: what a handler has read stays true while it holds the          *)
(* conversation, and therefore so does what it decides.                    *)
(***************************************************************************)
EXTENDS GroupMembership, FiniteSetTheorems, TLAPS

(* What the properties need to be inductive.                               *)

Reviews == {"approve", "reject"}

Holding(h) == stage[h] \in {"locked", "read"} /\ job[h].op \notin Reviews

(* A handler that changes members holds the conversation, keeps the        *)
(* authority it was given, and what it has seen is still so.               *)
HandlerSound(h) ==
  /\ stage[h] = "checked" =>
       job[h].op \in {"approve", "reject", "createInvite", "revokeInvite", "resetInvites"}
  /\ stage[h] = "locked" =>
       job[h].op \in {"leave", "remove", "setRole", "add", "join", "approve", "reject"}
  /\ stage[h] = "read" => job[h].op \in {"leave", "remove", "setRole", "join"}
  /\ Holding(h) => holder = h
  /\ Holding(h) /\ job[h].op \in {"remove", "setRole", "add"} => MayManage(job[h])
  /\ job[h].op = "setRole" => job[h].role \in {"member", "admin"}
  /\ stage[h] = "read" /\ job[h].op \in {"leave", "remove", "setRole"} =>
       /\ seen[h].role = role[job[h].target]
       /\ seen[h].admins = Cardinality(Admins)
       /\ seen[h].members = Cardinality(Members)
  /\ stage[h] = "read" /\ job[h].op = "join" =>
       /\ seen[h].role = role[job[h].actor]
       /\ request[job[h].actor] = "pending" => seen[h].pending

HandlersSound == \A h \in Handlers : HandlerSound(h)

(* Without approval nobody has a pending request, and who is about to join *)
(* holds an invite with a use left.                                        *)
UsesReserved ==
  switches = 0 /\ ~approval =>
    /\ \A u \in Users : request[u] # "pending"
    /\ \A h \in Handlers : Holding(h) /\ job[h].op = "join" => uses[job[h].invite] < MaxUses

IInv ==
  /\ TypeOK
  /\ HandlersSound
  /\ NoMemberWaits
  /\ UsesReserved
  /\ LimitKeptUntilSwitched
-----------------------------------------------------------------------------
(* Types.                                                                  *)

(* The users are finitely many, so the counts of members are numbers.      *)
LEMMA Counts ==
  ASSUME TypeOK
  PROVE  /\ IsFiniteSet(Admins) /\ Cardinality(Admins) \in Nat
         /\ IsFiniteSet(Members) /\ Cardinality(Members) \in Nat
<1>1. Admins \subseteq Users /\ Members \subseteq Users
  BY DEF Admins, Members
<1> QED
  BY <1>1, ConstantsAssumption, FS_Subset, FS_CardinalityType

(* A handler that starts and one that finishes are well typed.             *)
LEMMA StartTypes ==
  ASSUME TypeOK, NEW h \in Handlers, NEW j \in Jobs,
         NEW s \in {"checked", "locked"}, Start(h, j, s)
  PROVE  /\ stage' \in [Handlers -> {"idle", "checked", "locked", "read"}]
         /\ job' \in [Handlers -> Jobs]
         /\ ops' \in 0..MaxOps
BY ConstantsAssumption DEF TypeOK, Start

(* A handler that finishes keeps the types of everything it resets.        *)
LEMMA FinishTypes ==
  ASSUME TypeOK, NEW h \in Handlers, Finish(h)
  PROVE  /\ stage' \in [Handlers -> {"idle", "checked", "locked", "read"}]
         /\ job' \in [Handlers -> Jobs]
         /\ seen' \in [Handlers -> Views]
         /\ holder' \in Handlers \cup {Nobody}
         /\ UNCHANGED <<ops, switches>>
<1>1. NoJob \in Jobs
  BY ConstantsAssumption DEF NoJob, Job, Jobs, Ops, Roles
<1>2. NoView \in Views
  BY DEF NoView, Views, Roles
<1> QED
  BY <1>1, <1>2 DEF TypeOK, Finish

(* Every request a handler can be given is one.                            *)
LEMMA BegunJob ==
  ASSUME NEW op \in Ops, NEW a \in Users, NEW t \in Users, NEW r \in Roles,
         NEW i \in Invites \cup {NoInvite}
  PROVE  Job(op, a, t, r, i) \in Jobs
BY DEF Job, Jobs

(* Charging an invite counts its uses.                                     *)
LEMMA Charged ==
  ASSUME TypeOK, NEW i \in Invites \cup {NoInvite}
  PROVE  [uses EXCEPT ![i] = @ + 1] \in [Invites -> Nat]
<1>1. \A n \in Nat : n + 1 \in Nat
  OBVIOUS
<1>2. uses \in [Invites -> Nat]
  BY DEF TypeOK
<1> QED
  BY <1>1, <1>2

(* How a request begins: it takes the conversation with the authority to   *)
(* do what it asks for, or it is only checked.                             *)
Takes(h, j) ==
  /\ Acquire(h, j)
  /\ j.op \in {"leave", "remove", "setRole", "add", "join"}
  /\ j.op \in {"remove", "setRole", "add"} => MayManage(j)
  /\ j.op = "setRole" => j.role \in {"member", "admin"}
  /\ j.op = "join" => uses[j.invite] < MaxUses \/ request[j.actor] = "pending"

IsChecked(h, j) ==
  /\ Start(h, j, "checked")
  /\ j.op \in {"approve", "reject", "createInvite", "revokeInvite", "resetInvites"}
  /\ UNCHANGED <<rowVars, holder, seen, switches>>

(* Every request begins in one of the two ways.                            *)
LEMMA BeginForm ==
  ASSUME NEW h \in Handlers, Begin(h)
  PROVE  \E j \in Jobs : Takes(h, j) \/ IsChecked(h, j)
<1>1. ASSUME NEW u \in Users, BeginLeave(h, u)
      PROVE  \E j \in Jobs : Takes(h, j)
  <2>1. Job("leave", u, u, "none", NoInvite) \in Jobs
    BY BegunJob DEF Ops, Roles
  <2> QED
    BY <1>1, <2>1 DEF BeginLeave, Takes, Job
<1>2. ASSUME NEW a \in Users, NEW t \in Users, BeginRemove(h, a, t)
      PROVE  \E j \in Jobs : Takes(h, j)
  <2>1. Job("remove", a, t, "none", NoInvite) \in Jobs
    BY BegunJob DEF Ops, Roles
  <2> QED
    BY <1>2, <2>1 DEF BeginRemove, Takes, Job, MayManage
<1>3. ASSUME NEW a \in Users, NEW t \in Users, NEW r \in {"admin", "member"},
             BeginSetRole(h, a, t, r)
      PROVE  \E j \in Jobs : Takes(h, j)
  <2>1. Job("setRole", a, t, r, NoInvite) \in Jobs
    BY BegunJob DEF Ops, Roles
  <2> QED
    BY <1>3, <2>1 DEF BeginSetRole, Takes, Job, MayManage
<1>4. ASSUME NEW a \in Users, NEW t \in Users, BeginAdd(h, a, t)
      PROVE  \E j \in Jobs : Takes(h, j)
  <2>1. Job("add", a, t, "none", NoInvite) \in Jobs
    BY BegunJob DEF Ops, Roles
  <2> QED
    BY <1>4, <2>1 DEF BeginAdd, Takes, Job, MayManage
<1>5. ASSUME NEW u \in Users, NEW i \in Invites, BeginJoin(h, u, i)
      PROVE  \E j \in Jobs : Takes(h, j)
  <2>1. Job("join", u, u, "none", i) \in Jobs
    BY BegunJob DEF Ops, Roles
  <2> QED
    BY <1>5, <2>1 DEF BeginJoin, OwnPending, Takes, Job
<1>6. ASSUME NEW a \in Users, NEW t \in Users, NEW op \in {"approve", "reject"},
             BeginReview(h, a, t, op)
      PROVE  \E j \in Jobs : IsChecked(h, j)
  <2>1. Job(op, a, t, "none", NoInvite) \in Jobs
    BY BegunJob DEF Ops, Roles
  <2> QED
    BY <1>6, <2>1 DEF BeginReview, IsChecked, Job
<1>7. ASSUME NEW a \in Users, NEW i \in Invites,
             NEW op \in {"createInvite", "revokeInvite", "resetInvites"},
             BeginInvite(h, a, i, op)
      PROVE  \E j \in Jobs : IsChecked(h, j)
  <2>1. Job(op, a, a, "none", i) \in Jobs
    BY BegunJob DEF Ops, Roles
  <2> QED
    BY <1>7, <2>1 DEF BeginInvite, IsChecked, Job
<1> QED
  BY <1>1, <1>2, <1>3, <1>4, <1>5, <1>6, <1>7 DEF Begin

(* Every step keeps the types.                                             *)
LEMMA TypeStep == TypeOK /\ [Next]_vars => TypeOK'
<1> SUFFICES ASSUME TypeOK, [Next]_vars PROVE TypeOK'
  OBVIOUS
<1> USE ConstantsAssumption
<1>1. ASSUME NEW h \in Handlers, Begin(h)
      PROVE  TypeOK'
  <2>1. PICK j \in Jobs : Takes(h, j) \/ IsChecked(h, j)
    BY <1>1, BeginForm
  <2>2. /\ stage' \in [Handlers -> {"idle", "checked", "locked", "read"}]
        /\ job' \in [Handlers -> Jobs]
        /\ ops' \in 0..MaxOps
    BY <2>1, StartTypes DEF Takes, IsChecked, Acquire
  <2>3. /\ holder' \in {holder, h}
        /\ UNCHANGED <<rowVars, seen, switches>>
    BY <2>1 DEF Takes, IsChecked, Acquire
  <2> QED
    BY <2>2, <2>3 DEF TypeOK, rowVars
<1>2. ASSUME NEW h \in Handlers, ReadRoles(h)
      PROVE  TypeOK'
  <2>1. [NoView EXCEPT !.role = role[job[h].target],
                       !.admins = Cardinality(Admins),
                       !.members = Cardinality(Members)] \in Views
    BY Counts DEF TypeOK, NoView, Views, Jobs
  <2> QED
    BY <1>2, <2>1 DEF TypeOK, ReadRoles, rowVars
<1>3. ASSUME NEW h \in Handlers, ReadApplicant(h)
      PROVE  TypeOK'
  <2>1. [NoView EXCEPT !.role = role[job[h].actor],
                       !.pending = request[job[h].actor] = "pending"] \in Views
    BY DEF TypeOK, NoView, Views, Jobs
  <2> QED
    BY <1>3, <2>1 DEF TypeOK, ReadApplicant, rowVars
<1>4. ASSUME NEW h \in Handlers, LockRequest(h)
      PROVE  TypeOK'
  BY <1>4 DEF TypeOK, LockRequest, rowVars
<1>5. ASSUME NEW h \in Handlers, Finish(h),
             /\ role' \in [Users -> Roles]
             /\ request' \in [Users -> Statuses]
             /\ via' \in [Users -> Invites \cup {NoInvite}]
             /\ invite' \in [Invites -> {"none", "active", "revoked", "expired"}]
             /\ uses' \in [Invites -> Nat]
             /\ UNCHANGED approval
      PROVE  TypeOK'
  BY <1>5, FinishTypes DEF TypeOK
<1>6. ASSUME NEW h \in Handlers, WriteLeave(h) \/ WriteRemove(h) \/ WriteRole(h)
      PROVE  TypeOK'
  <2>1. role' \in [Users -> Roles]
    BY <1>6 DEF TypeOK, WriteLeave, WriteRemove, WriteRole, Jobs, Roles
  <2> QED
    BY <1>5, <1>6, <2>1 DEF TypeOK, WriteLeave, WriteRemove, WriteRole
<1>7. ASSUME NEW h \in Handlers, WriteAdd(h)
      PROVE  TypeOK'
  <2>1. role' \in [Users -> Roles] /\ request' \in [Users -> Statuses]
    BY <1>7 DEF TypeOK, WriteAdd, Enrol, SettlePending, Jobs, Roles, Statuses
  <2> QED
    BY <1>5, <1>7, <2>1 DEF TypeOK, WriteAdd
<1>8. ASSUME NEW h \in Handlers, JoinAsMember(h)
      PROVE  TypeOK'
  <2>1. request' \in [Users -> Statuses]
    BY <1>8 DEF TypeOK, JoinAsMember, SettlePending, Statuses
  <2> QED
    BY <1>5, <1>8, <2>1 DEF TypeOK, JoinAsMember
<1>9. ASSUME NEW h \in Handlers, JoinByRequest(h)
      PROVE  TypeOK'
  <2>1. /\ request' \in [Users -> Statuses]
        /\ via' \in [Users -> Invites \cup {NoInvite}]
        /\ uses' \in [Invites -> Nat]
        /\ UNCHANGED <<role, approval, invite>>
    <3>1. CASE UNCHANGED rowVars
      BY <3>1 DEF TypeOK, rowVars
    <3>2. CASE /\ request' = [request EXCEPT ![job[h].actor] = "pending"]
               /\ via' = [via EXCEPT ![job[h].actor] = job[h].invite]
               /\ uses' = [uses EXCEPT ![job[h].invite] = @ + 1]
               /\ UNCHANGED <<role, approval, invite>>
      <4>1. job[h].invite \in Invites \cup {NoInvite}
        BY DEF TypeOK, Jobs
      <4> QED
        BY <3>2, <4>1, Charged DEF TypeOK, Statuses
    <3> QED
      BY <1>9, <3>1, <3>2 DEF JoinByRequest
  <2> QED
    BY <1>5, <1>9, <2>1 DEF TypeOK, JoinByRequest
<1>10. ASSUME NEW h \in Handlers, JoinDirectly(h)
       PROVE  TypeOK'
  <2>1. /\ role' \in [Users -> Roles]
        /\ request' \in [Users -> Statuses]
        /\ uses' \in [Invites -> Nat]
    <3>1. role' \in [Users -> Roles]
      BY <1>10 DEF TypeOK, JoinDirectly, Enrol, Roles
    <3>2. CASE SettlePending(job[h].actor) /\ UNCHANGED uses
      BY <3>1, <3>2 DEF TypeOK, SettlePending, Statuses
    <3>3. CASE uses' = [uses EXCEPT ![job[h].invite] = @ + 1] /\ UNCHANGED request
      <4>1. job[h].invite \in Invites \cup {NoInvite}
        BY DEF TypeOK, Jobs
      <4> QED
        BY <3>1, <3>3, <4>1, Charged DEF TypeOK
    <3> QED
      BY <1>10, <3>2, <3>3 DEF JoinDirectly
  <2> QED
    BY <1>5, <1>10, <2>1 DEF TypeOK, JoinDirectly
<1>11. ASSUME NEW h \in Handlers, Approve(h)
       PROVE  TypeOK'
  <2>1. role' \in [Users -> Roles] /\ request' \in [Users -> Statuses]
    BY <1>11 DEF TypeOK, Approve, Enrol, Roles, Statuses
  <2> QED
    BY <1>5, <1>11, <2>1 DEF TypeOK, Approve
<1>12. ASSUME NEW h \in Handlers, Reject(h)
       PROVE  TypeOK'
  <2>1. request' \in [Users -> Statuses]
    BY <1>12 DEF TypeOK, Reject, Statuses
  <2> QED
    BY <1>5, <1>12, <2>1 DEF TypeOK, Reject
<1>13. ASSUME NEW h \in Handlers, CreateInvite(h) \/ RevokeInvite(h) \/ ResetInvites(h)
       PROVE  TypeOK'
  <2>1. invite' \in [Invites -> {"none", "active", "revoked", "expired"}]
    BY <1>13 DEF TypeOK, CreateInvite, RevokeInvite, ResetInvites
  <2> QED
    BY <1>5, <1>13, <2>1 DEF TypeOK, CreateInvite, RevokeInvite, ResetInvites
<1>14. ASSUME NEW h \in Handlers, Quit(h)
       PROVE  TypeOK'
  BY <1>5, <1>14 DEF TypeOK, Quit, rowVars
<1>15. ASSUME NEW i \in Invites, Expire(i)
       PROVE  TypeOK'
  BY <1>15 DEF TypeOK, Expire
<1>16. ASSUME NEW a \in Users, SwitchApproval(a)
       PROVE  TypeOK'
  BY <1>16 DEF TypeOK, SwitchApproval
<1>17. CASE UNCHANGED vars
  BY <1>17 DEF TypeOK, vars, rowVars
<1> QED
  BY <1>1, <1>2, <1>3, <1>4, <1>6, <1>7, <1>8, <1>9, <1>10, <1>11, <1>12, <1>13,
     <1>14, <1>15, <1>16, <1>17 DEF Next, Continue
-----------------------------------------------------------------------------
(* What a handler has seen stays so while it holds the conversation.       *)

(* What another step may do to the rows while k is at work.                *)
Undisturbed(k) ==
  holder = k => /\ UNCHANGED role
                /\ \A u \in Users : request'[u] = "pending" => request[u] = "pending"

(* A handler that another step leaves alone, and whose rows it leaves      *)
(* alone while it holds the conversation, stays sound.                     *)
LEMMA HandlerKept ==
  ASSUME TypeOK, NEW k \in Handlers, HandlerSound(k),
         stage'[k] = stage[k], job'[k] = job[k], seen'[k] = seen[k],
         Holding(k) => holder' = k, Undisturbed(k)
  PROVE  HandlerSound(k)'
<1>1. job[k].actor \in Users
  BY DEF TypeOK, Jobs
<1>2. Holding(k)' <=> Holding(k)
  BY DEF Holding
<1>3. CASE Holding(k)
  <2>1. UNCHANGED role
    BY <1>3 DEF HandlerSound, Undisturbed
  <2>2. Admins' = Admins /\ Members' = Members /\ (MayManage(job[k])' <=> MayManage(job[k]))
    BY <2>1 DEF Admins, Members, MayManage
  <2>3. request'[job[k].actor] = "pending" => request[job[k].actor] = "pending"
    BY <1>1, <1>3 DEF HandlerSound, Undisturbed
  <2> QED
    BY <1>2, <1>3, <2>1, <2>2, <2>3 DEF HandlerSound
<1>4. CASE ~Holding(k)
  <2>1. stage[k] # "read"
    BY <1>4 DEF Holding, HandlerSound, Reviews
  <2> QED
    BY <1>2, <1>4, <2>1 DEF HandlerSound
<1> QED
  BY <1>3, <1>4

(* A handler that finishes leaves the others as they are.                  *)
LEMMA FinishSound ==
  ASSUME TypeOK, HandlersSound, NEW h \in Handlers, Finish(h),
         \A k \in Handlers \ {h} : Undisturbed(k)
  PROVE  HandlersSound'
<1> SUFFICES ASSUME NEW k \in Handlers PROVE HandlerSound(k)'
  BY DEF HandlersSound
<1>1. CASE k = h
  <2>1. stage'[k] = "idle" /\ job'[k].op = "leave"
    BY <1>1 DEF Finish, NoJob, Job, TypeOK
  <2> QED
    BY <2>1 DEF HandlerSound, Holding
<1>2. CASE k # h
  <2>1. stage'[k] = stage[k] /\ job'[k] = job[k] /\ seen'[k] = seen[k]
    BY <1>2 DEF Finish, TypeOK
  <2>2. Holding(k) => holder' = k
    BY <1>2 DEF Finish, HandlersSound, HandlerSound
  <2> QED
    BY <1>2, <2>1, <2>2, HandlerKept DEF HandlersSound
<1> QED
  BY <1>1, <1>2

(* So does one that finishes while it holds the conversation itself.       *)
LEMMA HolderFinishes ==
  ASSUME TypeOK, HandlersSound, NEW h \in Handlers, Holding(h), Finish(h)
  PROVE  HandlersSound'
BY FinishSound DEF HandlersSound, HandlerSound, Undisturbed

(* Every step keeps what the handlers have seen true: only the holder of   *)
(* the conversation removes members and changes roles, and a review lets   *)
(* somebody in only while nobody holds it.                                 *)
LEMMA HandlersStep == TypeOK /\ HandlersSound /\ [Next]_vars => HandlersSound'
<1> SUFFICES ASSUME TypeOK, HandlersSound, [Next]_vars PROVE HandlersSound'
  OBVIOUS
<1>1. ASSUME NEW h \in Handlers, Begin(h)
      PROVE  HandlersSound'
  <2>1. PICK j \in Jobs : Takes(h, j) \/ IsChecked(h, j)
    BY <1>1, BeginForm
  <2>2. /\ stage[h] = "idle"
        /\ job' = [job EXCEPT ![h] = j]
        /\ UNCHANGED <<role, request, seen>>
    BY <2>1 DEF Takes, IsChecked, Acquire, Start, rowVars
  <2>3. CASE Takes(h, j)
    <3>1. stage' = [stage EXCEPT ![h] = "locked"] /\ holder' = h /\ holder = Nobody
      BY <2>3 DEF Takes, Acquire, Start, Unlocked
    <3>2. HandlerSound(h)'
      BY <2>2, <2>3, <3>1 DEF Takes, HandlerSound, Holding, TypeOK, MayManage
    <3>3. ASSUME NEW k \in Handlers \ {h}
          PROVE  HandlerSound(k)'
      <4>1. ~Holding(k)
        BY <3>1, ConstantsAssumption DEF HandlersSound, HandlerSound
      <4> QED
        BY <2>2, <3>1, <4>1, HandlerKept DEF HandlersSound, TypeOK, Undisturbed
    <3> QED
      BY <3>2, <3>3 DEF HandlersSound
  <2>4. CASE IsChecked(h, j)
    <3>1. stage' = [stage EXCEPT ![h] = "checked"] /\ holder' = holder
      BY <2>4 DEF IsChecked, Start
    <3>2. HandlerSound(h)'
      BY <2>2, <2>4, <3>1 DEF IsChecked, HandlerSound, Holding, TypeOK
    <3>3. ASSUME NEW k \in Handlers \ {h}
          PROVE  HandlerSound(k)'
      BY <2>2, <3>1, HandlerKept DEF HandlersSound, HandlerSound, TypeOK, Undisturbed
    <3> QED
      BY <3>2, <3>3 DEF HandlersSound
  <2> QED
    BY <2>1, <2>3, <2>4
<1>2. ASSUME NEW h \in Handlers, ReadRoles(h) \/ ReadApplicant(h) \/ LockRequest(h)
      PROVE  HandlersSound'
  <2>1. UNCHANGED <<role, request, holder, job>>
    BY <1>2 DEF ReadRoles, ReadApplicant, LockRequest, rowVars
  <2>2. \A k \in Handlers \ {h} : stage'[k] = stage[k] /\ seen'[k] = seen[k]
    BY <1>2 DEF ReadRoles, ReadApplicant, LockRequest, TypeOK
  <2>3. ASSUME NEW k \in Handlers \ {h}
        PROVE  HandlerSound(k)'
    BY <2>1, <2>2, HandlerKept DEF HandlersSound, HandlerSound, Undisturbed
  <2>4. Admins' = Admins /\ Members' = Members /\ (MayManage(job[h])' <=> MayManage(job[h]))
    BY <2>1 DEF Admins, Members, MayManage
  <2>5. HandlerSound(h)
    BY DEF HandlersSound
  <2>6. CASE ReadRoles(h)
    <3>1. /\ stage[h] = "locked" /\ stage'[h] = "read"
          /\ job[h].op \in {"leave", "remove", "setRole"}
          /\ seen'[h].role = role[job[h].target]
          /\ seen'[h].admins = Cardinality(Admins)
          /\ seen'[h].members = Cardinality(Members)
      BY <2>6 DEF ReadRoles, TypeOK, NoView
    <3> QED
      BY <2>1, <2>3, <2>4, <2>5, <3>1 DEF HandlersSound, HandlerSound, Holding, Reviews
  <2>7. CASE ReadApplicant(h)
    <3>1. /\ stage[h] = "locked" /\ stage'[h] = "read"
          /\ job[h].op = "join"
          /\ seen'[h].role = role[job[h].actor]
          /\ seen'[h].pending = (request[job[h].actor] = "pending")
      BY <2>7 DEF ReadApplicant, Doing, TypeOK, NoView
    <3> QED
      BY <2>1, <2>3, <2>4, <2>5, <3>1 DEF HandlersSound, HandlerSound, Holding, Reviews
  <2>8. CASE LockRequest(h)
    <3>1. stage'[h] = "locked" /\ job[h].op \in Reviews
      BY <2>8 DEF LockRequest, TypeOK, Reviews
    <3> QED
      BY <2>1, <2>3, <2>5, <3>1 DEF HandlersSound, HandlerSound, Holding, Reviews
  <2> QED
    BY <1>2, <2>6, <2>7, <2>8
<1>3. ASSUME NEW h \in Handlers,
             \/ WriteLeave(h) \/ WriteRemove(h) \/ WriteRole(h) \/ WriteAdd(h)
             \/ JoinAsMember(h) \/ JoinByRequest(h) \/ JoinDirectly(h)
      PROVE  HandlersSound'
  <2>1. Holding(h) /\ Finish(h)
    BY <1>3 DEF WriteLeave, WriteRemove, WriteRole, WriteAdd, JoinAsMember,
                JoinByRequest, JoinDirectly, Doing, Holding, Reviews
  <2> QED
    BY <2>1, HolderFinishes
<1>4. ASSUME NEW h \in Handlers, Approve(h)
      PROVE  HandlersSound'
  <2>1. \A u \in Users : request'[u] = "pending" => request[u] = "pending"
    BY <1>4 DEF Approve, TypeOK
  <2>2. UNCHANGED role \/ holder = Nobody
    <3>1. CASE role[job[h].target] = "none"
      BY <1>4, <3>1 DEF Approve, Unlocked
    <3>2. CASE role[job[h].target] # "none"
      BY <1>4, <3>2 DEF Approve, Enrol, TypeOK
    <3> QED
      BY <3>1, <3>2
  <2>3. \A k \in Handlers \ {h} : Undisturbed(k)
    BY <2>1, <2>2, ConstantsAssumption DEF Undisturbed
  <2> QED
    BY <1>4, <2>3, FinishSound DEF Approve
<1>5. ASSUME NEW h \in Handlers, Reject(h)
      PROVE  HandlersSound'
  <2>1. \A k \in Handlers \ {h} : Undisturbed(k)
    BY <1>5 DEF Reject, Undisturbed, TypeOK
  <2> QED
    BY <1>5, <2>1, FinishSound DEF Reject
<1>6. ASSUME NEW h \in Handlers,
             CreateInvite(h) \/ RevokeInvite(h) \/ ResetInvites(h) \/ Quit(h)
      PROVE  HandlersSound'
  <2>1. Finish(h) /\ UNCHANGED <<role, request>>
    BY <1>6 DEF CreateInvite, RevokeInvite, ResetInvites, Quit, rowVars
  <2> QED
    BY <2>1, FinishSound DEF Undisturbed
<1>7. ASSUME UNCHANGED <<role, request, holder, stage, job, seen>>
      PROVE  HandlersSound'
  BY <1>7, HandlerKept DEF HandlersSound, HandlerSound, Undisturbed
<1> QED
  BY <1>1, <1>2, <1>3, <1>4, <1>5, <1>6, <1>7
  DEF Next, Continue, Expire, SwitchApproval, vars, rowVars
-----------------------------------------------------------------------------
(* Members and their requests.                                             *)

(* Every step keeps members out of the queue of requests: each way in      *)
(* settles the request in the transaction that inserts the member.         *)
LEMMA WaitStep ==
  TypeOK /\ HandlersSound /\ NoMemberWaits /\ [Next]_vars => NoMemberWaits'
<1> SUFFICES ASSUME TypeOK, HandlersSound, NoMemberWaits, [Next]_vars,
                    NEW u \in Users, role'[u] # "none"
             PROVE  request'[u] # "pending"
  BY DEF NoMemberWaits, Members
<1>0. role[u] # "none" => request[u] # "pending"
  BY DEF NoMemberWaits, Members
<1>1. ASSUME NEW h \in Handlers, Begin(h)
      PROVE  request'[u] # "pending"
  BY <1>0, <1>1, BeginForm DEF Takes, IsChecked, Acquire, rowVars
<1>2. ASSUME NEW h \in Handlers, WriteLeave(h) \/ WriteRemove(h) \/ WriteRole(h)
      PROVE  request'[u] # "pending"
  <2>1. request' = request
    BY <1>2 DEF WriteLeave, WriteRemove, WriteRole
  <2>2. role'[u] # "none" => role[u] # "none"
    BY <1>2 DEF TypeOK, HandlersSound, HandlerSound, WriteLeave, WriteRemove, WriteRole, Doing
  <2> QED
    BY <1>0, <2>1, <2>2
<1>3. ASSUME NEW h \in Handlers, NEW v \in Users, SettlePending(v),
             Enrol(v) \/ UNCHANGED role
      PROVE  request'[u] # "pending"
  BY <1>0, <1>3 DEF TypeOK, SettlePending, Enrol
<1>4. ASSUME NEW h \in Handlers, WriteAdd(h) \/ JoinAsMember(h)
      PROVE  request'[u] # "pending"
  BY <1>3, <1>4 DEF TypeOK, Jobs, WriteAdd, JoinAsMember
<1>5. ASSUME NEW h \in Handlers, JoinByRequest(h)
      PROVE  request'[u] # "pending"
  <2>1. role[job[h].actor] = "none"
    BY <1>5 DEF JoinByRequest, Doing, HandlersSound, HandlerSound
  <2>2. UNCHANGED role /\ \A v \in Users \ {job[h].actor} : request'[v] = request[v]
    BY <1>5 DEF JoinByRequest, TypeOK, rowVars
  <2> QED
    BY <1>0, <2>1, <2>2
<1>6. ASSUME NEW h \in Handlers, JoinDirectly(h)
      PROVE  request'[u] # "pending"
  <2>1. job[h].actor \in Users
    BY DEF TypeOK, Jobs
  <2>2. CASE SettlePending(job[h].actor)
    BY <1>3, <1>6, <2>1, <2>2 DEF JoinDirectly
  <2>3. CASE ~seen[h].pending /\ UNCHANGED request
    <3>1. request[job[h].actor] # "pending"
      BY <1>6, <2>3 DEF JoinDirectly, Doing, HandlersSound, HandlerSound
    <3>2. \A v \in Users \ {job[h].actor} : role'[v] = role[v]
      BY <1>6 DEF JoinDirectly, Enrol, TypeOK
    <3> QED
      BY <1>0, <2>3, <3>1, <3>2
  <2> QED
    BY <1>6, <2>2, <2>3 DEF JoinDirectly
<1>7. ASSUME NEW h \in Handlers, Approve(h)
      PROVE  request'[u] # "pending"
  BY <1>0, <1>7 DEF Approve, Enrol, TypeOK, Jobs
<1>8. ASSUME NEW h \in Handlers, Reject(h)
      PROVE  request'[u] # "pending"
  BY <1>0, <1>8 DEF Reject, TypeOK
<1>9. ASSUME UNCHANGED <<role, request>>
      PROVE  request'[u] # "pending"
  BY <1>0, <1>9
<1> QED
  BY <1>1, <1>2, <1>4, <1>5, <1>6, <1>7, <1>8, <1>9
  DEF Next, Continue, ReadRoles, ReadApplicant, LockRequest, CreateInvite, RevokeInvite,
      ResetInvites, Quit, Expire, SwitchApproval, vars, rowVars

-----------------------------------------------------------------------------
(* Uses of invites.                                                        *)

UsesSound == UsesReserved /\ LimitKeptUntilSwitched

(* Nothing is used, nothing is asked for and nobody joins.                 *)
LEMMA UsesKept ==
  ASSUME UsesSound, UNCHANGED <<uses, approval, switches>>,
         \A u \in Users : request'[u] = "pending" => request[u] = "pending",
         \A k \in Handlers : (Holding(k) /\ job[k].op = "join")' =>
           Holding(k) /\ job[k].op = "join" /\ job'[k].invite = job[k].invite
  PROVE  UsesSound'
<1>1. LimitKeptUntilSwitched'
  BY DEF UsesSound, LimitKeptUntilSwitched, UsesWithinLimit
<1>2. UsesReserved'
  BY DEF UsesSound, UsesReserved
<1> QED
  BY <1>1, <1>2 DEF UsesSound

(* A handler that holds the conversation after another has finished held   *)
(* it before.                                                              *)
LEMMA FinishHolding ==
  ASSUME TypeOK, NEW h \in Handlers, Finish(h), NEW k \in Handlers, (Holding(k))'
  PROVE  k # h /\ Holding(k) /\ job'[k] = job[k]
BY DEF TypeOK, Finish, Holding

(* Every step keeps the invites within their limit while                   *)
(* join_approval_required has not been switched.                           *)
LEMMA UsesStep ==
  TypeOK /\ HandlersSound /\ UsesSound /\ [Next]_vars => UsesSound'
<1> SUFFICES ASSUME TypeOK, HandlersSound, UsesSound, [Next]_vars PROVE UsesSound'
  OBVIOUS
<1>1. ASSUME NEW h \in Handlers, Begin(h)
      PROVE  UsesSound'
  <2>1. PICK j \in Jobs : Takes(h, j) \/ IsChecked(h, j)
    BY <1>1, BeginForm
  <2>2. /\ UNCHANGED <<uses, request, approval, switches>>
        /\ job' = [job EXCEPT ![h] = j]
        /\ \A k \in Handlers \ {h} : job'[k] = job[k] /\ stage'[k] = stage[k]
    BY <2>1 DEF Takes, IsChecked, Acquire, Start, TypeOK, rowVars
  <2>3. CASE IsChecked(h, j)
    <3>1. stage'[h] = "checked"
      BY <2>3 DEF IsChecked, Start, TypeOK
    <3> QED
      BY <2>2, <3>1, UsesKept DEF Holding
  <2>4. CASE Takes(h, j)
    <3>1. LimitKeptUntilSwitched'
      BY <2>2 DEF UsesSound, LimitKeptUntilSwitched, UsesWithinLimit
    <3>2. SUFFICES ASSUME switches = 0, ~approval
                   PROVE  /\ \A u \in Users : request[u] # "pending"
                          /\ \A k \in Handlers : (Holding(k) /\ job[k].op = "join")' =>
                               uses[job'[k].invite] < MaxUses
      BY <2>2, <3>1 DEF UsesSound, UsesReserved
    <3>3. \A u \in Users : request[u] # "pending"
      BY <3>2 DEF UsesSound, UsesReserved
    <3>4. j.op = "join" => uses[j.invite] < MaxUses
      BY <2>4, <3>3 DEF Takes, Jobs
    <3>5. ASSUME NEW k \in Handlers \ {h}, (Holding(k) /\ job[k].op = "join")'
          PROVE  uses[job'[k].invite] < MaxUses
      BY <2>2, <3>2, <3>5 DEF UsesSound, UsesReserved, Holding
    <3>6. job'[h] = j
      BY <2>2 DEF TypeOK
    <3> QED
      BY <3>3, <3>4, <3>5, <3>6
  <2> QED
    BY <2>1, <2>3, <2>4
<1>2. ASSUME NEW h \in Handlers, ReadRoles(h) \/ ReadApplicant(h) \/ LockRequest(h)
      PROVE  UsesSound'
  <2>1. UNCHANGED <<uses, request, approval, switches, job>>
    BY <1>2 DEF ReadRoles, ReadApplicant, LockRequest, rowVars
  <2>2. \A k \in Handlers : (Holding(k))' => Holding(k)
    BY <1>2 DEF ReadRoles, ReadApplicant, LockRequest, Doing, Holding, Reviews, TypeOK
  <2> QED
    BY <2>1, <2>2, UsesKept
<1>3. ASSUME NEW h \in Handlers, Finish(h), UNCHANGED <<uses, approval>>,
             \A u \in Users : request'[u] = "pending" => request[u] = "pending"
      PROVE  UsesSound'
  BY <1>3, FinishHolding, UsesKept DEF Finish
<1>4. ASSUME NEW h \in Handlers,
             \/ WriteLeave(h) \/ WriteRemove(h) \/ WriteRole(h) \/ CreateInvite(h)
             \/ RevokeInvite(h) \/ ResetInvites(h) \/ Quit(h)
      PROVE  UsesSound'
  BY <1>3, <1>4 DEF WriteLeave, WriteRemove, WriteRole, CreateInvite, RevokeInvite,
                    ResetInvites, Quit, rowVars
<1>5. ASSUME NEW h \in Handlers, NEW v \in Users, SettlePending(v)
      PROVE  \A u \in Users : request'[u] = "pending" => request[u] = "pending"
  BY <1>5 DEF SettlePending, TypeOK
<1>6. ASSUME NEW h \in Handlers, WriteAdd(h) \/ JoinAsMember(h)
      PROVE  UsesSound'
  BY <1>3, <1>5, <1>6 DEF WriteAdd, JoinAsMember, TypeOK, Jobs
<1>7. ASSUME NEW h \in Handlers, Approve(h) \/ Reject(h)
      PROVE  UsesSound'
  <2>1. \A u \in Users : request'[u] = "pending" => request[u] = "pending"
    BY <1>7 DEF Approve, Reject, TypeOK
  <2> QED
    BY <1>3, <1>7, <2>1 DEF Approve, Reject
<1>8. ASSUME NEW h \in Handlers, Holding(h), job[h].op = "join",
             JoinByRequest(h) \/ JoinDirectly(h)
      PROVE  \A k \in Handlers : ~(Holding(k))'
  <2>1. Finish(h)
    BY <1>8 DEF JoinByRequest, JoinDirectly
  <2>2. \A k \in Handlers : Holding(k) => k = h
    BY <1>8 DEF HandlersSound, HandlerSound
  <2> QED
    BY <2>1, <2>2, FinishHolding
<1>9. ASSUME NEW h \in Handlers, JoinByRequest(h)
      PROVE  UsesSound'
  <2>1. approval' /\ switches' = switches
    BY <1>9 DEF JoinByRequest, Finish, rowVars
  <2>2. UsesReserved'
    BY <2>1 DEF UsesReserved
  <2>3. CASE UNCHANGED rowVars
    BY <2>1, <2>2, <2>3 DEF UsesSound, LimitKeptUntilSwitched, UsesWithinLimit, rowVars
  <2>4. CASE HasUsesLeft(job[h].invite) /\ uses' = [uses EXCEPT ![job[h].invite] = @ + 1]
    <3>1. \A i \in Invites : uses[i] <= MaxUses => uses'[i] <= MaxUses
      BY <2>4, ConstantsAssumption DEF HasUsesLeft, TypeOK
    <3> QED
      BY <2>1, <2>2, <3>1 DEF UsesSound, LimitKeptUntilSwitched, UsesWithinLimit
  <2> QED
    BY <1>9, <2>3, <2>4 DEF JoinByRequest
<1>10. ASSUME NEW h \in Handlers, JoinDirectly(h)
       PROVE  UsesSound'
  <2>1. /\ Holding(h) /\ job[h].op = "join"
        /\ ~approval /\ UNCHANGED <<approval, switches>>
    BY <1>10 DEF JoinDirectly, Doing, Holding, Reviews, Finish
  <2>2. \A u \in Users : request'[u] = "pending" => request[u] = "pending"
    BY <1>5, <1>10 DEF JoinDirectly, TypeOK, Jobs
  <2>3. UsesReserved'
    BY <1>8, <1>10, <2>1, <2>2 DEF UsesSound, UsesReserved
  <2>4. CASE UNCHANGED uses
    BY <2>1, <2>3, <2>4 DEF UsesSound, LimitKeptUntilSwitched, UsesWithinLimit
  <2>5. CASE uses' = [uses EXCEPT ![job[h].invite] = @ + 1]
    <3>1. SUFFICES ASSUME switches = 0, NEW i \in Invites PROVE uses'[i] <= MaxUses
      BY <2>1, <2>3 DEF UsesSound, LimitKeptUntilSwitched, UsesWithinLimit
    <3>2. uses[job[h].invite] < MaxUses /\ uses[i] <= MaxUses
      BY <2>1, <3>1 DEF UsesSound, UsesReserved, LimitKeptUntilSwitched, UsesWithinLimit
    <3> QED
      BY <2>5, <3>2, ConstantsAssumption DEF TypeOK
  <2> QED
    BY <1>10, <2>4, <2>5 DEF JoinDirectly
<1>11. ASSUME NEW a \in Users, SwitchApproval(a)
       PROVE  UsesSound'
  <2>1. switches' # 0
    BY <1>11 DEF SwitchApproval, TypeOK
  <2> QED
    BY <2>1 DEF UsesSound, UsesReserved, LimitKeptUntilSwitched
<1>12. ASSUME UNCHANGED <<uses, approval, switches, request, stage, job>>
       PROVE  UsesSound'
  BY <1>12, UsesKept DEF Holding
<1> QED
  BY <1>1, <1>2, <1>4, <1>6, <1>7, <1>9, <1>10, <1>11, <1>12
  DEF Next, Continue, Expire, vars, rowVars
-----------------------------------------------------------------------------
(* The invariant.                                                          *)

(* A new group satisfies the invariant: no handler is at work and no       *)
(* invite has been used.                                                   *)
LEMMA InvariantInit == Init => IInv
<1> SUFFICES ASSUME Init PROVE IInv
  OBVIOUS
<1> USE ConstantsAssumption
<1>1. NoJob \in Jobs /\ NoView \in Views
  BY DEF NoJob, Job, Jobs, Ops, Roles, NoView, Views
<1>2. TypeOK
  <2>1. role \in [Users -> Roles] /\ request \in [Users -> Statuses]
    BY DEF Init, Roles, Statuses
  <2>2. /\ stage \in [Handlers -> {"idle", "checked", "locked", "read"}]
        /\ job \in [Handlers -> Jobs]
        /\ seen \in [Handlers -> Views]
    BY <1>1 DEF Init
  <2> QED
    BY <2>1, <2>2 DEF Init, TypeOK
<1>3. \A h \in Handlers : stage[h] = "idle" /\ job[h].op = "leave"
  BY DEF Init, NoJob, Job
<1>4. HandlersSound
  BY <1>3 DEF HandlersSound, HandlerSound, Holding
<1>5. NoMemberWaits
  BY DEF Init, NoMemberWaits, Members
<1>6. UsesReserved /\ LimitKeptUntilSwitched
  BY <1>3 DEF Init, UsesReserved, Holding, LimitKeptUntilSwitched, UsesWithinLimit
<1> QED
  BY <1>2, <1>4, <1>5, <1>6 DEF IInv

(* Every statement of every handler, the passing of an expiry and a change *)
(* of the settings keep the invariant.                                     *)
THEOREM MembershipInductive == IInv /\ [Next]_vars => IInv'
BY TypeStep, HandlersStep, WaitStep, UsesStep DEF IInv, UsesSound

(* The invariant holds in every state of the group.                        *)
LEMMA MembershipSafety == Spec => []IInv
BY InvariantInit, MembershipInductive, PTL DEF Spec

(* Types of the rows, of the requests in progress and of what they saw.    *)
THEOREM MembershipTypes == Spec => []TypeOK
<1>1. IInv => TypeOK
  BY DEF IInv
<1> QED
  BY <1>1, MembershipSafety, PTL

(* Whoever is in the group no longer waits to be let in, whichever of      *)
(* addGroupMembers, joinGroupInvite and reviewGroupJoinRequest let him in. *)
THEOREM RequestsSettled == Spec => []NoMemberWaits
<1>1. IInv => NoMemberWaits
  BY DEF IInv
<1> QED
  BY <1>1, MembershipSafety, PTL

(* No invite is used more often than it allows before an admin switches    *)
(* join_approval_required, whatever else happens at the same time.         *)
THEOREM InviteLimit == Spec => []LimitKeptUntilSwitched
<1>1. IInv => LimitKeptUntilSwitched
  BY DEF IInv
<1> QED
  BY <1>1, MembershipSafety, PTL
-----------------------------------------------------------------------------
(* Admins.                                                                 *)

(* Counting the admins tells whether somebody is the only one.             *)
LEMMA OnlyAdmin ==
  ASSUME TypeOK, NEW t \in Users, Admins = {t}
  PROVE  role[t] = "admin" /\ Cardinality(Admins) = 1
BY FS_Singleton DEF Admins

(* A group that counts at most one member has no other.                    *)
LEMMA OnlyMember ==
  ASSUME TypeOK, NEW t \in Members, Cardinality(Members) <= 1
  PROVE  Members = {t}
<1>1. IsFiniteSet(Members) /\ {t} \subseteq Members
  BY Counts
<1>2. IsFiniteSet({t}) /\ Cardinality({t}) = 1
  BY FS_Singleton
<1>3. Cardinality({t}) <= Cardinality(Members)
  BY <1>1, FS_Subset
<1>4. Cardinality(Members) = 1
  BY <1>2, <1>3, Counts
<1> QED
  BY <1>1, <1>2, <1>4, FS_Subset

(* leaveGroup, removeGroupMember and updateGroupMemberRole decide by the   *)
(* counts as they are when they write, and spare the last admin.           *)
LEMMA LastAdminSpared ==
  ASSUME TypeOK, HandlersSound, NEW h \in Handlers,
         WriteLeave(h) \/ WriteRemove(h) \/ WriteRole(h),
         Admins # {}, Members' # {}
  PROVE  Admins' # {}
<1> DEFINE t == job[h].target
<1>1. t \in Users /\ role \in [Users -> Roles]
  BY DEF TypeOK, Jobs
<1>2. \A u \in Users \ {t} : role'[u] = role[u]
  BY <1>1 DEF WriteLeave, WriteRemove, WriteRole
<1> SUFFICES ASSUME Admins' = {} PROVE FALSE
  OBVIOUS
<1>3. Admins = {t}
  BY <1>2 DEF Admins
<1>4. role[t] = "admin" /\ Cardinality(Admins) = 1
  BY <1>1, <1>3, OnlyAdmin
<1>5. /\ seen[h].role = role[t]
      /\ seen[h].admins = Cardinality(Admins)
      /\ seen[h].members = Cardinality(Members)
  BY DEF HandlersSound, HandlerSound, WriteLeave, WriteRemove, WriteRole, Doing
<1>6. LastAdmin(seen[h])
  BY <1>4, <1>5 DEF LastAdmin
<1>7. CASE WriteLeave(h)
  <2>1. Cardinality(Members) <= 1
    BY <1>5, <1>6, <1>7, Counts DEF WriteLeave
  <2>2. Members = {t}
    BY <1>1, <1>4, <2>1, OnlyMember DEF Members
  <2>3. role'[t] = "none"
    BY <1>1, <1>7 DEF WriteLeave
  <2> QED
    BY <1>2, <2>2, <2>3 DEF Members
<1>8. CASE WriteRemove(h)
  BY <1>6, <1>8 DEF WriteRemove
<1>9. CASE WriteRole(h)
  <2>1. job[h].role = "admin"
    BY <1>6, <1>9 DEF WriteRole, HandlersSound, HandlerSound, Doing
  <2>2. role'[t] = "admin"
    BY <1>1, <1>9, <2>1 DEF WriteRole
  <2> QED
    BY <1>1, <2>2 DEF Admins
<1> QED
  BY <1>7, <1>8, <1>9

(* No step takes the last admin from a group that keeps members.           *)
LEMMA AdminStep ==
  TypeOK /\ HandlersSound /\ [Next]_vars
    => (Admins # {} /\ Members' # {} => Admins' # {})
<1> SUFFICES ASSUME TypeOK, HandlersSound, [Next]_vars, Admins # {}, Members' # {}
             PROVE  Admins' # {}
  OBVIOUS
<1>1. ASSUME NEW h \in Handlers, WriteLeave(h) \/ WriteRemove(h) \/ WriteRole(h)
      PROVE  Admins' # {}
  BY <1>1, LastAdminSpared
<1>2. ASSUME NEW u \in Users, Enrol(u)
      PROVE  Admins' # {}
  BY <1>2 DEF Enrol, Admins, TypeOK
<1>3. ASSUME NEW h \in Handlers, WriteAdd(h) \/ JoinDirectly(h) \/ Approve(h)
      PROVE  Admins' # {}
  BY <1>2, <1>3 DEF WriteAdd, JoinDirectly, Approve, TypeOK, Jobs
<1>4. ASSUME UNCHANGED role
      PROVE  Admins' # {}
  BY <1>4 DEF Admins
<1>5. ASSUME NEW h \in Handlers, Begin(h)
      PROVE  UNCHANGED role
  BY <1>5, BeginForm DEF Takes, IsChecked, Acquire, rowVars
<1>6. ASSUME NEW h \in Handlers, Continue(h)
      PROVE  Admins' # {}
  BY <1>1, <1>3, <1>4, <1>6
  DEF Continue, ReadRoles, ReadApplicant, LockRequest, JoinAsMember, JoinByRequest,
      Reject, CreateInvite, RevokeInvite, ResetInvites, Quit, rowVars
<1> QED
  BY <1>4, <1>5, <1>6 DEF Next, Expire, SwitchApproval, vars, rowVars

(* A group that has an admin keeps one as long as it has members, however  *)
(* many admins leave, demote and remove each other at the same time.       *)
THEOREM AdminsKept == Spec => AdminKept
<1>1. IInv /\ [Next]_vars => [Admins # {} /\ Members' # {} => Admins' # {}]_role
  BY AdminStep DEF IInv
<1> QED
  BY <1>1, MembershipSafety, PTL DEF Spec, AdminKept

(* Who removes members, changes roles or adds members has the authority    *)
(* for it when his transaction writes, not only when it was checked.       *)
THEOREM Authority == Spec => AuthorityAtCommit
<1>1. IInv /\ [Next]_vars =>
        [\A h \in Handlers :
           job[h].op \in {"remove", "setRole", "add"} /\ stage[h] # "idle"
             /\ stage'[h] = "idle" /\ role' # role => MayManage(job[h])]_vars
  <2> SUFFICES ASSUME IInv, NEW h \in Handlers,
                      job[h].op \in {"remove", "setRole", "add"}, stage[h] # "idle"
               PROVE  MayManage(job[h])
    OBVIOUS
  <2>1. HandlerSound(h) /\ stage[h] \in {"idle", "checked", "locked", "read"}
    BY DEF IInv, HandlersSound, TypeOK
  <2>2. Holding(h)
    BY <2>1 DEF HandlerSound, Holding, Reviews
  <2> QED
    BY <2>1, <2>2 DEF HandlerSound
<1> QED
  BY <1>1, MembershipSafety, PTL DEF Spec, AuthorityAtCommit
=============================================================================
