------------------------------ MODULE Communities ------------------------------
(***************************************************************************)
(* The groups linked to one community (communities.go).  A request locks   *)
(* the conversations it is about and the rows of the actor's own           *)
(* memberships, so that his role is still the one it checked when it       *)
(* commits.  Roles change in other transactions, which lock the member.    *)
(***************************************************************************)
EXTENDS Naturals, FiniteSets

CONSTANTS
  Admins,      \* users who are, or may be, admins
  Groups,
  Community,
  Linking,     \* requests in progress at the same time
  Unheld       \* nobody holds a row

VARIABLES
  role,        \* conversation_members.role of each user in each conversation
  linked,      \* community_groups
  named,       \* times the community was renamed or described anew
  recorded,    \* activity messages in the community
  convHolder,  \* who holds the row of each conversation
  roleHolder,  \* who holds the row of each member
  wants        \* what each request is about to do

communityVars == <<role, linked, named, recorded, convHolder, roleHolder, wants>>

Conversations == Groups \cup {Community}
Nothing       == [what |-> "nothing", by |-> CHOOSE u \in Admins : TRUE, group |-> CHOOSE g \in Groups : TRUE]
Limit         == 3                          \* bound: activity in the community

CommunityTypeOK ==
  /\ role \in [Admins \X Conversations -> {"admin", "member"}]
  /\ linked \in SUBSET Groups
  /\ {named, recorded} \subseteq Nat
  /\ convHolder \in [Conversations -> Linking \cup {Unheld}]
  /\ roleHolder \in [Admins \X Conversations -> Linking \cup {Unheld}]
  /\ wants \in [Linking -> [what : {"nothing", "add", "remove", "update"}, by : Admins, group : Groups]]

CommunityInit ==
  /\ role \in [Admins \X Conversations -> {"admin", "member"}]
  /\ linked = {} /\ named = 0 /\ recorded = 1             \* createCommunity records its creation
  /\ convHolder = [c \in Conversations |-> Unheld]
  /\ roleHolder = [p \in Admins \X Conversations |-> Unheld]
  /\ wants = [r \in Linking |-> Nothing]

MayAct(u, S) == \A c \in S : role[<<u, c>>] = "admin"

\* Mutant: the rows of the actor's memberships are not locked.
LockConversations(r, what, u, g, S, C) ==
  /\ wants[r] = Nothing /\ recorded < Limit
  /\ \A c \in S : convHolder[c] = Unheld
  /\ MayAct(u, C)
  /\ convHolder' = [c \in Conversations |-> IF c \in S THEN r ELSE convHolder[c]]
  /\ wants' = [wants EXCEPT ![r] = [what |-> what, by |-> u, group |-> g]]
  /\ UNCHANGED <<role, linked, named, recorded, roleHolder>>

\* SELECT ... FOR UPDATE of the conversations S and the actor's rows in C.
Lock(r, what, u, g, S, C) ==
  /\ wants[r] = Nothing /\ recorded < Limit
  /\ \A c \in S : convHolder[c] = Unheld
  /\ \A c \in C : roleHolder[<<u, c>>] = Unheld
  /\ MayAct(u, C)
  /\ convHolder' = [c \in Conversations |-> IF c \in S THEN r ELSE convHolder[c]]
  /\ roleHolder' = [p \in Admins \X Conversations |-> IF p[1] = u /\ p[2] \in C THEN r ELSE roleHolder[p]]
  /\ wants' = [wants EXCEPT ![r] = [what |-> what, by |-> u, group |-> g]]
  /\ UNCHANGED <<role, linked, named, recorded>>

LockToAdd(r, u, g)    == Lock(r, "add", u, g, {Community, g}, {Community, g})
LockToRemove(r, u, g) == Lock(r, "remove", u, g, {Community} \cup (linked \cap {g}), {Community})
LockToUpdate(r, u)    == Lock(r, "update", u, Nothing.group, {Community}, {Community})

Unlock(r) ==
  /\ convHolder' = [c \in Conversations |-> IF convHolder[c] = r THEN Unheld ELSE convHolder[c]]
  /\ roleHolder' = [p \in Admins \X Conversations |-> IF roleHolder[p] = r THEN Unheld ELSE roleHolder[p]]
  /\ wants' = [wants EXCEPT ![r] = Nothing]

\* The change and its activity message; a group is linked once.
AddGroup(r) ==
  /\ wants[r].what = "add" /\ wants[r].group \notin linked
  /\ linked' = linked \cup {wants[r].group}
  /\ recorded' = recorded + 1
  /\ Unlock(r)
  /\ UNCHANGED <<role, named>>

RemoveGroup(r) ==
  /\ wants[r].what = "remove" /\ wants[r].group \in linked
  /\ linked' = linked \ {wants[r].group}
  /\ recorded' = recorded + 1
  /\ Unlock(r)
  /\ UNCHANGED <<role, named>>

UpdateCommunity(r) ==
  /\ wants[r].what = "update"
  /\ named' = named + 1
  /\ \E n \in {1, 2} : recorded' = recorded + n                   \* name, description
  /\ Unlock(r)
  /\ UNCHANGED <<role, linked>>

\* There is nothing to change, or a statement fails.
GiveUp(r) ==
  /\ wants[r] # Nothing
  /\ Unlock(r)
  /\ UNCHANGED <<role, linked, named, recorded>>

\* Roles change (GroupMembership).
ChangeRole(u, c) ==
  /\ roleHolder[<<u, c>>] = Unheld
  /\ role' = [role EXCEPT ![<<u, c>>] = IF @ = "admin" THEN "member" ELSE "admin"]
  /\ UNCHANGED <<linked, named, recorded, convHolder, roleHolder, wants>>

CommunityNext ==
  \/ \E r \in Linking :
       \/ \E u \in Admins : LockToUpdate(r, u) \/ (\E g \in Groups : LockToAdd(r, u, g) \/ LockToRemove(r, u, g))
       \/ AddGroup(r) \/ RemoveGroup(r) \/ UpdateCommunity(r) \/ GiveUp(r)
  \/ \E u \in Admins, c \in Conversations : ChangeRole(u, c)

CommunitySpec == CommunityInit /\ [][CommunityNext]_communityVars

-----------------------------------------------------------------------------
\* Whoever links a group is an admin of the group and of the community at that
\* moment, and whoever unlinks one of the community, although he is demoted by
\* requests that overlap his own.
LinkedByAdmin ==
  [][\A r \in Linking :
       /\ AddGroup(r)    => MayAct(wants[r].by, {Community, wants[r].group})
       /\ RemoveGroup(r) => MayAct(wants[r].by, {Community})]_linked
================================================================================
