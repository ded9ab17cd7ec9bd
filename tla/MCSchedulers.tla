---------------------------- MODULE MCSchedulers ----------------------------
(***************************************************************************)
(* Small instances of the two components with a scheduler of their own,    *)
(* ScheduledMessages and LiveLocations.  They share no variable, so that   *)
(* one of them is chosen at the start and the other rests.                 *)
(***************************************************************************)
EXTENDS ScheduledMessages, LiveLocations, TLC

CONSTANTS i1, i2, i3, i4, u1, c1, c2, d1, d2, b1, b2

VARIABLE part   \* the component that runs

(* A message to a direct chat and one to a group. *)
MixedSender == i1 :> u1 @@ i2 :> u1
MixedChat   == i1 :> c1 @@ i2 :> c2

(* Four messages of one author in two chats, two in each. *)
TwoChatsSender == i1 :> u1 @@ i2 :> u1 @@ i3 :> u1 @@ i4 :> u1
TwoChatsChat   == i1 :> c1 @@ i2 :> c2 @@ i3 :> c1 @@ i4 :> c2

TwoKinds == c1 :> "direct" @@ c2 :> "group"

(* Dispatchers and texts are alike: no definition tells one from another. *)
Alike == Permutations({d1, d2}) \cup Permutations({b1, b2})

SchedulersInit ==
  /\ part \in {"messages", "locations"}
  /\ Init /\ LiveInit

SchedulersNext ==
  \/ part = "messages" /\ Next /\ UNCHANGED <<part, liveVars>>
  \/ part = "locations" /\ LiveNext /\ UNCHANGED <<part, vars>>

schedulersVars == <<part, vars, liveVars>>

SchedulersSpec == SchedulersInit /\ [][SchedulersNext]_schedulersVars

\* The fairness of the components, each for as long as it runs.
MessagesRun(A)  == part = "messages" /\ A /\ UNCHANGED <<part, liveVars>>
LocationsRun(A) == part = "locations" /\ A /\ UNCHANGED <<part, vars>>

FairSchedulersSpec ==
  /\ SchedulersSpec
  /\ \A d \in Dispatchers : WF_schedulersVars(MessagesRun(Dispatch(d)))
  /\ WF_schedulersVars(LocationsRun(LiveTick))
  /\ \A h \in LiveHandlers : WF_schedulersVars(LocationsRun(Proceed(h)))
=============================================================================
