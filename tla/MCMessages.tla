----------------------------- MODULE MCMessages -----------------------------
(***************************************************************************)
(* A small instance of the handlers of messages and of what is posted      *)
(* beside them: Delivery and six more components.  They share no           *)
(* variable, so that one of them is chosen at the start and the others     *)
(* rest: running them side by side would only multiply their states.       *)
(***************************************************************************)
EXTENDS Delivery, FiniteSets, TLC

CONSTANTS
  Texts, Edits, PinMaximum,                              \* MessageEdits
  Voters, Options, Ballots, AllowMultiple,               \* Polls
  Viewers, Opens, Free,                                  \* ViewOnce
  Contacts, Sharing, Sweepers,                           \* Statuses
  Admins, Groups, Community, Linking, Unheld,            \* Communities
  Destinations, Transactions, Dispatchers, MaxChats, Connections   \* Forwarding

ASSUME MessagesAssumption ==
  /\ Free \notin Edits \cup Ballots \cup Opens
  /\ IsFiniteSet(Texts) /\ PinMaximum \in Nat
  /\ Voters # {} /\ IsFiniteSet(Viewers)
  /\ IsFiniteSet(Transactions) /\ Connections \in Nat \ {0}
  /\ Admins # {} /\ Groups # {} /\ Unheld \notin Linking

VARIABLES
  body, deleted, pins, rowLock, pinLock, editing, subject, adds,
  exists, closed, votes, pollLock, ballot, shown,
  available, opened, mediaLock, opening, viewer, counted, granted,
  story, media, attached, allowed, views, likes, liked, answering, shareStep, sweepStep, sawShared, overtaken,
  role, linked, named, recorded, convHolder, roleHolder, wants,
  idle, forwarding, todo, chatLock,
  part   \* the component that runs

editVars      == <<body, deleted, pins, rowLock, pinLock, editing, subject, adds>>
pollVars      == <<exists, closed, votes, pollLock, ballot, shown>>
viewVars      == <<available, opened, mediaLock, opening, viewer, counted, granted>>
statusVars    == <<story, media, attached, allowed, views, likes, liked, answering, shareStep, sweepStep, sawShared, overtaken>>
communityVars == <<role, linked, named, recorded, convHolder, roleHolder, wants>>
forwardVars   == <<idle, forwarding, todo, chatLock>>

E == INSTANCE MessageEdits
P == INSTANCE Polls
V == INSTANCE ViewOnce
S == INSTANCE Statuses
C == INSTANCE Communities
F == INSTANCE Forwarding

MessagesInit ==
  /\ part \in {"delivery", "edits", "polls", "viewOnce", "statuses", "communities", "forwarding"}
  /\ Init /\ E!EditInit /\ P!PollInit /\ V!ViewInit
  /\ S!StatusInit /\ C!CommunityInit /\ F!ForwardInit
  \* one initial state is enough for a component that rests
  /\ part # "edits"       => subject = [r \in Edits |-> CHOOSE m \in Texts : TRUE]
  /\ part # "viewOnce"    => viewer = [r \in Opens |-> CHOOSE u \in Viewers : TRUE]
  /\ part # "statuses"    => allowed = {}
  /\ part # "communities" => role = [p \in DOMAIN role |-> "member"]
  /\ part # "forwarding"  => todo = [r \in Transactions |-> <<CHOOSE c \in Destinations : TRUE>>]

MessagesNext ==
  \/ part = "delivery" /\ Next
     /\ UNCHANGED <<part, editVars, pollVars, viewVars, statusVars, communityVars, forwardVars>>
  \/ part = "edits" /\ E!EditNext
     /\ UNCHANGED <<part, vars, pollVars, viewVars, statusVars, communityVars, forwardVars>>
  \/ part = "polls" /\ P!PollNext
     /\ UNCHANGED <<part, vars, editVars, viewVars, statusVars, communityVars, forwardVars>>
  \/ part = "viewOnce" /\ V!ViewNext
     /\ UNCHANGED <<part, vars, editVars, pollVars, statusVars, communityVars, forwardVars>>
  \/ part = "statuses" /\ S!StatusNext
     /\ UNCHANGED <<part, vars, editVars, pollVars, viewVars, communityVars, forwardVars>>
  \/ part = "communities" /\ C!CommunityNext
     /\ UNCHANGED <<part, vars, editVars, pollVars, viewVars, statusVars, forwardVars>>
  \/ part = "forwarding" /\ F!ForwardNext
     /\ UNCHANGED <<part, vars, editVars, pollVars, viewVars, statusVars, communityVars>>

messageVars ==
  <<part, vars, editVars, pollVars, viewVars, statusVars, communityVars, forwardVars>>

MessagesSpec == MessagesInit /\ [][MessagesNext]_messageVars

RequestSymmetry == Permutations(Users \ Private) \cup Permutations(Reads)

\* The type invariants of the components.
MessagesTypeOK ==
  /\ TypeOK /\ E!EditTypeOK /\ P!PollTypeOK
  /\ V!ViewTypeOK /\ S!StatusTypeOK /\ C!CommunityTypeOK /\ F!ForwardTypeOK

\* The properties of the components, named as in their modules.
PinsLimited     == E!PinsLimited
DeletedIsEmpty  == E!DeletedIsEmpty
OneChoice       == P!OneChoice
ClosedIsFinal   == P!ClosedIsFinal
OpeningsCounted == V!OpeningsCounted
SharedMediaKept == S!SharedMediaKept
LinkedByAdmin   == C!LinkedByAdmin
OnlyPoolBlocks  == F!OnlyPoolBlocks
=============================================================================
