------------------------------ MODULE Forwarding ------------------------------
(***************************************************************************)
(* Transactions that write to several chats and share the connections of   *)
(* the pool: forwardMessage (message_forward.go), shareStatus and replies  *)
(* (statuses.go), the uploads of media.go, dispatchScheduledMessages; a    *)
(* plain message is one that never asks.  A transaction holds a connection *)
(* to its end.  usersBlocked and isConversationPeerOnline ask the pool for *)
(* another, and neither a limit nor a client who leaves ends their wait.   *)
(* Chats are locked in the order of the list until the end.                *)
(***************************************************************************)
EXTENDS Naturals, Sequences, FiniteSets, Functions

CONSTANTS
  Destinations,
  Transactions,  \* in progress at the same time
  Dispatchers,   \* those that are dispatches of scheduled messages
  MaxChats,      \* entries of a list: 5 for a request, 100 for a dispatch
  Connections,   \* connections of the pool, 4 or more by default
  Free           \* nobody holds the row of a chat

VARIABLES
  idle,        \* connections nobody uses
  forwarding,  \* how far each transaction is
  todo,        \* the chats it has yet to write to
  chatLock     \* who holds the row of each chat

forwardVars == <<idle, forwarding, todo, chatLock>>

Steps == {"new", "admitting", "asking", "writing", "done"}

ForwardTypeOK ==
  /\ idle \in 0..Connections
  /\ forwarding \in [Transactions -> Steps]
  /\ todo \in [Transactions -> Seq(Destinations)]
  /\ chatLock \in [Destinations -> Transactions \cup {Free}]

\* A request names each chat once, a dispatch may have several rows of a chat or none.
Lists == UNION {[1..n -> Destinations] : n \in 0..MaxChats}

ForwardInit ==
  /\ idle = Connections
  /\ forwarding = [r \in Transactions |-> "new"]
  /\ todo \in [Transactions -> Lists]
  /\ \A r \in Transactions \ Dispatchers : todo[r] # <<>> /\ IsInjective(todo[r])
  /\ chatLock = [c \in Destinations |-> Free]

Becomes(r, step) == forwarding' = [forwarding EXCEPT ![r] = step]
Using    == {r \in Transactions : forwarding[r] \in {"admitting", "asking", "writing"}}
Asking   == {r \in Transactions : forwarding[r] = "asking"}

\* What the request reads before is checked, then the transaction begins.
BeginForward(r) ==
  /\ forwarding[r] = "new"
  /\ idle > 0
  /\ idle' = idle - 1
  /\ Becomes(r, "admitting")
  /\ UNCHANGED <<todo, chatLock>>

\* The sender may write to the chat.  A direct chat (usersBlocked), or one with
\* nobody in its room (isConversationPeerOnline), needs a second connection.
Admit(r) ==
  /\ forwarding[r] = "admitting"
  /\ todo[r] # <<>>
  /\ Becomes(r, "asking") \/ Becomes(r, "writing")
  /\ UNCHANGED <<idle, todo, chatLock>>

\* It is there for the moment of a query.
CheckChat(r) ==
  /\ forwarding[r] = "asking"
  /\ idle > 0
  /\ Becomes(r, "writing")
  /\ UNCHANGED <<idle, todo, chatLock>>

\* The message and the UPDATE that locks the chat.
HasChat(r) == chatLock[Head(todo[r])] \in {Free, r}
WriteCopy(r) ==
  /\ forwarding[r] = "writing"
  /\ HasChat(r)
  /\ chatLock' = [chatLock EXCEPT ![Head(todo[r])] = r]
  /\ todo' = [todo EXCEPT ![r] = Tail(@)]
  /\ Becomes(r, "admitting")
  /\ UNCHANGED idle

\* A dispatch goes on after a chat that is closed to the sender, whose row fails.
SkipChat(r) ==
  /\ r \in Dispatchers
  /\ forwarding[r] = "admitting"
  /\ todo[r] # <<>>
  /\ todo' = [todo EXCEPT ![r] = Tail(@)]
  /\ UNCHANGED <<idle, forwarding, chatLock>>

\* Mutant: a transaction that is neither committed nor rolled back.
ReleaseForgotten(r) == UNCHANGED <<chatLock, idle>>

Release(r) ==
  /\ chatLock' = [c \in Destinations |-> IF chatLock[c] = r THEN Free ELSE chatLock[c]]
  /\ idle' = idle + 1

EndForward(r) ==
  /\ Release(r)
  /\ Becomes(r, "done")
  /\ UNCHANGED todo

CommitForward(r) ==
  /\ forwarding[r] = "admitting"
  /\ todo[r] = <<>>
  /\ EndForward(r)

\* A chat is refused, a statement fails or, unless it is one of those that ask
\* for a connection, is cancelled with its client: rollback.
RefuseForward(r) ==
  /\ \/ forwarding[r] \in {"admitting", "writing"}
     \/ forwarding[r] = "asking" /\ idle > 0
  /\ EndForward(r)

\* The request is refused before, or the client leaves while it waits to begin.
GiveUpForward(r) ==
  /\ forwarding[r] = "new"
  /\ Becomes(r, "done")
  /\ UNCHANGED <<idle, todo, chatLock>>

\* PostgreSQL ends one of transactions each of which waits for another of them.
WaitsIn(r, S) == forwarding[r] = "writing" /\ chatLock[Head(todo[r])] \in S \ {r}
Deadlocked(r) == \E S \in SUBSET Transactions : r \in S /\ \A q \in S : WaitsIn(q, S)
BreakDeadlock(r) == Deadlocked(r) /\ EndForward(r)

ForwardStep(r) ==
  \/ BeginForward(r) \/ Admit(r) \/ CheckChat(r) \/ WriteCopy(r) \/ SkipChat(r)
  \/ CommitForward(r) \/ BreakDeadlock(r)
ForwardNext == \E r \in Transactions : ForwardStep(r) \/ RefuseForward(r) \/ GiveUpForward(r)

ForwardSpec ==
  /\ ForwardInit /\ [][ForwardNext]_forwardVars
  /\ \A r \in Transactions : WF_forwardVars(ForwardStep(r))

-----------------------------------------------------------------------------
\* The guards of ForwardStep(r).
MayGo(r) ==
  \/ forwarding[r] = "admitting"
  \/ forwarding[r] \in {"new", "asking"} /\ idle > 0
  \/ forwarding[r] = "writing" /\ (HasChat(r) \/ Deadlocked(r))

\* Nobody goes on of those who have not ended.
Stuck == (\E r \in Transactions : forwarding[r] # "done") /\ \A r \in Transactions : ~MayGo(r)

\* Only the pool can stop forwards, shares and dispatches for good: when they are
\* stuck, transactions in progress hold every connection and one of them asks
\* for another.  Chats alone do not stop them, in whatever order they are locked,
\* and nothing is held by who has ended.
OnlyPoolBlocks == Stuck => Cardinality(Using) = Connections /\ Asking # {}

\* dispatchScheduledMessages, once its time has come, ends: the client says of a
\* scheduled message that it will be sent (conversation_screen.dart:331).
DispatchEnds == \A d \in Dispatchers : (forwarding[d] # "done") ~> (forwarding[d] = "done")
=============================================================================
