-------------------------------- MODULE Polls --------------------------------
(***************************************************************************)
(* A poll of a conversation (polls.go): votes and the closing of the poll  *)
(* overlap, and each of them then reads the poll, statement by statement,  *)
(* and shows what it read to the clients of the room.                      *)
(***************************************************************************)
EXTENDS Naturals, FiniteSets

CONSTANTS
  Voters, Options,
  Ballots,        \* requests in progress at the same time
  Free,           \* nobody holds the row of the poll
  AllowMultiple   \* message_polls.allow_multiple

VARIABLES
  exists, closed,   \* the row of message_polls
  votes,            \* poll_votes, the options of each user
  pollLock,         \* who holds the row
  ballot,           \* each request: how far it is, its user and his choice,
                    \* the votes its DELETE found, and what it read to show
  shown             \* what the clients saw last

pollVars == <<exists, closed, votes, pollLock, ballot, shown>>

NoVotes  == [u \in Voters |-> {}]
NoBallot == [step |-> "idle", user |-> CHOOSE u \in Voters : TRUE, choice |-> {}, dropped |-> {},
             closed |-> FALSE, votes |-> NoVotes]

Choices  == [Voters -> SUBSET Options]

PollTypeOK ==
  /\ exists \in BOOLEAN
  /\ closed \in BOOLEAN
  /\ votes \in Choices
  /\ pollLock \in Ballots \cup {Free}
  /\ \A r \in Ballots :
       /\ ballot[r].step \in {"idle", "locked", "dropped", "saved", "read", "counted"}
       /\ ballot[r].user \in Voters
       /\ {ballot[r].choice, ballot[r].dropped} \subseteq SUBSET Options
       /\ ballot[r].closed \in BOOLEAN
       /\ ballot[r].votes \in Choices
  /\ shown \in [closed : BOOLEAN, votes : Choices]

PollInit ==
  /\ exists = FALSE
  /\ closed = FALSE
  /\ votes = NoVotes
  /\ pollLock = Free
  /\ ballot = [r \in Ballots |-> NoBallot]
  /\ shown = [closed |-> FALSE, votes |-> NoVotes]

At(r, step) == ballot[r].step = step

\* createPoll posts the message, the poll and its options in one transaction.
CreatePoll ==
  /\ ~exists
  /\ exists' = TRUE
  /\ UNCHANGED <<closed, votes, pollLock, ballot, shown>>

\* Mutant: votes without FOR UPDATE.
RowShared == TRUE

\* setPollVotes locks the row and reads it; a closed poll, or too many options
\* of a single choice, end the request.
RowFree == pollLock = Free

LockPoll(r, u, options) ==
  /\ exists /\ ~closed
  /\ At(r, "idle")
  /\ RowFree
  /\ AllowMultiple \/ Cardinality(options) <= 1
  /\ pollLock' = r
  /\ ballot' = [ballot EXCEPT ![r] = [@ EXCEPT !.step = "locked", !.user = u, !.choice = options]]
  /\ UNCHANGED <<exists, closed, votes, shown>>

\* It deletes the votes of the user ...
DropVotes(r) ==
  /\ At(r, "locked")
  /\ ballot' = [ballot EXCEPT ![r] = [@ EXCEPT !.step = "dropped", !.dropped = votes[ballot[r].user]]]
  /\ UNCHANGED <<exists, closed, votes, pollLock, shown>>

\* ... inserts the new ones and commits.
SaveVotes(r) ==
  /\ At(r, "dropped")
  /\ votes' = [votes EXCEPT ![ballot[r].user] = (@ \ ballot[r].dropped) \cup ballot[r].choice]
  /\ pollLock' = Free
  /\ ballot' = [ballot EXCEPT ![r] = [NoBallot EXCEPT !.step = "saved"]]
  /\ UNCHANGED <<exists, closed, shown>>

ClosePoll(r) ==
  /\ exists
  /\ At(r, "idle")
  /\ RowFree
  /\ closed' = TRUE
  /\ ballot' = [ballot EXCEPT ![r].step = "saved"]
  /\ UNCHANGED <<exists, votes, pollLock, shown>>

\* loadPollSnapshot reads the poll ...
ReadPoll(r) ==
  /\ At(r, "saved")
  /\ ballot' = [ballot EXCEPT ![r] = [@ EXCEPT !.step = "read", !.closed = closed]]
  /\ UNCHANGED <<exists, closed, votes, pollLock, shown>>

\* ... then its votes, outside any transaction.
ReadVotes(r) ==
  /\ At(r, "read")
  /\ ballot' = [ballot EXCEPT ![r] = [@ EXCEPT !.step = "counted", !.votes = votes]]
  /\ UNCHANGED <<exists, closed, votes, pollLock, shown>>

\* Mutant: the row of the poll read when it is shown.
ShowReadLast(r) ==
  /\ At(r, "counted")
  /\ shown' = [closed |-> closed, votes |-> ballot[r].votes]
  /\ ballot' = [ballot EXCEPT ![r] = NoBallot]
  /\ UNCHANGED <<exists, closed, votes, pollLock>>

\* broadcastPollUpdate writes what it read to the clients of the room.
Show(r) ==
  /\ At(r, "counted")
  /\ shown' = [closed |-> ballot[r].closed, votes |-> ballot[r].votes]
  /\ ballot' = [ballot EXCEPT ![r] = NoBallot]
  /\ UNCHANGED <<exists, closed, votes, pollLock>>

\* A statement fails or the process stops.
GiveUp(r) ==
  /\ ~At(r, "idle")
  /\ ballot' = [ballot EXCEPT ![r] = NoBallot]
  /\ pollLock' = IF pollLock = r THEN Free ELSE pollLock
  /\ UNCHANGED <<exists, closed, votes, shown>>

PollNext ==
  \/ CreatePoll
  \/ \E r \in Ballots :
       \/ \E u \in Voters, options \in SUBSET Options : LockPoll(r, u, options)
       \/ DropVotes(r) \/ SaveVotes(r) \/ ClosePoll(r)
       \/ ReadPoll(r) \/ ReadVotes(r) \/ Show(r) \/ GiveUp(r)

-----------------------------------------------------------------------------
\* Two votes of a user that overlap leave him one option in a poll of a single
\* choice: the DELETE of one does not see the INSERT of the other, only the
\* lock keeps them apart (setPollVotes).
OneChoice == AllowMultiple \/ \A u \in Voters : Cardinality(votes[u]) <= 1

\* What clients are shown of a closed poll is its final result: no vote is
\* counted after the closing, and loadPollSnapshot reads the poll before its
\* votes.
ClosedIsFinal == shown.closed => closed /\ shown.votes = votes
=============================================================================
