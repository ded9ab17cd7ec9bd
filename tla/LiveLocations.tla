---------------------------- MODULE LiveLocations ----------------------------
(***************************************************************************)
(* The live locations one user shares (live_locations.go).  A request is a *)
(* transaction that locks the rows it is about, changes them together with *)
(* the attachment in their message, and commits; the broadcasts that       *)
(* follow change nothing.  The scheduler of each process ends locations    *)
(* that have expired or may no longer be shared, skipping locked rows.     *)
(* Deleting a message (chat_management.go) ends its location without a     *)
(* transaction.                                                            *)
(***************************************************************************)
EXTENDS Naturals, FiniteSets

CONSTANTS
  Shares,        \* ids of locations, each with its message
  Rooms,         \* chats
  Devices,       \* tracking keys
  Positions,
  Requests,      \* requests in progress at the same time
  Ticker,        \* the scheduler
  Free,          \* nobody holds a lock
  Batch,         \* locations the scheduler ends at once, 200 in the code
  MaxLapses,     \* bound on failures and on changes of what may be shared
  Start          \* the position a location starts with

ASSUME LiveAssumption ==
  /\ Ticker \notin Requests
  /\ Free \notin Requests \cup {Ticker}
  /\ Start \in Positions
  /\ Rooms # {} /\ Devices # {}
  /\ Batch \in Nat \ {0}
  /\ MaxLapses \in Nat

LiveHandlers == Requests \cup {Ticker}

VARIABLES
  row,         \* live_locations: state, position, chat and device
  attachment,  \* messages.metadata: what the message says of its location
  erased,      \* locations whose message is deleted
  cut,         \* locations ended by the deletion of their message
  lapsed,      \* expires_at has passed
  may,         \* liveLocationCanContinue, for each chat
  rowHolder,   \* who holds each row
  chatHolder,  \* who holds the advisory lock of each chat
  doing,       \* what each handler does
  stage,       \* how far it is
  held,        \* the rows it locked or, to delete a message, read
  wanted,      \* the chat or position it was asked for
  mishaps      \* counter of the bound

liveVars == <<row, attachment, erased, cut, lapsed, may, rowHolder, chatHolder, doing, stage, held, wanted, mishaps>>

Absent == [state |-> "none", pos |-> Start, chat |-> CHOOSE c \in Rooms : TRUE, device |-> CHOOSE d \in Devices : TRUE]
Rows   == [state : {"none", "active", "stopped"}, pos : Positions, chat : Rooms, device : Devices]
Notes  == [active : BOOLEAN, pos : Positions]
Note(r) == [active |-> r.state = "active", pos |-> r.pos]

LiveTypeOK ==
  /\ row \in [Shares -> Rows]
  /\ attachment \in [Shares -> Notes]
  /\ erased \in SUBSET Shares
  /\ cut \in SUBSET Shares
  /\ lapsed \in SUBSET Shares
  /\ may \in [Rooms -> BOOLEAN]
  /\ rowHolder \in [Shares -> LiveHandlers \cup {Free}]
  /\ chatHolder \in [Rooms -> LiveHandlers \cup {Free}]
  /\ doing \in [LiveHandlers -> {"none", "start", "update", "stop", "delete"}]
  /\ stage \in [LiveHandlers -> {"idle", "waiting", "holding", "erasing"}]
  /\ held \in [LiveHandlers -> SUBSET Shares]
  /\ wanted \in [LiveHandlers -> [chat : Rooms, device : Devices, pos : Positions]]
  /\ mishaps \in 0..MaxLapses

Nothing == [chat |-> Absent.chat, device |-> Absent.device, pos |-> Start]

LiveInit ==
  /\ row = [l \in Shares |-> Absent]
  /\ attachment = [l \in Shares |-> Note(Absent)]
  /\ erased = {} /\ cut = {} /\ lapsed = {}
  /\ may = [c \in Rooms |-> TRUE]
  /\ rowHolder = [l \in Shares |-> Free]
  /\ chatHolder = [c \in Rooms |-> Free]
  /\ doing = [h \in LiveHandlers |-> "none"]
  /\ stage = [h \in LiveHandlers |-> "idle"]
  /\ held = [h \in LiveHandlers |-> {}]
  /\ wanted = [h \in LiveHandlers |-> Nothing]
  /\ mishaps = 0

Active(l)    == row[l].state = "active"
Due(l)       == Active(l) /\ (l \in lapsed \/ ~may[row[l].chat])
\* Mutant: no row lock.
UnheldUnchecked(l) == TRUE

Unheld(l)    == rowHolder[l] = Free
rowsOf       == <<row, attachment, erased, cut>>
world        == <<lapsed, may, mishaps>>

Begin(h, job, want) ==
  /\ stage[h] = "idle"
  /\ doing' = [doing EXCEPT ![h] = job]
  /\ wanted' = [wanted EXCEPT ![h] = want]

\* The handler ends.
Rest(h) ==
  /\ stage' = [stage EXCEPT ![h] = "idle"]
  /\ doing' = [doing EXCEPT ![h] = "none"]
  /\ held' = [held EXCEPT ![h] = {}]
  /\ wanted' = [wanted EXCEPT ![h] = Nothing]

\* SELECT ... FOR UPDATE of the active rows S.
Hold(h, S) ==
  /\ \A l \in S : Unheld(l)
  /\ rowHolder' = [l \in Shares |-> IF l \in S THEN h ELSE rowHolder[l]]
  /\ held' = [held EXCEPT ![h] = S]
  /\ stage' = [stage EXCEPT ![h] = "holding"]

-----------------------------------------------------------------------------
\* Mutant: no advisory lock.
AloneUnchecked(c) == TRUE

\* createLiveLocation: the checks, the advisory lock of the chat ...
Alone(c) == chatHolder[c] = Free

LockChat(h, c, d) ==
  /\ Begin(h, "start", [Nothing EXCEPT !.chat = c, !.device = d])
  /\ may[c]
  /\ Cardinality({l \in Shares : row[l].state = "none"})          \* bound: an id is left
       > Cardinality({g \in LiveHandlers : doing[g] = "start"})
  /\ Alone(c)
  /\ chatHolder' = [chatHolder EXCEPT ![c] = h]
  /\ stage' = [stage EXCEPT ![h] = "waiting"]
  /\ UNCHANGED <<rowsOf, world, rowHolder, held>>

\* ... and the rows of the location it replaces.
LockPrevious(h) ==
  /\ stage[h] = "waiting" /\ doing[h] = "start"
  /\ Hold(h, {l \in Shares : Active(l) /\ row[l].chat = wanted[h].chat})
  /\ UNCHANGED <<rowsOf, world, chatHolder, doing, wanted>>

\* updateActiveLiveLocations and stopActiveLiveLocations lock the rows of a
\* device, stopLiveLocation one row, clearConversation and deleteConversation
\* those of a chat.
LockDevice(h, d, p) ==
  /\ Begin(h, "update", [Nothing EXCEPT !.device = d, !.pos = p])
  /\ Hold(h, {l \in Shares : Active(l) /\ row[l].device = d})
  /\ UNCHANGED <<rowsOf, world, chatHolder>>

LockToStop(h, S) ==
  /\ Begin(h, "stop", Nothing)
  /\ Hold(h, {l \in S : Active(l)})
  /\ UNCHANGED <<rowsOf, world, chatHolder>>

StopScopes ==
  {{l} : l \in Shares} \cup {{l \in Shares : row[l].device = d} : d \in Devices}
    \cup {{l \in Shares : row[l].chat = c} : c \in Rooms}

\* Mutant: the scheduler looks for expired locations only.
LockDueExpired(S) ==
  LET candidates == {l \in Shares : Active(l) /\ l \in lapsed /\ Unheld(l)} IN
  /\ Begin(Ticker, "stop", Nothing)
  /\ S \subseteq candidates /\ S # {}
  /\ Cardinality(S) = Batch \/ (Cardinality(S) < Batch /\ S = candidates)
  /\ Hold(Ticker, S)
  /\ UNCHANGED <<rowsOf, world, chatHolder>>

\* expireLiveLocations: as many of the due rows that nobody holds as a batch takes.
LockDue(S) ==
  LET candidates == {l \in Shares : Due(l) /\ Unheld(l)} IN
  /\ Begin(Ticker, "stop", Nothing)
  /\ S \subseteq candidates /\ S # {}
  /\ Cardinality(S) = Batch \/ (Cardinality(S) < Batch /\ S = candidates)
  /\ Hold(Ticker, S)
  /\ UNCHANGED <<rowsOf, world, chatHolder>>

\* What the transaction makes of a row it holds.
Ends(h, l) == doing[h] # "update" \/ Due(l)
\* Mutant: a state that no reader knows.
StoppedAs(r) == [r EXCEPT !.state = "expired"]

Stopped(r) == [r EXCEPT !.state = "stopped"]
NewRow(h, l, r) ==
  IF Ends(h, l) THEN Stopped(r) ELSE [r EXCEPT !.pos = wanted[h].pos]

\* Mutant: the attachment is left as it is when the location ends.
SavedIfActive(l) == l \notin erased /\ Active(l) /\ ~Due(l)

\* The rows, their attachments and, for a start, the new location; the commit.
Saved(l) == l \notin erased

Finish(h, rows) ==
  /\ row' = [l \in Shares |-> IF l \in DOMAIN rows THEN rows[l] ELSE row[l]]
  /\ attachment' = [l \in Shares |-> IF l \in DOMAIN rows /\ Saved(l) THEN Note(rows[l]) ELSE attachment[l]]
  /\ rowHolder' = [l \in Shares |-> IF rowHolder[l] = h THEN Free ELSE rowHolder[l]]
  /\ chatHolder' = [c \in Rooms |-> IF chatHolder[c] = h THEN Free ELSE chatHolder[c]]
  /\ Rest(h)
  /\ UNCHANGED <<erased, cut, world>>

Commit(h) ==
  /\ stage[h] = "holding" /\ doing[h] \in {"update", "stop"}
  /\ Finish(h, [l \in held[h] |-> NewRow(h, l, row[l])])

CommitStart(h, l) ==
  /\ stage[h] = "holding" /\ doing[h] = "start"
  /\ row[l].state = "none"
  /\ Finish(h, [k \in held[h] \cup {l} |->
       IF k = l THEN [state |-> "active", pos |-> Start, chat |-> wanted[h].chat, device |-> wanted[h].device]
       ELSE Stopped(row[k])])

\* A statement fails, or the process stops: nothing of the transaction stays.
Undo(h) ==
  /\ stage[h] # "idle"
  /\ mishaps < MaxLapses
  /\ mishaps' = mishaps + 1
  /\ rowHolder' = [l \in Shares |-> IF rowHolder[l] = h THEN Free ELSE rowHolder[l]]
  /\ chatHolder' = [c \in Rooms |-> IF chatHolder[c] = h THEN Free ELSE chatHolder[c]]
  /\ Rest(h)
  /\ UNCHANGED <<rowsOf, lapsed, may>>
-----------------------------------------------------------------------------
\* deleteMessage reads the active location of the message ...
FindShared(h, l) ==
  /\ Begin(h, "delete", Nothing)
  /\ Active(l) /\ l \notin erased
  /\ held' = [held EXCEPT ![h] = {l}]
  /\ stage' = [stage EXCEPT ![h] = "waiting"]
  /\ UNCHANGED <<rowsOf, world, rowHolder, chatHolder>>

\* ... ends it, unless that has been done meanwhile, without its attachment ...
CutShort(h, l) ==
  /\ stage[h] = "waiting" /\ doing[h] = "delete" /\ l \in held[h]
  /\ Unheld(l)
  /\ row' = IF Active(l) THEN [row EXCEPT ![l] = Stopped(@)] ELSE row
  /\ cut' = IF Active(l) THEN cut \cup {l} ELSE cut
  /\ stage' = [stage EXCEPT ![h] = "erasing"]
  /\ UNCHANGED <<attachment, erased, world, rowHolder, chatHolder, doing, held, wanted>>

\* ... and deletes the message.
EraseMessage(h, l) ==
  /\ stage[h] = "erasing" /\ l \in held[h]
  /\ erased' = erased \cup {l}
  /\ Rest(h)
  /\ UNCHANGED <<row, attachment, cut, world, rowHolder, chatHolder>>

-----------------------------------------------------------------------------
\* Time passes; members leave or block each other, chats are closed to members.
Lapse(l) ==
  /\ Active(l) /\ l \notin lapsed
  /\ lapsed' = lapsed \cup {l}
  /\ UNCHANGED <<rowsOf, may, mishaps, rowHolder, chatHolder, doing, stage, held, wanted>>

Permit(c) ==
  /\ mishaps < MaxLapses
  /\ mishaps' = mishaps + 1
  /\ may' = [may EXCEPT ![c] = ~@]
  /\ UNCHANGED <<rowsOf, lapsed, rowHolder, chatHolder, doing, stage, held, wanted>>

Proceed(h) ==
  \/ LockPrevious(h) \/ Commit(h)
  \/ \E l \in Shares : CommitStart(h, l) \/ CutShort(h, l) \/ EraseMessage(h, l)
LiveTick == \E S \in SUBSET Shares : LockDue(S)

LiveNext ==
  \/ \E h \in Requests :
       \/ \E d \in Devices : (\E c \in Rooms : LockChat(h, c, d)) \/ (\E p \in Positions : LockDevice(h, d, p))
       \/ \E S \in StopScopes : LockToStop(h, S)
       \/ \E l \in Shares : FindShared(h, l)
  \/ \E h \in LiveHandlers : Proceed(h) \/ Undo(h)
  \/ LiveTick
  \/ \E l \in Shares : Lapse(l)
  \/ \E c \in Rooms : Permit(c)

LiveSpec ==
  /\ LiveInit /\ [][LiveNext]_liveVars
  /\ WF_liveVars(LiveTick)
  /\ \A h \in LiveHandlers : WF_liveVars(Proceed(h))

-----------------------------------------------------------------------------
\* A user shares at most one location with a chat, however his requests to
\* start one overlap: SELECT ... FOR UPDATE does not see a location that another
\* start inserts, the advisory lock does (the unique index would refuse it).
OneShare ==
  \A l, k \in Shares : Active(l) /\ Active(k) /\ row[l].chat = row[k].chat => l = k

\* What the message says of its location is what the row says, in every
\* committed state, for each handler that changes the row; only a message whose
\* location was ended in order to delete it may say otherwise.
AttachmentTrue ==
  \A l \in Shares \ (erased \cup cut) : attachment[l] = Note(row[l])

\* A location that ended stays as it was: an update that overlaps its end does
\* not move it or start it again.
EndedForGood ==
  [][\A l \in Shares : row[l].state = "stopped" => row'[l] = row[l]]_row

\* A location that has expired, or that may no longer be shared, ends, although
\* the scheduler skips rows that others hold.
DueEnds == \A l \in Shares : Due(l) ~> ~Due(l)
=============================================================================
