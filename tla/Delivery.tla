------------------------------- MODULE Delivery -------------------------------
(***************************************************************************)
(* How a text reaches the members of one conversation: sendMessage of      *)
(* reliable_messages.go and the socket of chat.go post it, broadcast       *)
(* writes it to the sockets of the room and marks it delivered, and        *)
(* markConversationRead marks it read.  A request is a process; so are the *)
(* statements of a transaction and the parts of a statement that others    *)
(* can interleave with.  Requests are numbered in the order of created_at. *)
(***************************************************************************)
EXTENDS Naturals

CONSTANTS
  Users,     \* the members of the conversation
  Private,   \* those who switched read_receipts off
  Keys,      \* client_message_ids
  NoKey,     \* sent without one, as the socket does
  Sends,     \* requests to post, numbers in the order of created_at
  Reads,     \* requests to mark the conversation read
  None,
  MaxOps,       \* bound on requests and sockets that join
  MaxFailures   \* bound on statements that fail and processes that stop

ASSUME DeliveryAssumption ==
  /\ Sends \subseteq Nat \ {0}
  /\ NoKey \notin Keys
  /\ None \notin Sends
  /\ MaxOps \in Nat
  /\ MaxFailures \in Nat

VARIABLES
  stage,     \* how far each request to post is
  author, key,
  seen,      \* whether its statement sees an older message with its key
  saved,     \* the committed messages, named after the request that inserted them
  status,    \* messages.status
  receipt,   \* message_receipts of each message and user
  room,      \* the users with a socket in the room
  catching,  \* those whose new socket has not yet marked what waited for them
  targets,   \* whom the broadcast in progress has still to write to
  told,      \* the messages whose broadcast has begun
  answers,   \* what clients were answered: sender, key and message
  reading,   \* how far each request to mark read is
  reader,    \* the member it is from
  newest,    \* the newest message it found, 0 if none
  judged,    \* the status it computed for each message, as its snapshot shows it
  ops, failures   \* counters of the bounds

sendVars == <<stage, author, key, seen, targets, told, answers>>
rowVars  == <<saved, status, receipt>>
readVars == <<reading, reader, newest, judged>>
hub      == <<room, catching>>
vars     == <<sendVars, rowVars, readVars, hub, ops, failures>>

Receipts == {"none", "sent", "delivered", "read"}
Grades   == {"sent", "delivered", "read"}
Judgements == Grades \cup {"kept"}

TypeOK ==
  /\ stage \in [Sends -> {"idle", "trying", "open", "saved", "telling", "found", "done", "failed"}]
  /\ author \in [Sends -> Users \cup {None}]
  /\ key \in [Sends -> Keys \cup {NoKey}]
  /\ seen \in [Sends -> BOOLEAN]
  /\ saved \in SUBSET Sends
  /\ status \in [Sends -> Grades]
  /\ receipt \in [Sends -> [Users -> Receipts]]
  /\ room \in SUBSET Users
  /\ catching \in SUBSET Users
  /\ targets \in [Sends -> SUBSET Users]
  /\ told \in SUBSET Sends
  /\ answers \in SUBSET (Users \X (Keys \cup {NoKey}) \X Sends)
  /\ reading \in [Reads -> {"idle", "looked", "marked", "judged", "done"}]
  /\ reader \in [Reads -> Users \cup {None}]
  /\ newest \in [Reads -> Sends \cup {0}]
  /\ judged \in [Reads -> [Sends -> Judgements]]
  /\ ops \in 0..MaxOps
  /\ failures \in 0..MaxFailures

Init ==
  /\ stage = [a \in Sends |-> "idle"]
  /\ author = [a \in Sends |-> None]
  /\ key = [a \in Sends |-> NoKey]
  /\ seen = [a \in Sends |-> FALSE]
  /\ saved = {}
  /\ status = [a \in Sends |-> "sent"]
  /\ receipt = [a \in Sends |-> [u \in Users |-> "none"]]
  /\ room = {}
  /\ catching = {}
  /\ targets = [a \in Sends |-> {}]
  /\ told = {}
  /\ answers = {}
  /\ reading = [r \in Reads |-> "idle"]
  /\ reader = [r \in Reads |-> None]
  /\ newest = [r \in Reads |-> 0]
  /\ judged = [r \in Reads |-> [a \in Sends |-> "kept"]]
  /\ ops = 0
  /\ failures = 0

Counted == ops < MaxOps /\ ops' = ops + 1
Failing == failures < MaxFailures /\ failures' = failures + 1

-----------------------------------------------------------------------------
(* Posting.                                                                *)

\* Two rows the unique index on (sender_id, client_message_id) refuses.
SameKey(a, b) == author[a] = author[b] /\ key[a] = key[b] /\ key[a] # NoKey

\* The request passed its checks and its statement begins: the status is guessed
\* from who is online, in the room or elsewhere, and the snapshot is taken.
Begin(a, u, k, elsewhere) ==
  /\ Counted
  /\ stage[a] = "idle"
  /\ \A b \in Sends : b < a => stage[b] # "idle"
  /\ stage' = [stage EXCEPT ![a] = "trying"]
  /\ author' = [author EXCEPT ![a] = u]
  /\ key' = [key EXCEPT ![a] = k]
  /\ seen' = [seen EXCEPT ![a] = \E b \in saved : author[b] = u /\ key[b] = k /\ k # NoKey]
  /\ status' = [status EXCEPT ![a] = IF room \ {u} # {} \/ elsewhere THEN "delivered" ELSE "sent"]
  /\ UNCHANGED <<saved, receipt, hub, targets, told, answers, readVars, failures>>

\* sendMessage; media, contacts and places, which have no key; and the socket,
\* which has none either and looks at its room only.
SendText(a, u, k)    == \E elsewhere \in BOOLEAN : Begin(a, u, k, elsewhere)
SendAttachment(a, u) == \E elsewhere \in BOOLEAN : Begin(a, u, NoKey, elsewhere)
SendBySocket(a, u)   == Begin(a, u, NoKey, FALSE)
Send(a, u) == (\E k \in Keys \cup {NoKey} : SendText(a, u, k)) \/ SendAttachment(a, u) \/ SendBySocket(a, u)

\* Mutant: an insertion that does not wait.
MayInsertUnchecked(a) == TRUE

\* ON CONFLICT waits for a transaction that has inserted the key.
MayInsert(a) == \A b \in Sends : stage[b] = "open" => ~SameKey(a, b)
Taken(a)     == \E b \in saved : SameKey(a, b)

\* The trigger of migration 000025 gives every other member a receipt.
Insert(a) ==
  /\ stage[a] = "trying"
  /\ MayInsert(a)
  /\ ~Taken(a)
  /\ stage' = [stage EXCEPT ![a] = "open"]
  /\ receipt' = [receipt EXCEPT ![a] = [u \in Users |-> IF u = author[a] THEN "none" ELSE "sent"]]
  /\ UNCHANGED <<author, key, seen, saved, status, hub, targets, told, answers, readVars, ops, failures>>

\* DO NOTHING, and the SELECT of the same statement returns the older message
\* if its snapshot has it.  If it was committed since, no row comes back and
\* the request fails although the message is saved.
FindExisting(a) ==
  /\ stage[a] = "trying"
  /\ MayInsert(a)
  /\ Taken(a)
  /\ stage' = [stage EXCEPT ![a] = IF seen[a] THEN "found" ELSE "failed"]
  /\ UNCHANGED <<author, key, seen, rowVars, hub, targets, told, answers, readVars, ops, failures>>

Commit(a) ==
  /\ stage[a] = "open"
  /\ stage' = [stage EXCEPT ![a] = "saved"]
  /\ saved' = saved \cup {a}
  /\ UNCHANGED <<author, key, seen, status, receipt, hub, targets, told, answers, readVars, ops, failures>>

\* A statement fails, or the process stops, before the commit.
Fail(a) ==
  /\ Failing
  /\ stage[a] \in {"trying", "open"}
  /\ stage' = [stage EXCEPT ![a] = "failed"]
  /\ receipt' = [receipt EXCEPT ![a] = [u \in Users |-> "none"]]
  /\ UNCHANGED <<author, key, seen, saved, status, hub, targets, told, answers, readVars, ops>>

\* broadcast copies the room ...
Broadcast(a) ==
  /\ stage[a] = "saved"
  /\ stage' = [stage EXCEPT ![a] = "telling"]
  /\ targets' = [targets EXCEPT ![a] = room]
  /\ told' = told \cup {a}
  /\ UNCHANGED <<author, key, seen, rowVars, hub, answers, readVars, ops, failures>>

Received(grade) == IF grade = "sent" THEN "delivered" ELSE grade

\* Mutant: marks delivered only what was guessed to be delivered.
WriteOnGuess(a, u) ==
  /\ stage[a] = "telling"
  /\ u \in targets[a]
  /\ targets' = [targets EXCEPT ![a] = @ \ {u}]
  /\ receipt' = [receipt EXCEPT ![a][u] = IF u = author[a] \/ status[a] = "sent" THEN @ ELSE Received(@)]
  /\ UNCHANGED <<stage, author, key, seen, saved, status, hub, told, answers, readVars, ops, failures>>

\* ... and marks the message delivered for each client of the copy, then writes.
Write(a, u) ==
  /\ stage[a] = "telling"
  /\ u \in targets[a]
  /\ targets' = [targets EXCEPT ![a] = @ \ {u}]
  /\ receipt' = [receipt EXCEPT ![a][u] = IF u = author[a] THEN @ ELSE Received(@)]
  /\ UNCHANGED <<stage, author, key, seen, saved, status, hub, told, answers, readVars, ops, failures>>

\* 201 after the broadcast, 200 for a message that existed.
Reply(a) ==
  /\ \/ stage[a] = "telling" /\ targets[a] = {} /\ answers' = answers \cup {<<author[a], key[a], a>>}
     \/ stage[a] = "found" /\ \E b \in saved : SameKey(a, b) /\ answers' = answers \cup {<<author[a], key[a], b>>}
  /\ stage' = [stage EXCEPT ![a] = "done"]
  /\ UNCHANGED <<author, key, seen, rowVars, hub, targets, told, readVars, ops, failures>>

\* The process stops: what it had not told or answered is forgotten.
Crash(a) ==
  /\ Failing
  /\ stage[a] \in {"saved", "telling", "found"}
  /\ stage' = [stage EXCEPT ![a] = "failed"]
  /\ targets' = [targets EXCEPT ![a] = {}]
  /\ UNCHANGED <<author, key, seen, rowVars, hub, told, answers, readVars, ops>>

-----------------------------------------------------------------------------
(* The room.                                                               *)

\* chatSocket adds the socket to the room ...
Join(u) ==
  /\ Counted
  /\ u \notin room \cup catching
  /\ room' = room \cup {u}
  /\ catching' = catching \cup {u}
  /\ UNCHANGED <<sendVars, rowVars, readVars, failures>>

\* ... and then marks what waited for its user delivered.
CatchUp(u) ==
  /\ u \in catching
  /\ catching' = catching \ {u}
  /\ receipt' = [a \in Sends |-> IF a \in saved THEN [receipt[a] EXCEPT ![u] = Received(@)] ELSE receipt[a]]
  /\ UNCHANGED <<sendVars, saved, status, readVars, room, ops, failures>>

\* The last socket of a user closes, or a write to it fails.
Leave(u) ==
  /\ u \in room
  /\ room' = room \ {u}
  /\ UNCHANGED <<sendVars, rowVars, readVars, catching, ops, failures>>

-----------------------------------------------------------------------------
(* Reading.                                                                *)

\* The newest message, if there is one; its place is taken by 0.
Newest(m) == IF saved = {} THEN m = 0 ELSE m \in saved /\ \A n \in saved : n <= m

Look(r, u) ==
  /\ Counted
  /\ reading[r] = "idle"
  /\ reading' = [reading EXCEPT ![r] = IF saved = {} THEN "done" ELSE "looked"]
  /\ reader' = [reader EXCEPT ![r] = u]
  /\ \E m \in Sends \cup {0} : Newest(m) /\ newest' = [newest EXCEPT ![r] = m]
  /\ UNCHANGED <<sendVars, rowVars, judged, hub, failures>>

\* The receipts of what is committed by now and not newer than the message
\* found.  Without read_receipts nothing happens.
Mark(r) ==
  LET u == reader[r] IN
  /\ reading[r] = "looked"
  /\ reading' = [reading EXCEPT ![r] = IF u \in Private THEN "done" ELSE "marked"]
  /\ newest' = [newest EXCEPT ![r] = 0]
  /\ receipt' = [a \in Sends |->
       IF u \notin Private /\ a \in saved /\ a <= newest[r] /\ receipt[a][u] # "none"
       THEN [receipt[a] EXCEPT ![u] = "read"] ELSE receipt[a]]
  /\ UNCHANGED <<sendVars, saved, status, reader, judged, hub, ops, failures>>

\* Mutant: read as soon as one recipient has read it.
ReadByReader(a)   == \E u \in Users : receipt[a][u] = "read"

ReadByAll(a)      == \A u \in Users : receipt[a][u] \in {"none", "read"}
DeliveredToAll(a) == \A u \in Users : receipt[a][u] # "sent"

\* The UPDATE of messages.status computes the status of each message of
\* others in its snapshot ...
Judge(r) ==
  /\ reading[r] = "marked"
  /\ reading' = [reading EXCEPT ![r] = "judged"]
  /\ judged' = [judged EXCEPT ![r] = [a \in Sends |->
       IF a \notin saved \/ author[a] = reader[r] THEN "kept"
       ELSE IF ReadByAll(a) THEN "read"
       ELSE IF DeliveredToAll(a) THEN "delivered" ELSE "kept"]]
  /\ UNCHANGED <<sendVars, rowVars, reader, newest, hub, ops, failures>>

\* Mutant: the CASE without its ELSE.
SettleWithoutElse(r) ==
  /\ reading[r] = "judged"
  /\ reading' = [reading EXCEPT ![r] = "done"]
  /\ status' = judged[r]
  /\ reader' = [reader EXCEPT ![r] = None]
  /\ judged' = [judged EXCEPT ![r] = [a \in Sends |-> "kept"]]
  /\ UNCHANGED <<sendVars, saved, receipt, newest, hub, ops, failures>>

\* ... and writes it when it comes to the row, which another reader may have
\* written meanwhile.  Then it broadcasts a read receipt.
Settle(r) ==
  /\ reading[r] = "judged"
  /\ reading' = [reading EXCEPT ![r] = "done"]
  /\ status' = [a \in Sends |-> IF judged[r][a] = "kept" THEN status[a] ELSE judged[r][a]]
  /\ reader' = [reader EXCEPT ![r] = None]
  /\ judged' = [judged EXCEPT ![r] = [a \in Sends |-> "kept"]]
  /\ UNCHANGED <<sendVars, saved, receipt, newest, hub, ops, failures>>

-----------------------------------------------------------------------------
Next ==
  \/ \E a \in Sends :
       \/ \E u \in Users : Send(a, u)
       \/ Insert(a) \/ FindExisting(a) \/ Commit(a) \/ Fail(a)
       \/ Broadcast(a) \/ Reply(a) \/ Crash(a)
       \/ \E u \in Users : Write(a, u)
  \/ \E r \in Reads :
       \/ \E u \in Users : Look(r, u)
       \/ Mark(r) \/ Judge(r) \/ Settle(r)
  \/ \E u \in Users : Join(u) \/ CatchUp(u) \/ Leave(u)

Spec == Init /\ [][Next]_vars

-----------------------------------------------------------------------------
(* Properties.                                                             *)

\* A message is shown as read only when every recipient has read it: two
\* readers whose UPDATEs overlap, or a message that is committed between them,
\* do not make it read too early (markConversationRead).
ReadMeansAll ==
  \A a \in saved, u \in Users : status[a] = "read" /\ u # author[a] => receipt[a][u] = "read"

\* Nothing falls between the copy of the room that broadcast makes and the
\* marking of what waited when a socket joined: who is in the room, has caught
\* up and is no longer to be written to has each announced message delivered.
RoomServed ==
  \A a \in saved, u \in room \ catching :
    stage[a] \in {"telling", "done"} /\ u \notin targets[a] => receipt[a][u] # "sent"

\* sendMessage implements idempotent posting.
Slots      == Users \X Keys
InSlot(a, s) == author[a] = s[1] /\ key[a] = s[2]
Posted(s)  == {a \in saved : InSlot(a, s)}
posted     == [s \in Slots |-> IF Posted(s) = {} THEN None ELSE CHOOSE a \in Posted(s) : TRUE]
toldSlots  == {s \in Slots : \E a \in told : InSlot(a, s)}
answered   == [s \in Slots |-> {a \in Sends : <<s[1], s[2], a>> \in answers}]
Idempotent == INSTANCE Posting WITH Messages <- Sends, told <- toldSlots
PostedOnce == Idempotent!PostingSpec
=============================================================================
