-------------------------- MODULE ScheduledMessages --------------------------
(***************************************************************************)
(* Scheduled messages of the Go API (scheduled_messages.go): HTTP handlers *)
(* create, update and cancel rows of scheduled_messages, and one scheduler *)
(* goroutine per API process (a dispatcher) posts the rows that are due.   *)
(*                                                                         *)
(* A dispatch is one PostgreSQL transaction (READ COMMITTED) over a batch  *)
(* of rows locked with FOR UPDATE SKIP LOCKED; each of its statements is a *)
(* step here, so that other dispatchers, requests and the handlers that    *)
(* change a chat interleave with it.  After the commit the process         *)
(* broadcasts what it has posted, from memory.                             *)
(***************************************************************************)
EXTENDS Naturals, Sequences, FiniteSets

CONSTANTS
  Items,            \* ids of scheduled_messages rows
  Users,            \* members who schedule; a group also has other members,
                    \* among them an admin, and a direct chat its other side
  Chats,            \* conversations
  Dispatchers,      \* API processes, each with one scheduler goroutine
  Bodies,           \* message texts
  NoBody,           \* no text: the row does not exist, or an update keeps it
  NoItem,           \* no row in progress
  Sender,           \* the author of each item
  Chat,             \* the conversation of each item
  Kind,             \* "direct" or "group", for each conversation
  BatchLimit,       \* LIMIT of the dispatch query (100 in the code)
  MaxTime,          \* bound on the clock
  MaxEdits,         \* bound on update requests
  MaxFailures,      \* bound on failed statements and process crashes
  MaxDisturbances   \* bound on changes to chats, members and accounts

ASSUME ConstantsAssumption ==
  /\ IsFiniteSet(Items)
  /\ Sender \in [Items -> Users]
  /\ Chat \in [Items -> Chats]
  /\ Kind \in [Chats -> {"direct", "group"}]
  /\ NoItem \notin Items
  /\ NoBody \notin Bodies
  /\ BatchLimit \in Nat \ {0}
  /\ MaxTime \in Nat
  /\ MaxEdits \in Nat
  /\ MaxFailures \in Nat
  /\ MaxDisturbances \in Nat

VARIABLES
  now,          \* the database clock
  (* Table scheduled_messages: *)
  status, dueAt, body,
  messages,     \* rows of messages made from each item, oldest first
  notices,      \* "scheduled_message_failed" notifications of each item
  published,    \* broadcasts (and pushes) of each item's message
  (* What the checks of the code read about the chats: *)
  role,         \* conversation_members.role, or "none" without a row
  hidden,       \* members of a chat whose hidden_at is set
  announcement, \* chats with announcement_only
  blocked,      \* direct chats with a block in either direction
  active,       \* users whose account_status is 'active'
  requests,     \* create and update requests past their checks
  (* The scheduler goroutines: *)
  pc,           \* the next statement of each dispatcher
  todo,         \* locked rows still to be processed
  cur,          \* the row in progress
  ahead,        \* who is in front of it in the queue for a conversation row
  read,         \* the text of each locked row, as the dispatch query read it
  sending,      \* rows whose message is inserted, not committed
  failing,      \* rows marked failed, not committed
  events,       \* committed messages still to be broadcast, in order
  edits, failures, disturbances   \* counters of the bounds

rowVars    == <<status, dueAt, body>>
outVars    == <<messages, notices, published>>
chatVars   == <<role, hidden, announcement, blocked, active>>
jobVars    == <<pc, todo, cur, ahead, read, sending, failing, events>>
boundVars  == <<edits, failures, disturbances>>
vars == <<now, rowVars, outVars, chatVars, requests, jobVars, boundVars>>

Statuses == {"none", "pending", "sent", "cancelled", "failed"}
Roles    == {"none", "member", "admin"}
Times    == 1..MaxTime
Stages   == {"idle", "next", "permit", "insert", "lock", "wait", "publish"}
RequestRecords == [item : Items, kind : {"create", "update"},
             body : Bodies \cup {NoBody}, at : 0..MaxTime]

TypeOK ==
  /\ now \in 0..MaxTime
  /\ status \in [Items -> Statuses]
  /\ dueAt \in [Items -> 0..MaxTime]
  /\ body \in [Items -> Bodies \cup {NoBody}]
  /\ messages \in [Items -> Seq(Bodies)]
  /\ notices \in [Items -> Nat]
  /\ published \in [Items -> Nat]
  /\ role \in [Chats -> [Users -> Roles]]
  /\ hidden \in [Chats -> SUBSET Users]
  /\ announcement \in SUBSET Chats
  /\ blocked \in SUBSET Chats
  /\ active \in SUBSET Users
  /\ requests \in SUBSET RequestRecords
  /\ pc \in [Dispatchers -> Stages]
  /\ todo \in [Dispatchers -> SUBSET Items]
  /\ cur \in [Dispatchers -> Items \cup {NoItem}]
  /\ ahead \in [Dispatchers -> SUBSET Dispatchers]
  /\ read \in [Dispatchers -> [Items -> Bodies \cup {NoBody}]]
  /\ sending \in [Dispatchers -> SUBSET Items]
  /\ failing \in [Dispatchers -> SUBSET Items]
  /\ events \in [Dispatchers -> Seq(Items)]
  /\ edits \in 0..MaxEdits
  /\ failures \in 0..MaxFailures
  /\ disturbances \in 0..MaxDisturbances

NothingRead == [i \in Items |-> NoBody]

Init ==
  /\ now = 0
  /\ status = [i \in Items |-> "none"]
  /\ dueAt = [i \in Items |-> 0]
  /\ body = [i \in Items |-> NoBody]
  /\ messages = [i \in Items |-> <<>>]
  /\ notices = [i \in Items |-> 0]
  /\ published = [i \in Items |-> 0]
  /\ role = [c \in Chats |-> [u \in Users |-> "member"]]
  /\ hidden = [c \in Chats |-> {}]
  /\ announcement = {}
  /\ blocked = {}
  /\ active = Users
  /\ requests = {}
  /\ pc = [d \in Dispatchers |-> "idle"]
  /\ todo = [d \in Dispatchers |-> {}]
  /\ cur = [d \in Dispatchers |-> NoItem]
  /\ ahead = [d \in Dispatchers |-> {}]
  /\ read = [d \in Dispatchers |-> NothingRead]
  /\ sending = [d \in Dispatchers |-> {}]
  /\ failing = [d \in Dispatchers |-> {}]
  /\ events = [d \in Dispatchers |-> <<>>]
  /\ edits = 0 /\ failures = 0 /\ disturbances = 0

-----------------------------------------------------------------------------
(* Row locks.  A dispatcher keeps the lock of every row of its batch until *)
(* its transaction ends, and from the first message it inserts into a chat *)
(* the locks of that conversation row and of the other members' rows.      *)

Held(d) == todo[d] \cup sending[d] \cup failing[d]

NothingLocked == {}
Locked == UNION {Held(d) : d \in Dispatchers}

ChatLockedBy(d, c) == \E i \in sending[d] : Chat[i] = c
ChatFree(c) == \A d \in Dispatchers : ~ChatLockedBy(d, c)

-----------------------------------------------------------------------------
(* The checks of the code.                                                 *)

(* hidden_at as the dispatcher's own transaction sees it: its inserts have *)
(* already unhidden the chat for everybody but their sender.               *)
HiddenSeenBy(d, c) ==
  {u \in hidden[c] : ~\E i \in sending[d] : Chat[i] = c /\ Sender[i] # u}

(* groupAllowsSender, and the announcement trigger on messages. *)
MayPost(u, c) ==
  \/ Kind[c] # "group"
  \/ c \notin announcement
  \/ role[c][u] = "admin"

Blocked(c) == Kind[c] = "direct" /\ c \in blocked

(* The availability query of the dispatcher. *)
AvailableTo(d, i) ==
  /\ role[Chat[i]][Sender[i]] # "none"
  /\ Sender[i] \notin HiddenSeenBy(d, Chat[i])
  /\ Sender[i] \in active
  /\ ~Blocked(Chat[i])

(* requireBearer, isConversationMember and requireConversationSender. *)
MaySchedule(u, c) ==
  /\ u \in active
  /\ role[c][u] # "none"
  /\ MayPost(u, c)

-----------------------------------------------------------------------------
(* HTTP handlers.  Each runs its checks first and its only write later, as *)
(* separate statements; other steps may come in between.                   *)

(* createScheduledMessage up to its INSERT. *)
BeginCreate(i, b, t) ==
  /\ status[i] = "none"
  /\ \A r \in requests : r.item # i
  /\ t > now
  /\ MaySchedule(Sender[i], Chat[i])
  /\ ~Blocked(Chat[i])
  /\ requests' = requests \cup {[item |-> i, kind |-> "create", body |-> b, at |-> t]}
  /\ UNCHANGED <<now, rowVars, outVars, chatVars, jobVars, boundVars>>

FinishCreate(r) ==
  /\ r.kind = "create"
  /\ requests' = requests \ {r}
  /\ status' = [status EXCEPT ![r.item] = "pending"]
  /\ dueAt' = [dueAt EXCEPT ![r.item] = r.at]
  /\ body' = [body EXCEPT ![r.item] = r.body]
  /\ UNCHANGED <<now, outVars, chatVars, jobVars, boundVars>>

(* updateScheduledMessage up to its UPDATE: a new text, a new time, or     *)
(* both; 0 and NoBody stand for a field the request leaves out.            *)
BeginUpdate(i, b, t) ==
  /\ edits < MaxEdits
  /\ b # NoBody \/ t # 0
  /\ t = 0 \/ t > now
  /\ status[i] = "pending"
  /\ MaySchedule(Sender[i], Chat[i])
  /\ edits' = edits + 1
  /\ requests' = requests \cup {[item |-> i, kind |-> "update", body |-> b, at |-> t]}
  /\ UNCHANGED <<now, rowVars, outVars, chatVars, jobVars, failures, disturbances>>

(* The UPDATE waits for the row's lock and only changes a pending row;     *)
(* otherwise the request is answered with 404.                             *)
UpdatableUnlocked(i) == status[i] = "pending"
UpdatableAnyStatus(i) == i \notin Locked
Updatable(i) == i \notin Locked /\ status[i] = "pending"

(* COALESCE: a field that the request leaves out keeps its value. *)
Overwritten(new, old, absent) == new
Coalesce(new, old, absent) == IF new = absent THEN old ELSE new

FinishUpdate(r) ==
  /\ r.kind = "update"
  /\ requests' = requests \ {r}
  /\ \/ /\ Updatable(r.item)
        /\ body' = [body EXCEPT ![r.item] = Coalesce(r.body, @, NoBody)]
        /\ dueAt' = [dueAt EXCEPT ![r.item] = Coalesce(r.at, @, 0)]
     \/ /\ r.item \notin Locked
        /\ status[r.item] # "pending"
        /\ UNCHANGED <<body, dueAt>>
  /\ UNCHANGED <<now, status, outVars, chatVars, jobVars, boundVars>>

(* cancelScheduledMessage is a single UPDATE. *)
Cancel(i) ==
  /\ Updatable(i)
  /\ status' = [status EXCEPT ![i] = "cancelled"]
  /\ UNCHANGED <<now, dueAt, body, outVars, chatVars, requests, jobVars, boundVars>>

-----------------------------------------------------------------------------
(* dispatchScheduledMessages.                                              *)

Claimable == {i \in Items : status[i] = "pending" /\ dueAt[i] <= now} \ Locked

(* The dispatch query: the earliest due rows nobody has locked. *)
Fetch(d) ==
  /\ pc[d] = "idle"
  /\ \E batch \in SUBSET Claimable :
       /\ batch # {}
       /\ Cardinality(batch) <= BatchLimit
       /\ Cardinality(batch) < BatchLimit => batch = Claimable
       /\ \A i \in batch, j \in Claimable \ batch : dueAt[i] <= dueAt[j]
       /\ todo' = [todo EXCEPT ![d] = batch]
       /\ read' = [read EXCEPT ![d] = [i \in Items |-> IF i \in batch THEN body[i] ELSE NoBody]]
  /\ pc' = [pc EXCEPT ![d] = "next"]
  /\ UNCHANGED <<now, rowVars, outVars, chatVars, requests,
                 cur, ahead, sending, failing, events, boundVars>>

(* failScheduledMessage, within the transaction. *)
Fail(d, i) ==
  /\ failing' = [failing EXCEPT ![d] = @ \cup {i}]
  /\ todo' = [todo EXCEPT ![d] = @ \ {i}]
  /\ pc' = [pc EXCEPT ![d] = "next"]
  /\ cur' = [cur EXCEPT ![d] = NoItem]

CheckAvailable(d) ==
  /\ pc[d] = "next"
  /\ \E i \in todo[d] :
       /\ \A j \in todo[d] : dueAt[i] <= dueAt[j]
       /\ \/ /\ AvailableTo(d, i)
             /\ pc' = [pc EXCEPT ![d] = "permit"]
             /\ cur' = [cur EXCEPT ![d] = i]
             /\ UNCHANGED <<todo, failing>>
          \/ /\ ~AvailableTo(d, i)
             /\ Fail(d, i)
  /\ UNCHANGED <<now, rowVars, outVars, chatVars, requests,
                 ahead, read, sending, events, boundVars>>

LeaveQueue(d) == ahead' = [e \in Dispatchers |-> ahead[e] \ {d}]

(* The transaction is rolled back: every row of the batch stays pending.   *)
RollBackLeaked(d) ==
  /\ pc' = [pc EXCEPT ![d] = "idle"]
  /\ UNCHANGED <<todo, cur, ahead, read, sending, failing, events>>

RollBack(d) ==
  /\ pc' = [pc EXCEPT ![d] = "idle"]
  /\ todo' = [todo EXCEPT ![d] = {}]
  /\ cur' = [cur EXCEPT ![d] = NoItem]
  /\ sending' = [sending EXCEPT ![d] = {}]
  /\ failing' = [failing EXCEPT ![d] = {}]
  /\ read' = [read EXCEPT ![d] = NothingRead]
  /\ LeaveQueue(d)
  /\ UNCHANGED events

(* conversationAllowsSender; without a member row it is an error. *)
CheckPermission(d) ==
  /\ pc[d] = "permit"
  /\ LET i == cur[d]
         c == Chat[i]
         u == Sender[i]
     IN \/ /\ role[c][u] = "none"
           /\ RollBack(d)
        \/ /\ role[c][u] # "none"
           /\ MayPost(u, c)
           /\ pc' = [pc EXCEPT ![d] = "insert"]
           /\ UNCHANGED <<todo, cur, ahead, read, sending, failing, events>>
        \/ /\ role[c][u] # "none"
           /\ ~MayPost(u, c)
           /\ Fail(d, i)
           /\ UNCHANGED <<ahead, read, sending, events>>
  /\ UNCHANGED <<now, rowVars, outVars, chatVars, requests, boundVars>>

(* The INSERT into messages starts: the announcement trigger raises for a  *)
(* sender who may not post.                                                *)
Insert(d) ==
  /\ pc[d] = "insert"
  /\ \/ /\ MayPost(Sender[cur[d]], Chat[cur[d]])
        /\ pc' = [pc EXCEPT ![d] = "lock"]
        /\ UNCHANGED <<todo, cur, ahead, read, sending, failing, events>>
     \/ /\ ~MayPost(Sender[cur[d]], Chat[cur[d]])
        /\ RollBack(d)
  /\ UNCHANGED <<now, rowVars, outVars, chatVars, requests, boundVars>>

(* The INSERT ends with the foreign key's lock on the conversation row,    *)
(* and the UPDATEs of that row, of the other members and of the scheduled  *)
(* row follow.  They wait for whoever holds the conversation; PostgreSQL   *)
(* does not let a newcomer overtake a waiter.                              *)
Waiting(c) == {e \in Dispatchers : pc[e] = "wait" /\ Chat[cur[e]] = c}

ChatFreeFor(d, c) ==
  /\ \A e \in Dispatchers \ {d} : ~ChatLockedBy(e, c)
  /\ ahead[d] = {}
  /\ pc[d] = "lock" => Waiting(c) = {}

WaitForChat(d) ==
  /\ pc[d] = "lock"
  /\ ~ChatFreeFor(d, Chat[cur[d]])
  /\ pc' = [pc EXCEPT ![d] = "wait"]
  /\ ahead' = [ahead EXCEPT ![d] = Waiting(Chat[cur[d]])]
  /\ UNCHANGED <<now, rowVars, outVars, chatVars, requests,
                 todo, cur, read, sending, failing, events, boundVars>>

SendFrom(d) ==
  /\ pc[d] \in {"lock", "wait"}
  /\ ChatFreeFor(d, Chat[cur[d]])
  /\ sending' = [sending EXCEPT ![d] = @ \cup {cur[d]}]
  /\ todo' = [todo EXCEPT ![d] = @ \ {cur[d]}]
  /\ cur' = [cur EXCEPT ![d] = NoItem]
  /\ pc' = [pc EXCEPT ![d] = "next"]
  /\ LeaveQueue(d)
  /\ UNCHANGED <<now, rowVars, messages, notices, chatVars, requests,
                 read, failing, events, boundVars>>

SendAndBroadcast(d) ==
  SendFrom(d) /\ published' = [published EXCEPT ![cur[d]] = @ + 1]

Send(d) == SendFrom(d) /\ UNCHANGED published

(* The events slice: in the order the batch was processed. *)
DispatchOrders(S) ==
  {s \in [1..Cardinality(S) -> S] :
     /\ \A i \in S : \E j \in DOMAIN s : s[j] = i
     /\ \A j, k \in DOMAIN s : j # k => s[j] # s[k]
     /\ \A j, k \in DOMAIN s : j < k => dueAt[s[j]] <= dueAt[s[k]]}

CommitBatch(d) ==
  /\ pc[d] = "next"
  /\ todo[d] = {}
  /\ status' = [i \in Items |-> IF i \in sending[d] THEN "sent"
                                ELSE IF i \in failing[d] THEN "failed" ELSE status[i]]
  /\ messages' = [i \in Items |-> IF i \in sending[d] THEN Append(messages[i], read[d][i])
                                  ELSE messages[i]]
  /\ notices' = [i \in Items |-> IF i \in failing[d] THEN notices[i] + 1 ELSE notices[i]]
  /\ hidden' = [c \in Chats |-> HiddenSeenBy(d, c)]
  /\ events' \in {[events EXCEPT ![d] = order] : order \in DispatchOrders(sending[d])}
  /\ sending' = [sending EXCEPT ![d] = {}]
  /\ failing' = [failing EXCEPT ![d] = {}]
  /\ read' = [read EXCEPT ![d] = NothingRead]
  /\ pc' = [pc EXCEPT ![d] = "publish"]
  /\ UNCHANGED <<now, dueAt, body, published, role, announcement, blocked, active,
                 requests, todo, cur, ahead, boundVars>>

(* broadcast and notifyConversation, one message after the other. *)
Publish(d) ==
  /\ pc[d] = "publish"
  /\ \/ /\ events[d] # <<>>
        /\ published' = [published EXCEPT ![Head(events[d])] = @ + 1]
        /\ events' = [events EXCEPT ![d] = Tail(@)]
        /\ UNCHANGED pc
     \/ /\ events[d] = <<>>
        /\ pc' = [pc EXCEPT ![d] = "idle"]
        /\ UNCHANGED <<published, events>>
  /\ UNCHANGED <<now, rowVars, messages, notices, chatVars, requests,
                 todo, cur, ahead, read, sending, failing, boundVars>>

(* A statement of the transaction fails or the process stops before the    *)
(* commit: PostgreSQL rolls back.                                          *)
Abort(d) ==
  /\ failures < MaxFailures
  /\ pc[d] \in {"next", "permit", "insert", "lock", "wait"}
  /\ RollBack(d)
  /\ failures' = failures + 1
  /\ UNCHANGED <<now, rowVars, outVars, chatVars, requests, edits, disturbances>>

(* The process stops after the commit: its events are lost. *)
CrashPublishing(d) ==
  /\ failures < MaxFailures
  /\ pc[d] = "publish"
  /\ pc' = [pc EXCEPT ![d] = "idle"]
  /\ events' = [events EXCEPT ![d] = <<>>]
  /\ failures' = failures + 1
  /\ UNCHANGED <<now, rowVars, outVars, chatVars, requests,
                 todo, cur, ahead, read, sending, failing, edits, disturbances>>

(* Dispatchers wait for each other's conversation rows in a cycle;         *)
(* PostgreSQL ends the wait by failing the statement of one of them.       *)
WaitsFor(d, e) ==
  d # e /\ pc[d] = "wait" /\ ChatLockedBy(e, Chat[cur[d]])

Deadlocked(d) ==
  \E S \in SUBSET Dispatchers :
    /\ d \in S
    /\ \A e \in S : (\E f \in S : WaitsFor(e, f)) /\ (\E f \in S : WaitsFor(f, e))

BreakDeadlock(d) ==
  /\ Deadlocked(d)
  /\ RollBack(d)
  /\ UNCHANGED <<now, rowVars, outVars, chatVars, requests, boundVars>>

-----------------------------------------------------------------------------
(* Other handlers that change what the dispatcher checks.  Those that lock *)
(* the conversation or a member row wait for a dispatcher that holds it.   *)

Disturb == disturbances < MaxDisturbances /\ disturbances' = disturbances + 1

(* deleteConversation hides the chat for one member. *)
HideChat(c, u) ==
  /\ Disturb
  /\ role[c][u] # "none"
  /\ \A d \in Dispatchers : \A i \in sending[d] : Chat[i] = c => Sender[i] = u
  /\ hidden' = [hidden EXCEPT ![c] = @ \cup {u}]
  /\ UNCHANGED <<now, rowVars, outVars, role, announcement, blocked, active,
                 requests, jobVars, edits, failures>>

(* updateGroup locks the conversation FOR UPDATE; the activity message it  *)
(* records unhides the chat for every member.                              *)
SwitchAnnouncement(c) ==
  /\ Disturb
  /\ Kind[c] = "group"
  /\ ChatFree(c)
  /\ announcement' = IF c \in announcement THEN announcement \ {c} ELSE announcement \cup {c}
  /\ hidden' = [hidden EXCEPT ![c] = {}]
  /\ UNCHANGED <<now, rowVars, outVars, role, blocked, active,
                 requests, jobVars, edits, failures>>

(* Members join, leave and change role under the conversation's lock, each *)
(* with an activity message that unhides the chat for every member.        *)
ChangeRole(c, u, r) ==
  /\ Disturb
  /\ Kind[c] = "group"
  /\ ChatFree(c)
  /\ role[c][u] # r
  /\ role[c][u] = "none" => r = "member"
  /\ role' = [role EXCEPT ![c][u] = r]
  /\ hidden' = [hidden EXCEPT ![c] = {}]
  /\ UNCHANGED <<now, rowVars, outVars, announcement, blocked, active,
                 requests, jobVars, edits, failures>>

(* blockUser and unblockUser between the two members of a direct chat. *)
SwitchBlock(c) ==
  /\ Disturb
  /\ Kind[c] = "direct"
  /\ blocked' = IF c \in blocked THEN blocked \ {c} ELSE blocked \cup {c}
  /\ UNCHANGED <<now, rowVars, outVars, role, hidden, announcement, active,
                 requests, jobVars, edits, failures>>

(* An administrator suspends or reactivates an account. *)
SwitchAccount(u) ==
  /\ Disturb
  /\ active' = IF u \in active THEN active \ {u} ELSE active \cup {u}
  /\ UNCHANGED <<now, rowVars, outVars, role, hidden, announcement, blocked,
                 requests, jobVars, edits, failures>>

Tick ==
  /\ now < MaxTime
  /\ now' = now + 1
  /\ UNCHANGED <<rowVars, outVars, chatVars, requests, jobVars, boundVars>>

-----------------------------------------------------------------------------
Request ==
  \/ \E i \in Items, b \in Bodies, t \in Times : BeginCreate(i, b, t)
  \/ \E r \in requests : FinishCreate(r)
  \/ \E i \in Items, b \in Bodies \cup {NoBody}, t \in 0..MaxTime : BeginUpdate(i, b, t)
  \/ \E r \in requests : FinishUpdate(r)
  \/ \E i \in Items : Cancel(i)

Dispatch(d) ==
  \/ Fetch(d)
  \/ CheckAvailable(d)
  \/ CheckPermission(d)
  \/ Insert(d)
  \/ WaitForChat(d)
  \/ Send(d)
  \/ CommitBatch(d)
  \/ Publish(d)
  \/ BreakDeadlock(d)

Failure(d) == Abort(d) \/ CrashPublishing(d)

Disturbance ==
  \/ \E c \in Chats, u \in Users : HideChat(c, u)
  \/ \E c \in Chats : SwitchAnnouncement(c)
  \/ \E c \in Chats, u \in Users, r \in Roles : ChangeRole(c, u, r)
  \/ \E c \in Chats : SwitchBlock(c)
  \/ \E u \in Users : SwitchAccount(u)

Next ==
  \/ Request
  \/ \E d \in Dispatchers : Dispatch(d)
  \/ \E d \in Dispatchers : Failure(d)
  \/ Disturbance
  \/ Tick

(* The ticker of startScheduledMessageScheduler runs a dispatch every 15   *)
(* seconds in every live process, and a dispatch runs to its end.          *)
(* Requests, other handlers, failures and the clock promise nothing.       *)
Fairness == \A d \in Dispatchers : WF_vars(Dispatch(d))

Spec == Init /\ [][Next]_vars

FairSpec == Spec /\ Fairness
-----------------------------------------------------------------------------
(* What the component promises.                                            *)

(* A row is posted or reported exactly once, and only if its status says   *)
(* so: sent rows have one message, failed rows one notification, and all   *)
(* others neither, whatever dispatchers overlap, roll back or die.         *)
(* (dispatchScheduledMessages, SKIP LOCKED and the single commit)          *)
OutcomeRecorded ==
  \A i \in Items :
    /\ Len(messages[i]) = IF status[i] = "sent" THEN 1 ELSE 0
    /\ notices[i] = IF status[i] = "failed" THEN 1 ELSE 0

(* The text in the chat is the text of the last update that was answered   *)
(* with success, and it is not posted before the time of that update:      *)
(* updateScheduledMessage cannot slip between the dispatch query, which    *)
(* reads the text, and the commit.                                         *)
PostedAsAcknowledged ==
  \A i \in Items :
    status[i] = "sent" => messages[i] = <<body[i]>> /\ dueAt[i] <= now

(* Nothing is broadcast twice or before its commit, and a committed        *)
(* message is broadcast unless a process died on the way.                  *)
PublishedAfterCommit ==
  \A i \in Items :
    /\ published[i] <= IF status[i] = "sent" THEN 1 ELSE 0
    /\ status[i] = "sent" /\ failures = 0 =>
         \/ published[i] = 1
         \/ \E d \in Dispatchers : \E k \in DOMAIN events[d] : events[d][k] = i

(* Who reads a dispatch query's row is the only one to change it until its *)
(* transaction ends: no two transactions share a row, and the rows of a    *)
(* batch are pending, due, and as the query read them.                     *)
BatchesExclusive ==
  /\ \A d, e \in Dispatchers : d # e => Held(d) \cap Held(e) = {}
  /\ \A d \in Dispatchers : \A i \in Held(d) :
       status[i] = "pending" /\ dueAt[i] <= now /\ body[i] = read[d][i]

(* The database's rule, as its trigger words it: a message committed in a  *)
(* group in announcement mode comes from an admin.  The code does not keep *)
(* it: the trigger reads the group before the INSERT locks it.             *)
OnlyAdminsPostAnnouncements ==
  [][\A i \in Items :
       messages'[i] # messages[i] => MayPost(Sender[i], Chat[i])]_vars

(* Every row that is due is eventually sent, rejected, cancelled or        *)
(* postponed, although dispatchers fail, collide and deadlock.             *)
DueIsResolved ==
  \A i \in Items :
    (status[i] = "pending" /\ dueAt[i] <= now) ~> (status[i] # "pending" \/ dueAt[i] > now)

(* Seen through its rows and the chat, the component is the outbox.        *)
Outbox == INSTANCE ScheduledOutbox WITH
  entry  <- [i \in Items |-> [status |-> status[i], text |-> body[i]]],
  posted <- messages

OutboxSpec == Outbox!Spec
=============================================================================
