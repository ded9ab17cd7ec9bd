# TLA+ models of GroopX

GroopX is a messenger: a Flutter client (`src/mobile`) and a Go API
(`src/backend`).  The API keeps everything it must not forget in PostgreSQL; a
process only has its WebSocket rooms (`chatHub`) in memory.  Its handlers run
concurrently, in any number of processes, under READ COMMITTED; each process
also runs three scheduler goroutines (scheduled messages, reminders, live
locations).  The order of statements of different requests is therefore the
main thing that can go wrong, and the thing these models are about: **a step is
one SQL statement (or a group of statements that nobody can come between), a
process is a handler or a scheduler, and row locks are part of the state.**

Paths below are relative to `src/backend/internal/httpapi/` unless they start
with `src/`.

## Inventory

| Component | State | Operations | Interacts with | Hard part | What makes it correct |
|---|---|---|---|---|---|
| Scheduled messages (`scheduled_messages.go`) | `scheduled_messages`, the batch of a dispatch in memory | list, create, update, cancel; the dispatcher of every process | messages, conversations, members, blocks, accounts, notifications, hub | several dispatchers; update and cancel against dispatch; failures inside a batch; a crash between commit and broadcast | posted or reported exactly once, with the text last acknowledged; nothing due is forgotten |
| Group membership (`social.go`, `group_invites.go`, `group_join_requests.go`, `group_permissions.go`) | `conversation_members`, `group_invites`, `group_join_requests`, settings of a group | create, leave, remove, change of role, add, join, review, invites, settings | chats, activity messages, hub | concurrent changes by several admins; four ways in; checks outside of transactions | a group keeps an admin; changes are authorised when they are made; nobody in the group waits to be let in; invites keep to their limit |
| Conversations and messages (`chat.go`, `reliable_messages.go`, `chat_management.go`, `message_forward.go`, `message_mentions.go`, `contact_messages.go`) | `messages`, `message_receipts`, `message_pins`, stars, read marks | send, list, mark read, pin, star, edit, delete, clear, forward | hub, push, live locations | retries with the same client id; receipts and status in two statements; checks before writes | one message for a client id; status says what the receipts say; at most three pins, none of a deleted message |
| WebSocket hub and presence (`chat.go`) | `chatHub.rooms` in memory | join, leave, disconnect, broadcast, presence | everything that broadcasts | membership is checked before the socket joins | who was removed hears nothing more; presence ends with the last socket |
| Calls (`calls.go`) | `calls`, `call_participants`, call notifications | start, join, decline, end, expire | LiveKit, hub, push, reminders | answers against end and expiry, without locks | a call that is over stays over; the caller is in it until then; one call at a time; notifications agree with it |
| Sessions and codes (`auth.go`, `sms.go`) | `otp_challenges`, `refresh_tokens`, `users.account_status` | request, verify, refresh, logout, revoke one, revoke the others; suspension by an admin | Twilio | check, then increment; rotation; an UPDATE over several rows against an INSERT | wrong guesses are bounded; a login has one live token |
| Live locations (`live_locations.go`) | `live_locations` and the metadata of their messages | start, update, stop, expire, end on deletion | messages, hub | expiry against update and deletion; locks skipped by the scheduler | one location for a chat; what ended stays ended; the message says what the row says; what is due ends |
| Reminders and meetings (`reminders.go`) | `reminders`, `meeting_attendees`, notifications | create, update, delete, respond; the dispatcher | calls, push, members of the chat | recurrence; two dispatchers; edits against both | announced once for an occurrence; attendees are told what is saved; the next occurrence is the first one to come |
| Polls (`polls.go`) | `message_polls`, `poll_votes` | create, vote, close, show | messages, hub | votes against closing; results read by two statements | one option of a single choice; a closed poll shows its final result |
| View-once media (`view_once_media.go`) | `view_once_opens` | open | messages | two openings at a time | one link for a viewer; openings are counted apart |
| Statuses (`statuses.go`) | `statuses`, views, likes, attachments of shares | post, view, like, reply, share, delete, privacy; the sweep | messages, media | a sweep in one statement against a share | media that a message shows is kept |
| Communities (`communities.go`) | `community_groups` | create, link, unlink, rename | group membership | the actor is demoted meanwhile | links are made by admins of both sides |
| Contacts and direct conversations (`social.go`) | `contacts`, `conversations` | search, add, open a chat | messages | look first, create later | one direct conversation for two users |
| Blocks, reports, admin (`safety.go`, `admin.go`) | `user_blocks`, `users.account_status`, audit | single statements | read by everything | - | - |
| Media, backups, FCM, Twilio, notifications | - | input and output | - | - | - |
| Mobile client (`src/mobile/lib`) | screens; pending messages and cached history of a chat | - | API, sockets | a page of messages against an event of the socket; pending messages after a restart | a message typed is sent once or still pending |

`PROJECT.json` lists the same components with their state, and the hazards of
the code line by line, those without a property yet included.

## Modules

| Module | What it is |
|---|---|
| `ScheduledOutbox` | abstract specification: what a scheduled message promises its author |
| `ScheduledMessages` | requests, dispatchers, transactions, locks, crashes; implements `ScheduledOutbox` |
| `ScheduledMessages_proof` | the proofs about it |
| `GroupMembership` | handlers, locks, roles, join requests and invites of one group |
| `GroupMembership_proof` | the proofs about it |
| `CallLife` | abstract specification: the life of calls as their history tells it |
| `Calls` | requests about the calls of a conversation, locks, expiry, notifications; implements `CallLife` |
| `Calls_proof` | the proofs about it |
| `Posting` | abstract specification: idempotent sending |
| `Delivery` | posting, the room of sockets, receipts and status of one conversation; implements `Posting` |
| `Delivery_proof` | the proofs about it |
| `MessageEdits` | pins, edits, deletion and expiry of posted messages |
| `Forwarding` | transactions that write to several chats (forwards, shares, dispatches), their locks and the connection pool |
| `Polls`, `ViewOnce`, `Statuses`, `Communities` | one module for each of these |
| `Sessions` | one-time password, refresh tokens and suspension of an account |
| `Sessions_proof` | the proofs about it |
| `Messages_proof` | the proofs about MessageEdits, Polls, ViewOnce, Statuses, Communities and Forwarding |
| `Accounts_proof` | the proofs about Reminders, its calendar included, beside Sessions |
| `Reminders` | one reminder or meeting, its attendees, and the schedulers |
| `LiveLocations` | the live locations of a user, and the scheduler that ends them |
| `LiveLocations_proof` | the proofs about it |
| `MCScheduledMessages`, `MCGroupMembership`, `MCCalls` | constants of the instances for TLC; the first one of `scheduled_announcement` only |
| `MCMessages`, `MCAccounts`, `MCSchedulers` | compositions of several components, one of which runs in each behaviour (`part`); `Messages_proof` and `Accounts_proof` are about the first two |

In the component modules an operator whose comment begins with "Mutant" is not
part of the model: it is a plausible bug of the definition that follows it, which
`PROJECT.json` pairs with the property that finds it.

### ScheduledMessages

*Rows.* `status`, `dueAt`, `body` are the columns of `scheduled_messages`.  A row
that does not exist has status `"none"`; who will create it and in which chat is
a constant (`Sender`, `Chat`), as both come with the request.  `messages`,
`notices` and `published` count what each row caused: rows of `messages`,
notifications, broadcasts.

*Requests.* `BeginCreate` and `BeginUpdate` are the checks of
`createScheduledMessage` and `updateScheduledMessage`; `FinishCreate` and
`FinishUpdate` are their INSERT and UPDATE, any time later.  `Cancel` is one
UPDATE.  An UPDATE waits for the lock of its row and changes only a pending one.

*Dispatch.* `dispatchScheduledMessages` is one transaction: `Fetch` (FOR UPDATE
SKIP LOCKED, LIMIT), then for each row in order of `scheduled_at`
`CheckAvailable`, `CheckPermission`, `Insert` (the announcement trigger) and
`Send` (the foreign key's lock and the UPDATEs); `failScheduledMessage` is
`Fail`; then `CommitBatch`, and `Publish` for each message.  The rows that a
transaction has locked are `todo \cup sending \cup failing`; the conversation
rows it has locked are those of `sending`.  `WaitForChat` queues up for a
conversation row somebody else holds (`ahead`), `BreakDeadlock` is PostgreSQL's
deadlock detection.  `Abort` is a statement that fails, or a process that stops,
before the commit, `CrashPublishing` a process that stops after it.

*Everything else* that the dispatcher's checks read is changed by one action for
each handler: `HideChat` (deleteConversation), `SwitchAnnouncement`
(updateGroup), `ChangeRole`, `SwitchBlock`, `SwitchAccount`.  Those that lock the
conversation row wait for a dispatcher that holds it; `HideChat` waits for the
rows of the other members.

*Abstracted.* Text, time and reply are small values; the 30 seconds and the year
that bound `scheduled_at` become "later than now"; the reply preview only changes
the payload.  Times are only compared.  `online` (status sent or delivered at the
INSERT) is left to Delivery.

### GroupMembership

*Rows.* `role` is `conversation_members`, `request` and `via` are
`group_join_requests`, `invite` and `uses` are `group_invites`, `approval` is
`join_approval_required`.  One group; a group is never deleted.

*Handlers.* A handler in `Handlers` is a request in progress: `job` is what it
was asked, `stage` how far it is, `seen` what it has read since.  Leaving,
removing, changing a role, adding and joining lock the conversation row first
(`Acquire`, `holder`), read (`ReadRoles`, `ReadApplicant`), then write and commit
(`WriteLeave`, `WriteRemove`, `WriteRole`, `WriteAdd`, `JoinAsMember`,
`JoinByRequest`, `JoinDirectly`).  A review is checked outside of its transaction
(`BeginReview`), locks its request (`LockRequest`) and decides (`Approve`,
`Reject`); inserting a member waits for the conversation's lock because of the
foreign key.  Invites are checked and then written (`BeginInvite`,
`CreateInvite`, `RevokeInvite`, `ResetInvites`).  `Quit` is every way to fail:
a 4xx, an error, a lost client, a deadlock.  A join locks its invite as well, so
that revoking and resetting wait for it (`InviteLocked`).

*Abstracted.* `addGroupMembers` takes a list of users and adds them in one
transaction; the model adds one (nobody can come between two of a list, as the
conversation is locked).  `MembersCanAdd` is a constant of the instance.  The
activity messages and broadcasts of membership changes are left out.

### Calls

*Rows.* `status`, `answered`, `caller`, `meeting` are the columns `status`,
`answered_at`, `initiated_by`, `reminder_id` of `calls`; `age` is what the code
asks of `started_at` (rung for too long, two hours old).  `invited`, `joined`,
`left` are `call_participants`, `notice` is the status in the notification each
participant has of a call.  The calls are those of one conversation, direct or a
group (`kind`), with one scheduled meeting whose organizer and attendees are
constants.

*Requests.* A handler is a request in progress, with what it was asked (`job`),
how far it is (`stage`), what it has read (`seen`) and what it has still to write
into notifications (`news`).  `Expire` is `expireRingingCalls`, the first
statement of `listCalls` and `getCallStatus` (`Poll`) and of `createCallToken`
(`BeginStart`, `BeginMeet`); `Tell` is `syncCallNotification`, one UPDATE for each
call.  `createCallToken` goes on with `LookForCall`, `Create`, `Announce`, or for
a meeting that has a call with `FindMeeting`, `Enter`, `JoinRow`,
`AnswerMeeting`.  `joinCall` is `BeginJoin`, `JoinRow`, `AnswerJoin`: three
statements that commit one by one, of which the last two may fail unnoticed
(`SkipRow`, `SkipAnswer`).  `declineCall` and `endCall` are transactions that hold
the row of the call (`Locked`).  `BeginDecline` is the snapshot of the SELECT of
`declineCall`, `LockDecline` the moment it gets the row: PostgreSQL then checks
the status again, but the count of participants is as old as the snapshot.
`endCall` counts in a later statement, under the lock (`CountOthers`).  `Quit` is
a refusal, an error or a lost client, `Crash` a process that stops, after which
notifications stay unwritten.

*Abstracted.* Requests that are refused for a block, a wrong kind or a missing
membership do not begin.  `read_at`, broadcasts, pushes and LiveKit tokens follow
the notifications.  Of several calls of a meeting any may be found (the code
takes the latest).  Who is left out of a new call (hidden conversation, inactive
account) is any subset.

### Delivery

*Rows.* `saved` are the committed rows of `messages`, named after the request that
inserted them; `status` is `messages.status`, `receipt` the two timestamps of
`message_receipts`.  Requests are numbered in the order of `created_at`, as
markConversationRead compares it.

*Posting.* `Begin` is the statement of `sendMessage` with its snapshot (`seen`) and
the status guessed from who is online; uploads, contacts, places and the socket
post without a key (`Send`).  `Insert`, `Commit` and `FindExisting` are ON CONFLICT
DO NOTHING: it waits for a transaction that has the key, and then returns no row
if its own snapshot is older than that commit.  `Broadcast` copies the room,
`Write` marks the message delivered for each client of the copy, one by one,
`Reply` answers.  `Fail` and `Crash` are failures before and after the commit.

*Room.* `Join` and `CatchUp` are the two steps of `chatSocket`: into the room, then
UPDATE what waited.  `Leave` is the last socket of a user.

*Reading.* `Look`, `Mark`, `Judge`, `Settle` are `markConversationRead`.  `Judge` is
the snapshot of its second UPDATE and `Settle` the moment it writes, by when
another reader may have written.

*Abstracted.* The text; a fixed set of members; one process, since a broadcast
reaches the sockets of its own process only.

### MessageEdits, Forwarding

`FindToPin`, `LockPins`, `CountPins`, `AddPin` are `pinMessage`, whose advisory lock
is `pinLock`; `LockToEdit` and `WriteEdit` are `editMessage`, `Delete` and `RemovePin`
`deleteMessage`, which is not a transaction, `Disappear` is
`expireConversationMessages`.  
`Forwarding` is about whoever writes to chats in a transaction: `forwardMessage`,
`shareStatus`, replies to a status, uploads and (`Dispatchers`)
`dispatchScheduledMessages`.  A transaction occupies a connection of the pool
(`idle`) from `BeginForward` to its end.  After the checks of a chat (`Admit`) it
either writes at once or asks for a second connection (`Asking`): in a direct chat
`usersBlocked`, and in one with nobody in its room `isConversationPeerOnline`, query the
pool, not the transaction, and with `context.Background()`, so that a client who
leaves ends every other wait (`RefuseForward`, `GiveUpForward`) but not this one.
`CheckChat` is that query.  `WriteCopy` locks chats in the order of the list, in which
a dispatch may name one twice; `SkipChat` is a row of a dispatch that fails;
`BreakDeadlock` is PostgreSQL.  Senders of one plain message check before their
transaction; they are transactions that never ask.

### Polls, ViewOnce, Statuses, Communities

`Polls`: `LockPoll` (FOR UPDATE), `DropVotes` with the snapshot of the DELETE,
`SaveVotes`, `ClosePoll`; then `ReadPoll`, `ReadVotes` and `Show`, the two statements of
`loadPollSnapshot` and the broadcast.  `ViewOnce`: `LockMedia`, `RecordOpening` (INSERT
and count), `CommitOpening`, `Grant`; `LoseOpening` after the commit is an opening
that its viewer never gets, which is what the code does.  `Statuses`: shares and
replies hold the row (`HeldShared`); `DeleteStatus` looks for attachments in a
statement after it has the row, the sweep (`BeginSweep`, `EndSweep`) in the same
statement and therefore in an older snapshot.  A text status has no media and is left
out.  `Communities`: `Lock` takes the rows
of conversations and of the actor's memberships at once, as no one can come
between; `ChangeRole` is the effect of GroupMembership on a role.

### Sessions

`challenge` is the row of `otp_challenges`, `token` the state of each refresh token
and the login it goes back to, which the code does not store.  `AskCode` and
`StoreCode` are `requestOTP`; `ReadCode`, `Compare`, `CountWrong` and `LogIn` are
`verifyOTP`; `LockToken` and `Rotate` are `refreshSession`, which locks the token and
the user; `Revoke` is logout or the end of one session.  `BeginOthers` and `BeginAll`
take the snapshot of an UPDATE over several tokens, `RevokeSubjects` is its end.
`misses` and `uncounted` only count, for `MissesBounded`.  A code is right or wrong;
tokens that have expired are over.

### Reminders

`reminder` is the row, `response` the attendees, `toldOf` the last notification of
each member, `noted` what a handler read when it locked the row.  `Save` is
`updateReminder` after that: the UPDATE with its COALESCEs (`Edited`), the
attendees (`Synced`) and who is told what.  `TakeDue` and `Announce` are
`dispatchDueReminders`.  `NextOccurrence` is `nextReminderOccurrence` over a calendar
of whole days; the time of the day is left out.  The calendar is a constant: `FirstDay`
lists the first day of each month, from which `MonthOf` and `DayOf` follow, and
`Anchors` are the anchor days a client may name: none, or the 31st.  `Respond` and
`ComeOrGo` (members of the chat) do not lock the reminder.

### LiveLocations

`row` is `live_locations`, `attachment` the metadata of the message.  A handler locks
(`LockChat` and `LockPrevious` for a start, `LockDevice`, `LockToStop`), changes rows and
attachments and commits (`Commit`, `CommitStart`).  The scheduler is the handler
`Ticker` (`LockDue`, SKIP LOCKED).  `deleteMessage` reads, ends and deletes in separate
statements (`FindShared`, `CutShort`, `EraseMessage`).  `may` is
`liveLocationCanContinue`, which blocks, departures and group settings change
(`Permit`).

## What TLC checks

| Run | Instance | Shows |
|---|---|---|
| `scheduled` | *ScheduledMessages:* 2 dispatchers, 2 messages (direct chat and group), 2 texts, 2 instants, 1 edit, 1 failure or crash, 1 change of a chat or account. *LiveLocations:* 2 locations in 1 chat, 2 positions, 2 requests, the scheduler, 1 failure or change | `TypeOK`, `OutcomeRecorded`, `PostedAsAcknowledged`, `PublishedAfterCommit`, `BatchesExclusive`, and the refinement `OutboxSpec`; `LiveTypeOK`, `OneShare`, `AttachmentTrue`, `EndedForGood` |
| `schedulers` | *ScheduledMessages:* 2 dispatchers, 4 messages in 2 chats, batches of 2, 1 failure. *LiveLocations:* 2 locations in 2 chats, 1 request, a batch of 1, 1 failure or change | `DueIsResolved`, although the two deadlock on conversation rows; `DueEnds` |
| `scheduled_announcement` | 1 dispatcher, 1 group | violates `OnlyAdminsPostAnnouncements` |
| `membership` | 3 users, 2 handlers at a time, 5 requests, 2 invites with one use, approval on or off and switched once | `TypeOK`, `NoMemberWaits`, `LimitKeptUntilSwitched`, `AdminKept`, `AuthorityAtCommit` |
| `membership_orphan` | 2 users, 1 handler | violates `AdminPresent` |
| `membership_overuse` | 3 users, 2 handlers, 1 invite | violates `UsesWithinLimit` |
| `calls` | 3 users, up to 2 calls, 4 requests of which 2 overlap, 1 failure; direct, group and meeting | `TypeOK`, `CallerPresent`, `NoticesTrue`, `OnlyCallerEndsGroup` and the refinement `LifeSpec` |
| `calls_notices` | 3 users, 1 call | violates `NoticesSettle` |
| `calls_twice` | 3 users, 2 calls | violates `OneCurrentCall` |
| `messages` | *Delivery:* 3 users, one without read receipts, 2 sends with a key or none, 2 readers, sockets, 1 failure. *MessageEdits:* 2 messages, 2 requests, 1 pin allowed. *Polls:* 2 voters, 2 options, 2 requests. *ViewOnce:* 2 viewers, 3 requests. *Statuses:* 1 contact, 2 shares, 2 sweeps. *Communities:* 2 users, 1 group, 2 requests. *Forwarding:* 2 forwards and a dispatch to 2 chats, 2 connections | `MessagesTypeOK`; `ReadMeansAll`, `RoomServed` and the refinement `PostedOnce`; `PinsLimited`, `DeletedIsEmpty`; `OneChoice`, `ClosedIsFinal`; `OpeningsCounted`; `SharedMediaKept`; `LinkedByAdmin`; `OnlyPoolBlocks` |
| `accounts` | *Sessions:* 3 tokens, 2 requests, 1 attempt, 1 failed count. *Reminders:* 2 edits, 2 schedulers, 1 attendee, January to April, set for the 30th. | `AccountsTypeOK`; `OneLivePerLogin`, `MissesBounded`; `NoticesKnown`, `AnnouncedOnce`, `MovesToNext` |
| `pool_exhausted` | 3 forwards, 1 dispatch, 4 connections | violates `DispatchEnds` |

*Bounds.* Two dispatchers are enough for every pairwise interleaving, and two
rows for a batch in which one row succeeds and the other fails or takes both down
with it; two chats with two rows each are the smallest instance in which
dispatchers lock conversations in opposite orders.  In `membership` two requests
at a time show every race of two handlers, and five requests are enough to create
an invite, ask to join by it, have an admin decide, promote and leave.  In
`calls` four requests are a start and three more, so that a call is joined and
two participants then leave, decline or come back at the same time.  Two calls at
a time are what an UPDATE of several rows needs; states with two calls are
followed for `SecondOps` requests without failures, among two users (`Bounded`).

In `messages`, `accounts`, `scheduled` and `schedulers` the components share no variable, so the
first step of a behaviour chooses one (`part`) and the others rest: all properties
are checked of each, and the states add up instead of multiplying.  *Delivery:* a
send and its repetition, or two senders, with a reader or a socket
(`MaxOps`: three beginnings) and one failure show every race that the proofs found
to matter; cat has read receipts off, ann and bob are symmetric.  *MessageEdits:* a
maximum of one pin is reached by two.  *Communities:* three activity messages bound
links and renames.  *Statuses:* two notices of likes.  *Sessions:* a limit of one
attempt makes two concurrent guesses exceed it (`MissesBounded` is tight there);
three tokens are two logins and a refresh, or a login and two refreshes.
*Reminders:* one reminder (which may be deleted), due on 30 January, with an attendee
who comes and goes; its anchor is the 30th, or the 31st if the client says so, and both
meet a February without that day.  Today is 30 January, 2 February or 1 March, so that an
occurrence is announced in time, three days late, and after months or weeks have been
missed.  *LiveLocations:* in `scheduled` two ids are a location and the one that
replaces it, in one chat, as locations of different chats do not meet in a property
of safety.  They do for `DueEnds`: in `schedulers` two chats have a location each, and a
batch of one leaves a due row behind when both fall due.  There one request is enough
to hold rows that the scheduler skips, and where a location is does not matter: there
is one position.  *Forwarding:* lists
of two chats (five in the code, a hundred rows in a dispatch) are enough for opposite
orders and for a repeated chat; two connections for three transactions let them be stuck,
by two that ask or by one that asks while another waits for its chat.  `pool_exhausted` has
the four connections of the default pool; with a fifth TLC finds no violation.

The bounds are the constants `MaxTime`, `MaxEdits`, `MaxFailures`,
`MaxDisturbances`, `MaxOps`, `SecondOps`, `MaxSwitches`, `MaxUncounted` and
`MaxLapses`, `Limit` in Communities, and the comments "bound" in guards; they are
reached, and the proofs hold without regard to the values of the constants.
Handlers, and dispatchers and texts (`Alike`), are symmetric; symmetry is not used where
a liveness property is checked.  CHECK_DEADLOCK is off because the bounds stop the system.

*Fairness.* `FairSpec` has weak fairness of each dispatcher: the ticker of
`startScheduledMessageScheduler` starts a dispatch every 15 seconds in every live
process, a dispatch runs to its end, and PostgreSQL resolves deadlocks.  A
process that has stopped is started again (a hosted service), which is why
failures do not take a dispatcher out.  In the same way `LiveSpec` has weak fairness
of `LiveTick` (`startLiveLocationScheduler`) and of each transaction that has begun
(`Proceed`): it ends, by a commit or a rollback.  Requests
therefore hold rows for a while only; rollbacks, and changes of what may be shared,
are bounded by `MaxLapses`, and ids of locations by `Shares`.  `ForwardSpec` has weak
fairness of each transaction: its handler runs, the pool serves who waits when it has a
connection, PostgreSQL resolves deadlocks; that a dispatch does not end under
`ForwardSpec` is therefore no matter of scheduling.  `FairSchedulersSpec` has the fairness of
`FairSpec` and of `LiveSpec`, each while its component runs.  Both leave the pool
out: what they promise holds while it is not exhausted.  Requests, other handlers, failures and the clock are under no
obligation.  GroupMembership, Calls, Delivery, Sessions and the others claim no
liveness: a client may give up at any time, and calls expire only when a client
asks about them.

### Disagreements found

* **A member posts in announcement mode** (`scheduled_announcement`).  The trigger
  of migration 41 runs before the INSERT holds the conversation row.
  `updateGroup` may switch the group between the two, and commit first.
* **A group without an admin** (`membership_orphan`).  The last member may leave;
  invites stay valid, and who joins by one is an ordinary member for good.
* **An invite used too often** (`membership_overuse`).  `joinGroupInvite` admits
  an exhausted invite for a request that paid for it, reads the request again and
  charges the invite without a condition; a review that rejects in between makes
  it count twice, if approval is switched off in the meantime.
* **"Call in progress" for a call that is over** (`calls_notices`).  `joinCall`
  reports that the call is answered without looking whether its UPDATE did
  anything; a call that was missed, declined or ended meanwhile is then offered
  for joining to everybody, for good.
* **Two calls at a time** (`calls_twice`).  `createCallToken` refuses a second
  call ("an active call already exists"), but two users who call at the same
  moment both find none.
* **A scheduled message that is never sent** (`pool_exhausted`).  Four transactions
  that each hold a connection and ask for another (`forwardMessage`, `shareStatus`,
  replies to a status, uploads, the dispatch) exhaust the default pool, and wait for each
  other without a limit.  If the dispatch is one of them it never ends, its scheduler
  starts no other, and the author was told that the message will be sent
  (`conversation_screen.dart:331`).  `PoolStaysTaken` proves that nothing but a restart
  helps; every other request that needs the database waits as well.

## What is proved

TLAPS checks the following for every value of the constants that satisfies the
assumption of the module: `ConstantsAssumption` or the one named below.

`ScheduledMessages_proof`.  `IInv` is `TypeOK` with the properties themselves and
with what makes them inductive: the parts of a batch are disjoint
(`BatchesSplit`), pending and locked rows have a text (`RowsFilled`), requests in
progress are about rows that exist or have never existed (`RequestsSound`), and a
message waiting to be broadcast is sent, not yet broadcast and waits only once
(`EventsUnpublished`).  It is needed because `OutcomeRecorded` alone does not say
why a row that is committed was still pending: that is `BatchesExclusive`, and it
holds because only the holder of a lock changes a row.  `Inductive` has one lemma
for each action; from `Safety` follow `TypeCorrect`, `ExactlyOnce`,
`AcknowledgedText`, `Broadcasts` and `Exclusion`.  `Refinement` shows that each
step is a step of `ScheduledOutbox` or a stutter: a commit is `Resolve`.

`GroupMembership_proof`.  The heart of `IInv` is `HandlerSound`: what a handler
has seen stays so while it holds the conversation.  The counts of admins and
members that `WriteLeave` decides by, the role of the target and the authority of
the actor are read in earlier statements, and no property of the rows alone says
that they are still right when they are used; they are, because only the holder
of the conversation takes rows away or changes roles, and a review inserts a
member only while nobody holds it.  `UsesReserved` does the same for invites:
without approval nobody has a pending request, so who is about to join has seen a
use left that nobody else can take.  `MembershipInductive` has one lemma for each
part; from it follow `MembershipTypes`, `RequestsSettled`, `InviteLimit`,
`AdminsKept` and `Authority`, for any number of users, concurrent handlers and
invites.  That an invite limit holds only until approval is switched is not a
weakness of the proof: `membership_overuse` shows the contrary.

`Calls_proof`.  A handler that holds the row of a call sees it as it is
(`LocksExclusive`, `HandlerSound`): nobody else ends, declines or expires it, and
an answer or an expiry waits.  That gives `LifeRefined`: every statement is a step
of `CallLife` or leaves the calls alone, `joinCall` because its UPDATE asks for
`status='ringing'` again.  `CallerStays` and `GroupEndedByCaller` support each
other: only the caller takes himself out of a call, which ends it; so a
participant who counts the others under the lock always finds the caller, and
never ends a group call (`CallerCounted`).  `endCall`'s test for `activeOthers==0`
therefore never decides anything for a group.  `NoticesSound` rests on
`LifeRefined`: what a handler has still to write of a call that is over cannot
become wrong.  `CallsInductive` collects these in `IInv`, `CallsTypes` its types.

`Delivery_proof`.  From `DeliveryAssumption`.  `IInv` says how far a request is
(`StageFacts`), that an inserted message has receipts for all but its author
(`ReceiptFacts`), that a key is inserted once (`KeyFacts`) and that an answer names a
committed message (`AnswerFacts`).  `ReadMeansAll` needs `JudgedFacts`: a status is
written some time after it was computed, and is still right because receipts
never go back and receipts of a message all exist when it becomes visible.
`RoomHasAll` rests on the order of the two steps of a join: a broadcast that copied
the room before has marked nothing for the new socket, but its message is committed
and `CatchUp` marks it.  `PostingRefined` maps a commit to `Post`, a copy of the room to
`Tell`, an answer to `Answer`, and every other step to a stutter, for any number of
repetitions of a request.

`Sessions_proof`.  From `SessionAssumption`.  `OneLive` needs that a refresh in progress
holds the last token of its login (`Refreshing`, in `TokenFacts`), since the row
lock alone does not say so once the token is read.  `MissesLimited` counts: each
wrong guess is in the row, about to be, or lost (`CountFacts`, by lemmas about the
number of requests at each step).  The limit of five attempts therefore is a limit
of five and one less than the number of requests in progress at once, which TLC
reaches.

`LiveLocations_proof`.  From `LiveAssumption`.  What a transaction has read under its locks
stays so until it commits (`HeldFacts`), as in Calls; that is why what overlaps the end of a
location neither moves it nor starts it again (`StoppedForGood`), why a message
agrees with the row (`MessageAgrees`), and, with the lock of the chat that a start takes
before it looks for a previous location (`StartFacts`), why there is only one (`OneLocation`).
`LiveInductive` collects these, `LiveTypes` the types.

`Messages_proof`.  From `MessagesAssumption`.  The theorems are about `MessagesSpec`, in
which other components may run too; `OnePartSteps` says that these change nothing of a
component that rests.  `PinsBounded` needs that a request which has counted holds the
advisory lock and still finds fewer than the maximum (`EditFacts`), whatever is unpinned
or deleted meanwhile.  `DeletedForGood` needs the row lock of `editMessage`, as its UPDATE
no longer asks whether the message is deleted.  `SingleChoice` needs that the votes a
DELETE found are all there are (`BallotFacts`), which only the lock of the poll ensures;
`FinalResult` that nobody holds that lock when the poll is closed, and that who read
"closed" reads the votes later.  `OpenedOnce` counts: what is announced or about to be
(`Announced`) never exceeds what is committed (`ViewFacts`).  `MediaKept` needs that a sweep
which does not know of a committed share has been overtaken (`MediaFacts`).
`AdminsLink` is about the rows a request holds (`HoldsRole`).  `MessagesTypes` takes the types
of Delivery from `DeliveryTypes`, by `DeliveryBeside`.
For Forwarding the assumption is that there are finitely many transactions at a time and that
the pool is not empty.  The invariant (`ForwardFacts`) is that connections are conserved, the idle ones
and the transactions in progress being the pool however one ends, and that only a
transaction in progress holds a chat.  `OnlyPoolStops` follows without any assumption on
how many there are: when nobody can go on and some have not ended, an idle
connection is excluded; so transactions occupy the whole pool, and if none of them asked,
all would wait for chats that others of them hold, which PostgreSQL ends.  `PoolStaysTaken`
is the reverse: if all of them ask, nobody moves again.

`Accounts_proof`.  From `ReminderAssumption`, `CalendarAssumption` and, for the types,
`SessionAssumption`.  Who holds the row has read
it and its attendees as they are (`LockFacts`): `respondToMeeting` does not lock it, but
changes answers only and not who attends.  Hence `NoticesTold`, for every combination of
fields an update may change.  A scheduler holds a row only if it is due and was not announced since
it was set (`AnnouncedFacts`), hence `OneAnnouncement`.  `MovesOn` is the loop of
`nextReminderOccurrence`, for every calendar whose months have 28 to 31 days and every
number of missed occurrences.  `LoopStep`: one turn goes to the first occurrence after a day, a
monthly one to the anchor day of the next month, or to its last day if it is shorter.  `LoopDefined` and `LoopEnds`: the loop has a value from every day up to
today (days only grow, and the calendar has a month after today), and it is the first
occurrence after today, as otherwise there would be a last day from which it is not.  That induction is
over numbers (`Least`: a set of numbers has a least one), not over data.  It uses
that a scheduler only moves what is due: from a later day the loop would stay where it
is.  `AccountsTypes` adds that the day it moves to is a day of the calendar;
the types of Sessions come from `SessionTypes`, by `SessionsBeside`.

`CalendarAssumption` is what package `time` guarantees of months, and two bounds: `Moments`
are in order, and today always has a month after it, since the calendar of a model must end somewhere.

*Only model-checked:* liveness (`DueIsResolved`, `DueEnds`), as fairness
and ENABLED are beyond the prover.  Every invariant, action property and refinement that a passing run
checks is also proved.

## What stays as it is

Behaviour of the code that the models contain, that no property forbids, and that a
reader should know of:

* The logout from all other devices, and the suspension of an account, revoke the
  tokens that their UPDATE sees.  A refresh that is in progress inserts its token
  afterwards; that device stays logged in (`BeginOthers`, `Rotate`,
  `RevokeSubjects`).  `src/README.md:34` announces "secure logout from all other
  devices".
* The sweep of expired statuses removes media that a share attaches while the
  sweep waits for the row; `SharedMediaKept` excepts that case (`overtaken`).
* A repeated send that waits for the first attempt is answered 500 although the
  message is saved (`FindExisting`); the next repetition is answered 200.
* `messages.status` can go back from read to delivered when readers overlap, until
  the next reading.
* A view-once opening that is committed and not answered is lost to its viewer.

## Plan

1. *Done:* `ScheduledOutbox`, `ScheduledMessages`, `GroupMembership`, `CallLife`,
   `Calls` and their proofs.
2. *Done:* `Posting`, `Delivery`, `Sessions` and their proofs; `MessageEdits`,
   `Forwarding`, `Polls`, `ViewOnce`, `Statuses`, `Communities`, `Reminders`,
   `LiveLocations`.
3. *Done:* the proofs about LiveLocations, MessageEdits, Polls, ViewOnce, Statuses,
   Communities, Reminders (with its calendar) and Forwarding.
4. *Next:* proofs of the safety that the liveness properties rest on: a due row of
   `ScheduledMessages` is locked, or free for the next batch, and a due location
   is held by a request or free for the scheduler.
5. *Later:* `ensureDirectConversation` with blocks and contacts; members who leave
   while their sockets join (Delivery composed with GroupMembership).

## Not modelled

* *Contacts and direct conversations.*  `ensureDirectConversation` may create two
  (hazard of `social.go:131`); neither code nor schema says that it must not.
* *Presence and typing.*  Announced, never stored but for `last_seen_at`; no state
  depends on them.
* *Unread marks, stars, mute, archive, clearing of a chat, muted statuses.*  Single
  statements on rows of one user that nobody else reads.
* *Mobile client.*  Its list of messages may be replaced by a page that is older than
  an event of the socket (`conversation_screen.dart:585`); screens and caches are out
  of scope, the requests they repeat are in Delivery.
* *Everything that is input or output:* rendering, validation, media, backups, listing
  and paging, push and SMS providers (they can only fail, and no state depends on
  it), admin statistics.

`conversations.deleted_at` is never set by the code, so conversations do not end.
