----------------------- MODULE ScheduledMessages_proof -----------------------
(***************************************************************************)
(* Proofs about ScheduledMessages for any number of rows, dispatchers,     *)
(* chats and users: the rows and the chat agree whatever the dispatchers   *)
(* do, and every behaviour is a behaviour of ScheduledOutbox.              *)
(***************************************************************************)
EXTENDS ScheduledMessages, FiniteSetTheorems, SequenceTheorems, TLAPS

(* What the safety invariants need to be inductive.                        *)

(* A row exists with a text; a request to create one has a text, and no    *)
(* other request creates the same row.                                     *)
RowsFilled == \A i \in Items : status[i] # "none" => body[i] \in Bodies

RequestsSound ==
  \A r \in requests : r.kind = "create" =>
    /\ r.body \in Bodies
    /\ status[r.item] = "none"
    /\ \A q \in requests : q.kind = "create" /\ q.item = r.item => q = r

(* A batch splits into what is to do, what is sent and what has failed,    *)
(* and the row in progress is still to do.                                 *)
BatchSplit(d) ==
  /\ todo[d] \cap sending[d] = {}
  /\ todo[d] \cap failing[d] = {}
  /\ sending[d] \cap failing[d] = {}
  /\ pc[d] \in {"permit", "insert", "lock", "wait"} => cur[d] \in todo[d]
  /\ pc[d] \in {"idle", "publish"} => Held(d) = {}
  /\ pc[d] # "publish" => events[d] = <<>>

BatchesSplit == \A d \in Dispatchers : BatchSplit(d)

(* What is still to be broadcast is sent, not yet broadcast, and in the    *)
(* hands of one dispatcher, once.                                          *)
EventsUnpublished ==
  \A d \in Dispatchers : \A k \in DOMAIN events[d] :
    /\ status[events[d][k]] = "sent"
    /\ published[events[d][k]] = 0
    /\ \A e \in Dispatchers : \A l \in DOMAIN events[e] :
         events[e][l] = events[d][k] => e = d /\ l = k

IInv ==
  /\ TypeOK
  /\ RowsFilled
  /\ RequestsSound
  /\ BatchesSplit
  /\ BatchesExclusive
  /\ OutcomeRecorded
  /\ PostedAsAcknowledged
  /\ EventsUnpublished
  /\ PublishedAfterCommit
-----------------------------------------------------------------------------
(* Types.                                                                  *)

LEMMA TypeInit == Init => TypeOK
BY ConstantsAssumption DEF Init, TypeOK, NothingRead, Statuses, Roles, Stages

(* The rows in the batch of a transaction have a text.                     *)
LEMMA HeldFilled ==
  ASSUME TypeOK, RowsFilled, BatchesExclusive,
         NEW d \in Dispatchers, NEW i \in Held(d)
  PROVE  read[d][i] \in Bodies
<1>1. i \in Items
  BY DEF TypeOK, Held
<1> QED
  BY <1>1 DEF RowsFilled, BatchesExclusive, Held, TypeOK

(* Every step keeps the types.                                             *)
LEMMA TypeStep == IInv /\ [Next]_vars => TypeOK'
<1> SUFFICES ASSUME IInv, [Next]_vars PROVE TypeOK'
  OBVIOUS
<1> USE ConstantsAssumption
<1>0. TypeOK
  BY DEF IInv
<1>1. ASSUME NEW i \in Items, NEW b \in Bodies, NEW t \in Times, BeginCreate(i, b, t)
      PROVE  TypeOK'
  BY <1>0, <1>1 DEF TypeOK, BeginCreate, RequestRecords, Times, rowVars, outVars, chatVars, jobVars, boundVars
<1>2. ASSUME NEW r \in requests, FinishCreate(r)
      PROVE  TypeOK'
  BY <1>0, <1>2 DEF TypeOK, FinishCreate, RequestRecords, Statuses, outVars, chatVars, jobVars, boundVars
<1>3. ASSUME NEW i \in Items, NEW b \in Bodies \cup {NoBody}, NEW t \in 0..MaxTime, BeginUpdate(i, b, t)
      PROVE  TypeOK'
  BY <1>0, <1>3 DEF TypeOK, BeginUpdate, RequestRecords, rowVars, outVars, chatVars, jobVars
<1>4. ASSUME NEW r \in requests, FinishUpdate(r)
      PROVE  TypeOK'
  <2>1. r \in RequestRecords
    BY <1>0 DEF TypeOK
  <2>2. /\ body' \in [Items -> Bodies \cup {NoBody}]
        /\ dueAt' \in [Items -> 0..MaxTime]
    <3>1. CASE UNCHANGED <<body, dueAt>>
      BY <1>0, <3>1 DEF TypeOK
    <3>2. CASE /\ body' = [body EXCEPT ![r.item] = Coalesce(r.body, @, NoBody)]
               /\ dueAt' = [dueAt EXCEPT ![r.item] = Coalesce(r.at, @, 0)]
      BY <1>0, <2>1, <3>2 DEF TypeOK, Coalesce, RequestRecords
    <3> QED
      BY <1>4, <3>1, <3>2 DEF FinishUpdate
  <2>3. /\ requests' \in SUBSET RequestRecords
        /\ UNCHANGED <<now, status, outVars, chatVars, jobVars, boundVars>>
    BY <1>0, <1>4 DEF TypeOK, FinishUpdate
  <2> QED
    BY <1>0, <2>2, <2>3 DEF TypeOK, outVars, chatVars, jobVars, boundVars
<1>5. ASSUME NEW i \in Items, Cancel(i)
      PROVE  TypeOK'
  BY <1>0, <1>5 DEF TypeOK, Cancel, Statuses, outVars, chatVars, jobVars, boundVars
<1>6. ASSUME NEW d \in Dispatchers, Fetch(d)
      PROVE  TypeOK'
  BY <1>0, <1>6 DEF TypeOK, Fetch, Claimable, Stages, rowVars, outVars, chatVars, boundVars
<1>7. ASSUME NEW d \in Dispatchers, CheckAvailable(d)
      PROVE  TypeOK'
  <2>1. PICK i \in todo[d] :
        \/ /\ pc' = [pc EXCEPT ![d] = "permit"]
           /\ cur' = [cur EXCEPT ![d] = i]
           /\ UNCHANGED <<todo, failing>>
        \/ Fail(d, i)
    BY <1>7 DEF CheckAvailable
  <2>2. i \in Items
    BY <1>0 DEF TypeOK
  <2>3. UNCHANGED <<now, rowVars, outVars, chatVars, requests,
                    ahead, read, sending, events, boundVars>>
    BY <1>7 DEF CheckAvailable
  <2>4. CASE Fail(d, i)
    BY <1>0, <2>2, <2>3, <2>4 DEF TypeOK, Fail, Stages, rowVars, outVars, chatVars, boundVars
  <2>5. CASE /\ pc' = [pc EXCEPT ![d] = "permit"]
             /\ cur' = [cur EXCEPT ![d] = i]
             /\ UNCHANGED <<todo, failing>>
    BY <1>0, <2>2, <2>3, <2>5 DEF TypeOK, Stages, rowVars, outVars, chatVars, boundVars
  <2> QED
    BY <2>1, <2>4, <2>5
<1>8. ASSUME NEW d \in Dispatchers, CheckPermission(d)
      PROVE  TypeOK'
  <2>1. cur[d] \in Items
    BY <1>0, <1>8 DEF IInv, BatchesSplit, BatchSplit, TypeOK, CheckPermission
  <2>2. UNCHANGED <<now, rowVars, outVars, chatVars, requests, boundVars>>
    BY <1>8 DEF CheckPermission
  <2>3. CASE RollBack(d)
    BY <1>0, <2>2, <2>3 DEF TypeOK, RollBack, LeaveQueue, NothingRead, Stages, rowVars, outVars, chatVars, boundVars
  <2>4. CASE Fail(d, cur[d]) /\ UNCHANGED <<ahead, read, sending, events>>
    BY <1>0, <2>1, <2>2, <2>4 DEF TypeOK, Fail, Stages, rowVars, outVars, chatVars, boundVars
  <2>5. CASE /\ pc' = [pc EXCEPT ![d] = "insert"]
             /\ UNCHANGED <<todo, cur, ahead, read, sending, failing, events>>
    BY <1>0, <2>2, <2>5 DEF TypeOK, Stages, rowVars, outVars, chatVars, boundVars
  <2> QED
    BY <1>8, <2>3, <2>4, <2>5 DEF CheckPermission
<1>9. ASSUME NEW d \in Dispatchers, Insert(d)
      PROVE  TypeOK'
  <2>1. CASE RollBack(d)
    BY <1>0, <1>9, <2>1 DEF TypeOK, Insert, RollBack, LeaveQueue, NothingRead, Stages, rowVars, outVars, chatVars, boundVars
  <2>2. CASE /\ pc' = [pc EXCEPT ![d] = "lock"]
             /\ UNCHANGED <<todo, cur, ahead, read, sending, failing, events>>
    BY <1>0, <1>9, <2>2 DEF TypeOK, Insert, Stages, rowVars, outVars, chatVars, boundVars
  <2> QED
    BY <1>9, <2>1, <2>2 DEF Insert
<1>10. ASSUME NEW d \in Dispatchers, WaitForChat(d)
      PROVE  TypeOK'
  BY <1>0, <1>10 DEF TypeOK, WaitForChat, Waiting, Stages, rowVars, outVars, chatVars, boundVars
<1>11. ASSUME NEW d \in Dispatchers, Send(d)
      PROVE  TypeOK'
  <2>1. cur[d] \in Items
    BY <1>0, <1>11 DEF IInv, BatchesSplit, BatchSplit, TypeOK, Send, SendFrom
  <2> QED
    BY <1>0, <1>11, <2>1 DEF TypeOK, Send, SendFrom, LeaveQueue, Stages, rowVars, chatVars, boundVars
<1>12. ASSUME NEW d \in Dispatchers, CommitBatch(d)
      PROVE  TypeOK'
  <2>1. messages' \in [Items -> Seq(Bodies)]
    <3>1. \A i \in sending[d] : read[d][i] \in Bodies
      BY HeldFilled DEF Held, IInv
    <3> QED
      BY <1>0, <1>12, <3>1 DEF TypeOK, CommitBatch
  <2>2. events' \in [Dispatchers -> Seq(Items)]
    <3>1. \A order \in DispatchOrders(sending[d]) : order \in Seq(Items)
      <4>1. Cardinality(sending[d]) \in Nat
        BY <1>0, FS_Subset, FS_CardinalityType DEF TypeOK
      <4>2. \A order \in DispatchOrders(sending[d]) :
              order \in [1..Cardinality(sending[d]) -> Items]
        BY <1>0 DEF TypeOK, DispatchOrders
      <4> QED
        BY <4>1, <4>2
    <3> QED
      BY <1>0, <1>12, <3>1 DEF TypeOK, CommitBatch
  <2>3. hidden' \in [Chats -> SUBSET Users]
    BY <1>0, <1>12 DEF TypeOK, CommitBatch, HiddenSeenBy
  <2>4. /\ status' \in [Items -> Statuses]
        /\ notices' \in [Items -> Nat]
    BY <1>0, <1>12 DEF TypeOK, CommitBatch, Statuses
  <2>5. /\ pc' \in [Dispatchers -> Stages]
        /\ read' \in [Dispatchers -> [Items -> Bodies \cup {NoBody}]]
        /\ sending' \in [Dispatchers -> SUBSET Items]
        /\ failing' \in [Dispatchers -> SUBSET Items]
    BY <1>0, <1>12 DEF TypeOK, CommitBatch, NothingRead, Stages
  <2>6. UNCHANGED <<now, dueAt, body, published, role, announcement, blocked, active,
                    requests, todo, cur, ahead, boundVars>>
    BY <1>12 DEF CommitBatch
  <2> QED
    BY <1>0, <2>1, <2>2, <2>3, <2>4, <2>5, <2>6 DEF TypeOK, boundVars
<1>13. ASSUME NEW d \in Dispatchers, Publish(d)
      PROVE  TypeOK'
  <2>1. events[d] # <<>> => Head(events[d]) \in Items /\ Tail(events[d]) \in Seq(Items)
    BY <1>0 DEF TypeOK
  <2>2. /\ published' \in [Items -> Nat]
        /\ events' \in [Dispatchers -> Seq(Items)]
        /\ pc' \in [Dispatchers -> Stages]
    <3>1. CASE events[d] = <<>>
      BY <1>0, <1>13, <3>1 DEF TypeOK, Publish, Stages
    <3>2. CASE events[d] # <<>>
      <4>1. /\ published' = [published EXCEPT ![Head(events[d])] = @ + 1]
            /\ events' = [events EXCEPT ![d] = Tail(@)]
            /\ UNCHANGED pc
        BY <1>13, <3>2 DEF Publish
      <4> QED
        BY <1>0, <2>1, <3>2, <4>1 DEF TypeOK
    <3> QED
      BY <3>1, <3>2
  <2> QED
    BY <1>0, <1>13, <2>2 DEF TypeOK, Publish, rowVars, chatVars, boundVars
<1>14. ASSUME NEW d \in Dispatchers, BreakDeadlock(d)
      PROVE  TypeOK'
  BY <1>0, <1>14 DEF TypeOK, BreakDeadlock, RollBack, LeaveQueue, NothingRead, Stages, rowVars, outVars, chatVars, boundVars
<1>15. ASSUME NEW d \in Dispatchers, Abort(d)
      PROVE  TypeOK'
  BY <1>0, <1>15 DEF TypeOK, Abort, RollBack, LeaveQueue, NothingRead, Stages, rowVars, outVars, chatVars
<1>16. ASSUME NEW d \in Dispatchers, CrashPublishing(d)
      PROVE  TypeOK'
  BY <1>0, <1>16 DEF TypeOK, CrashPublishing, Stages, rowVars, outVars, chatVars
<1>17. CASE Disturbance
  <2>1. ASSUME NEW c \in Chats, NEW u \in Users, HideChat(c, u)
        PROVE  TypeOK'
    BY <1>0, <2>1 DEF TypeOK, HideChat, Disturb, rowVars, outVars, jobVars
  <2>2. ASSUME NEW c \in Chats, SwitchAnnouncement(c)
        PROVE  TypeOK'
    BY <1>0, <2>2 DEF TypeOK, SwitchAnnouncement, Disturb, rowVars, outVars, jobVars
  <2>3. ASSUME NEW c \in Chats, NEW u \in Users, NEW r \in Roles, ChangeRole(c, u, r)
        PROVE  TypeOK'
    BY <1>0, <2>3 DEF TypeOK, ChangeRole, Disturb, rowVars, outVars, jobVars
  <2>4. ASSUME NEW c \in Chats, SwitchBlock(c)
        PROVE  TypeOK'
    BY <1>0, <2>4 DEF TypeOK, SwitchBlock, Disturb, rowVars, outVars, jobVars
  <2>5. ASSUME NEW u \in Users, SwitchAccount(u)
        PROVE  TypeOK'
    BY <1>0, <2>5 DEF TypeOK, SwitchAccount, Disturb, rowVars, outVars, jobVars
  <2> QED
    BY <1>17, <2>1, <2>2, <2>3, <2>4, <2>5 DEF Disturbance
<1>18. CASE Tick
  BY <1>0, <1>18 DEF TypeOK, Tick, rowVars, outVars, chatVars, jobVars, boundVars
<1>19. CASE UNCHANGED vars
  BY <1>0, <1>19 DEF TypeOK, vars, rowVars, outVars, chatVars, jobVars, boundVars
<1> QED
  BY <1>1, <1>2, <1>3, <1>4, <1>5, <1>6, <1>7, <1>8, <1>9, <1>10, <1>11, <1>12,
     <1>13, <1>14, <1>15, <1>16, <1>17, <1>18, <1>19
  DEF Next, Request, Dispatch, Failure
-----------------------------------------------------------------------------
(* What a step keeps when it leaves the variables of a part alone.         *)

LEMMA RowsKept ==
  ASSUME IInv, UNCHANGED <<rowVars, messages, notices>>, now' \in Nat, now <= now'
  PROVE  RowsFilled' /\ OutcomeRecorded' /\ PostedAsAcknowledged'
BY ConstantsAssumption
DEF IInv, TypeOK, RowsFilled, OutcomeRecorded, PostedAsAcknowledged, rowVars

(* What waits to be broadcast are rows.                                    *)
LEMMA EventItems ==
  ASSUME TypeOK, NEW d \in Dispatchers, NEW k \in DOMAIN events[d]
  PROVE  events[d][k] \in Items
BY DEF TypeOK

(* The arithmetic facts about sequences that the broadcasts need.          *)
LEMMA SequenceIndices ==
  ASSUME NEW S, NEW s \in Seq(S)
  PROVE  /\ DOMAIN s = 1..Len(s)
         /\ Len(s) \in Nat
         /\ \A k \in DOMAIN s : k \in Nat \ {0}
OBVIOUS

(* Broadcasts stay as they are when no row, event or broadcast changes.    *)
LEMMA EventsKept ==
  ASSUME IInv, UNCHANGED <<published, events>>,
         \A i \in Items : status'[i] = "sent" <=> status[i] = "sent",
         failures' \in Nat, failures <= failures'
  PROVE  EventsUnpublished' /\ PublishedAfterCommit'
<1>1. EventsUnpublished'
  BY EventItems DEF IInv, EventsUnpublished
<1>2. PublishedAfterCommit'
  <2> SUFFICES ASSUME NEW i \in Items
               PROVE  /\ published[i] <= IF status'[i] = "sent" THEN 1 ELSE 0
                      /\ status'[i] = "sent" /\ failures' = 0 =>
                           \/ published[i] = 1
                           \/ \E d \in Dispatchers : \E k \in DOMAIN events[d] : events[d][k] = i
    BY DEF PublishedAfterCommit
  <2>1. failures' = 0 => failures = 0
    BY ConstantsAssumption DEF IInv, TypeOK
  <2> QED
    BY <2>1 DEF IInv, PublishedAfterCommit
<1> QED
  BY <1>1, <1>2

(* Batches stay exclusive when no row and no transaction changes.          *)
LEMMA BatchesKept ==
  ASSUME IInv, UNCHANGED <<rowVars, jobVars>>, now' \in Nat, now <= now'
  PROVE  BatchesSplit' /\ BatchesExclusive'
<1>1. \A d \in Dispatchers : Held(d)' = Held(d)
  BY DEF Held, jobVars
<1>2. BatchesSplit'
  BY <1>1 DEF IInv, BatchesSplit, BatchSplit, jobVars
<1>3. BatchesExclusive'
  BY <1>1, ConstantsAssumption DEF IInv, TypeOK, BatchesExclusive, rowVars, jobVars, Held
<1> QED
  BY <1>2, <1>3

(* Requests stay sound when neither they nor the rows change.              *)
LEMMA RequestsKept ==
  ASSUME IInv, UNCHANGED status, requests' \subseteq requests
  PROVE  RequestsSound'
BY DEF IInv, RequestsSound

(* A rolled-back transaction gives up its rows and changes nothing else.   *)
LEMMA RolledBack ==
  ASSUME IInv, NEW d \in Dispatchers, RollBack(d), UNCHANGED <<now, rowVars>>,
         pc[d] # "publish"
  PROVE  BatchesSplit' /\ BatchesExclusive'
<1>1. /\ Held(d)' = {}
      /\ \A e \in Dispatchers \ {d} : Held(e)' = Held(e) /\ BatchSplit(e)'
  BY DEF IInv, TypeOK, RollBack, Held, BatchesSplit, BatchSplit
<1>2. BatchSplit(d)'
  BY <1>1 DEF IInv, TypeOK, RollBack, Held, BatchesSplit, BatchSplit
<1>3. BatchesExclusive'
  BY <1>1 DEF IInv, TypeOK, RollBack, BatchesExclusive, rowVars
<1> QED
  BY <1>1, <1>2, <1>3 DEF BatchesSplit

(* What holds of a step that only works on its transaction, its rows and   *)
(* the chat untouched.                                                     *)
LEMMA TransactionStep ==
  ASSUME IInv, UNCHANGED <<now, rowVars, outVars, requests, events>>,
         failures' \in Nat, failures <= failures'
  PROVE  /\ RowsFilled' /\ OutcomeRecorded' /\ PostedAsAcknowledged'
         /\ EventsUnpublished' /\ PublishedAfterCommit' /\ RequestsSound'
<1>1. now' \in Nat /\ now <= now'
  BY ConstantsAssumption DEF IInv, TypeOK
<1>2. UNCHANGED <<messages, notices, status, published>>
  BY DEF outVars, rowVars
<1>3. RowsFilled' /\ OutcomeRecorded' /\ PostedAsAcknowledged'
  BY <1>1, <1>2, RowsKept
<1>4. EventsUnpublished' /\ PublishedAfterCommit'
  BY <1>2, EventsKept
<1>5. RequestsSound'
  BY <1>2, RequestsKept
<1> QED
  BY <1>3, <1>4, <1>5

-----------------------------------------------------------------------------
(* The inductive invariant.                                                *)

LEMMA InvariantInit == Init => IInv
<1> SUFFICES ASSUME Init PROVE IInv
  OBVIOUS
<1>1. TypeOK
  BY TypeInit
<1>2. RowsFilled /\ RequestsSound /\ BatchesSplit /\ BatchesExclusive
  BY DEF Init, RowsFilled, RequestsSound, BatchesSplit, BatchSplit, BatchesExclusive, Held
<1>3. OutcomeRecorded /\ PostedAsAcknowledged /\ EventsUnpublished /\ PublishedAfterCommit
  BY DEF Init, OutcomeRecorded, PostedAsAcknowledged, EventsUnpublished, PublishedAfterCommit
<1> QED
  BY <1>1, <1>2, <1>3 DEF IInv

(* Requests: only a pending row that no transaction holds changes.         *)
LEMMA RequestStep == IInv /\ Request => IInv'
<1> SUFFICES ASSUME IInv, Request PROVE IInv'
  OBVIOUS
<1> USE ConstantsAssumption
<1>t. TypeOK'
  BY TypeStep DEF Next
<1>n. now \in Nat /\ failures \in Nat /\ now <= now /\ failures <= failures
  BY DEF IInv, TypeOK
<1>1. ASSUME NEW i \in Items, NEW b \in Bodies, NEW t \in Times, BeginCreate(i, b, t)
      PROVE  IInv'
  <2>1. UNCHANGED <<now, rowVars, outVars, jobVars, boundVars>>
    BY <1>1 DEF BeginCreate
  <2>2. UNCHANGED <<messages, notices, status, published, events, failures>>
    BY <2>1 DEF outVars, rowVars, jobVars, boundVars
  <2>3. RowsFilled' /\ OutcomeRecorded' /\ PostedAsAcknowledged'
    BY <1>n, <2>1, <2>2, RowsKept
  <2>4. EventsUnpublished' /\ PublishedAfterCommit'
    BY <1>n, <2>2, EventsKept
  <2>5. BatchesSplit' /\ BatchesExclusive'
    BY <1>n, <2>1, BatchesKept
  <2>6. RequestsSound'
    BY <1>1, <2>2 DEF IInv, RequestsSound, BeginCreate
  <2> QED
    BY <1>t, <2>3, <2>4, <2>5, <2>6 DEF IInv
<1>2. ASSUME NEW r \in requests, FinishCreate(r)
      PROVE  IInv'
  <2>1. /\ status[r.item] = "none"
        /\ r.body \in Bodies
        /\ r.item \in Items
    BY <1>2 DEF IInv, RequestsSound, FinishCreate, TypeOK, RequestRecords
  <2>2. UNCHANGED <<now, outVars, jobVars, failures>>
    BY <1>2 DEF FinishCreate, boundVars
  <2>3. /\ status' = [status EXCEPT ![r.item] = "pending"]
        /\ dueAt' = [dueAt EXCEPT ![r.item] = r.at]
        /\ body' = [body EXCEPT ![r.item] = r.body]
        /\ requests' = requests \ {r}
    BY <1>2 DEF FinishCreate
  <2>4. RowsFilled' /\ OutcomeRecorded' /\ PostedAsAcknowledged'
    BY <2>1, <2>2, <2>3 DEF IInv, TypeOK, RowsFilled, OutcomeRecorded, PostedAsAcknowledged, outVars
  <2>5. EventsUnpublished' /\ PublishedAfterCommit'
    BY <1>n, <2>1, <2>2, <2>3, EventsKept DEF IInv, TypeOK, outVars, jobVars
  <2>6. BatchesSplit'
    BY <2>2 DEF IInv, BatchesSplit, BatchSplit, Held, jobVars
  <2>7. BatchesExclusive'
    BY <2>1, <2>2, <2>3 DEF IInv, TypeOK, BatchesExclusive, Held, jobVars
  <2>8. RequestsSound'
    BY <1>2, <2>1, <2>3 DEF IInv, TypeOK, RequestRecords, RequestsSound, FinishCreate
  <2> QED
    BY <1>t, <2>4, <2>5, <2>6, <2>7, <2>8 DEF IInv
<1>3. ASSUME NEW i \in Items, NEW b \in Bodies \cup {NoBody}, NEW t \in 0..MaxTime, BeginUpdate(i, b, t)
      PROVE  IInv'
  <2>1. UNCHANGED <<now, rowVars, outVars, jobVars, failures>>
    BY <1>3 DEF BeginUpdate
  <2>2. UNCHANGED <<messages, notices, status, published, events>>
    BY <2>1 DEF outVars, rowVars, jobVars
  <2>3. RowsFilled' /\ OutcomeRecorded' /\ PostedAsAcknowledged'
    BY <1>n, <2>1, <2>2, RowsKept
  <2>4. EventsUnpublished' /\ PublishedAfterCommit'
    BY <1>n, <2>1, <2>2, EventsKept
  <2>5. BatchesSplit' /\ BatchesExclusive'
    BY <1>n, <2>1, BatchesKept
  <2>6. RequestsSound'
    BY <1>3, <2>2 DEF IInv, RequestsSound, BeginUpdate
  <2> QED
    BY <1>t, <2>3, <2>4, <2>5, <2>6 DEF IInv
<1>4. ASSUME NEW r \in requests, FinishUpdate(r)
      PROVE  IInv'
  <2>1. r.item \in Items /\ r.body \in Bodies \cup {NoBody}
    BY DEF IInv, TypeOK, RequestRecords
  <2>2. UNCHANGED <<now, status, outVars, jobVars, failures>>
    BY <1>4 DEF FinishUpdate, boundVars
  <2>3. \A i \in Items : body'[i] = body[i] \/ body'[i] \in Bodies
    BY <1>4, <2>1 DEF FinishUpdate, Coalesce, IInv, TypeOK
  <2>4. \A i \in Items : i \in Locked \/ status[i] # "pending" => body'[i] = body[i] /\ dueAt'[i] = dueAt[i]
    BY <1>4, <2>1 DEF FinishUpdate, Updatable, IInv, TypeOK
  <2>5. RowsFilled' /\ OutcomeRecorded' /\ PostedAsAcknowledged'
    BY <2>2, <2>3, <2>4 DEF IInv, TypeOK, RowsFilled, OutcomeRecorded, PostedAsAcknowledged, outVars
  <2>6. EventsUnpublished' /\ PublishedAfterCommit'
    BY <1>n, <2>2, EventsKept DEF outVars, jobVars
  <2>7. BatchesSplit'
    BY <2>2 DEF IInv, BatchesSplit, BatchSplit, Held, jobVars
  <2>8. BatchesExclusive'
    <3>1. \A d \in Dispatchers : Held(d)' = Held(d) /\ Held(d) \subseteq Locked /\ Held(d) \subseteq Items
      BY <2>2 DEF Held, Locked, jobVars, IInv, TypeOK
    <3> QED
      BY <2>2, <2>4, <3>1 DEF IInv, BatchesExclusive, jobVars
  <2>9. RequestsSound'
    BY <1>4, <2>2, RequestsKept DEF FinishUpdate
  <2> QED
    BY <1>t, <2>5, <2>6, <2>7, <2>8, <2>9 DEF IInv
<1>5. ASSUME NEW i \in Items, Cancel(i)
      PROVE  IInv'
  <2>1. /\ status[i] = "pending"
        /\ \A d \in Dispatchers : i \notin Held(d)
        /\ status' = [status EXCEPT ![i] = "cancelled"]
        /\ UNCHANGED <<now, dueAt, body, outVars, requests, jobVars, failures>>
    BY <1>5 DEF Cancel, Updatable, Locked, boundVars
  <2>2. RowsFilled' /\ OutcomeRecorded' /\ PostedAsAcknowledged' /\ RequestsSound'
    BY <2>1 DEF IInv, TypeOK, RequestRecords, RowsFilled, OutcomeRecorded, PostedAsAcknowledged, RequestsSound, outVars
  <2>3. EventsUnpublished' /\ PublishedAfterCommit'
    BY <1>n, <2>1, EventsKept DEF IInv, TypeOK, outVars, jobVars
  <2>4. BatchesSplit'
    BY <2>1 DEF IInv, BatchesSplit, BatchSplit, Held, jobVars
  <2>5. BatchesExclusive'
    <3>1. \A d \in Dispatchers : Held(d)' = Held(d) /\ Held(d) \subseteq Items
      BY <2>1 DEF Held, jobVars, IInv, TypeOK
    <3> QED
      BY <2>1, <3>1 DEF IInv, TypeOK, BatchesExclusive, jobVars
  <2> QED
    BY <1>t, <2>2, <2>3, <2>4, <2>5 DEF IInv
<1> QED
  BY <1>1, <1>2, <1>3, <1>4, <1>5 DEF Request

(* The dispatchers' steps up to the commit move rows within a transaction. *)
LEMMA FetchStep ==
  ASSUME IInv, NEW d \in Dispatchers, Fetch(d)
  PROVE  IInv'
<1> USE ConstantsAssumption
<1>t. TypeOK'
  BY TypeStep DEF Next, Dispatch
<1>1. /\ UNCHANGED <<now, rowVars, outVars, requests, events, failures>>
      /\ failures \in Nat /\ failures <= failures
  BY DEF Fetch, IInv, TypeOK, boundVars
<1>2. PICK batch \in SUBSET Claimable :
        /\ todo' = [todo EXCEPT ![d] = batch]
        /\ read' = [read EXCEPT ![d] = [i \in Items |-> IF i \in batch THEN body[i] ELSE NoBody]]
  BY DEF Fetch
<1>3. /\ Held(d) = {} /\ Held(d)' = batch
      /\ \A e \in Dispatchers \ {d} : Held(e)' = Held(e)
  BY <1>2 DEF Fetch, IInv, TypeOK, BatchesSplit, BatchSplit, Held
<1>4. \A i \in batch : /\ i \in Items /\ status[i] = "pending" /\ dueAt[i] <= now
                       /\ \A e \in Dispatchers : i \notin Held(e)
  BY DEF Claimable, Locked
<1>5. BatchesSplit'
  <2>1. \A e \in Dispatchers \ {d} : BatchSplit(e)'
    BY <1>2, <1>3 DEF Fetch, IInv, TypeOK, BatchesSplit, BatchSplit
  <2>2. BatchSplit(d)'
    BY <1>2, <1>3 DEF Fetch, IInv, TypeOK, BatchesSplit, BatchSplit, Held
  <2> QED
    BY <2>1, <2>2 DEF BatchesSplit
<1>6. BatchesExclusive'
  <2>1. \A e, f \in Dispatchers : e # f => Held(e)' \cap Held(f)' = {}
    BY <1>3, <1>4 DEF IInv, BatchesExclusive
  <2>2. \A i \in batch : read'[d][i] = body[i]
    BY <1>2, <1>4 DEF IInv, TypeOK
  <2>3. \A e \in Dispatchers \ {d} : read'[e] = read[e]
    BY <1>2 DEF IInv, TypeOK
  <2>4. \A e \in Dispatchers : \A i \in Held(e)' :
          status[i] = "pending" /\ dueAt[i] <= now /\ body[i] = read'[e][i]
    BY <1>3, <1>4, <2>2, <2>3 DEF IInv, BatchesExclusive
  <2> QED
    BY <1>1, <2>1, <2>4 DEF BatchesExclusive, rowVars
<1> QED
  BY <1>t, <1>1, <1>5, <1>6, TransactionStep DEF IInv

(* A step that only moves rows of d's batch between its parts.             *)
LEMMA Regrouped ==
  ASSUME IInv, NEW d \in Dispatchers, Held(d)' = Held(d),
         \A e \in Dispatchers \ {d} : /\ todo'[e] = todo[e]
                                     /\ sending'[e] = sending[e]
                                     /\ failing'[e] = failing[e]
                                     /\ pc'[e] = pc[e]
                                     /\ cur'[e] = cur[e],
         UNCHANGED <<now, rowVars, read, events>>, BatchSplit(d)'
  PROVE  BatchesSplit' /\ BatchesExclusive'
<1>1. \A e \in Dispatchers : Held(e)' = Held(e)
  BY DEF Held
<1>2. \A e \in Dispatchers \ {d} : BatchSplit(e)'
  BY <1>1 DEF IInv, BatchesSplit, BatchSplit
<1>3. BatchesExclusive'
  BY <1>1 DEF IInv, BatchesExclusive, rowVars
<1> QED
  BY <1>2, <1>3 DEF BatchesSplit

(* The availability query keeps a row in its batch.                        *)
LEMMA CheckAvailableStep ==
  ASSUME IInv, NEW d \in Dispatchers, CheckAvailable(d)
  PROVE  IInv'
<1>t. TypeOK'
  BY TypeStep DEF Next, Dispatch
<1>1. /\ UNCHANGED <<now, rowVars, outVars, requests, events, read, sending, failures>>
      /\ failures \in Nat /\ failures <= failures
  BY ConstantsAssumption DEF CheckAvailable, IInv, TypeOK, boundVars
<1>2. PICK i \in todo[d] :
        \/ /\ pc' = [pc EXCEPT ![d] = "permit"]
           /\ cur' = [cur EXCEPT ![d] = i]
           /\ UNCHANGED <<todo, failing>>
        \/ Fail(d, i)
  BY DEF CheckAvailable
<1>3. Held(d)' = Held(d) /\ BatchSplit(d)'
  <2>1. CASE Fail(d, i)
    BY <1>1, <1>2, <2>1 DEF CheckAvailable, Fail, Held, IInv, TypeOK, BatchesSplit, BatchSplit
  <2>2. CASE /\ pc' = [pc EXCEPT ![d] = "permit"]
             /\ cur' = [cur EXCEPT ![d] = i]
             /\ UNCHANGED <<todo, failing>>
    BY <1>1, <1>2, <2>2 DEF CheckAvailable, Held, IInv, TypeOK, BatchesSplit, BatchSplit
  <2> QED
    BY <1>2, <2>1, <2>2
<1>4. BatchesSplit' /\ BatchesExclusive'
  BY <1>1, <1>2, <1>3, Regrouped DEF Fail, IInv, TypeOK
<1> QED
  BY <1>t, <1>1, <1>4, TransactionStep DEF IInv

(* So does the permission query, unless it ends the transaction.           *)
LEMMA CheckPermissionStep ==
  ASSUME IInv, NEW d \in Dispatchers, CheckPermission(d)
  PROVE  IInv'
<1>t. TypeOK'
  BY TypeStep DEF Next, Dispatch
<1>1. /\ pc[d] = "permit"
      /\ cur[d] \in todo[d]
      /\ UNCHANGED <<now, rowVars, outVars, requests, failures>>
      /\ failures \in Nat /\ failures <= failures
  BY ConstantsAssumption DEF CheckPermission, IInv, TypeOK, BatchesSplit, BatchSplit, boundVars
<1>2. CASE RollBack(d)
  <2>1. BatchesSplit' /\ BatchesExclusive'
    BY <1>1, <1>2, RolledBack
  <2> QED
    BY <1>t, <1>1, <1>2, <2>1, TransactionStep DEF IInv, RollBack
<1>3. CASE Fail(d, cur[d]) /\ UNCHANGED <<ahead, read, sending, events>>
  <2>1. Held(d)' = Held(d) /\ BatchSplit(d)'
    BY <1>1, <1>3 DEF Fail, Held, IInv, TypeOK, BatchesSplit, BatchSplit
  <2>2. BatchesSplit' /\ BatchesExclusive'
    BY <1>1, <1>3, <2>1, Regrouped DEF Fail, IInv, TypeOK
  <2> QED
    BY <1>t, <1>1, <1>3, <2>2, TransactionStep DEF IInv
<1>4. CASE /\ pc' = [pc EXCEPT ![d] = "insert"]
           /\ UNCHANGED <<todo, cur, ahead, read, sending, failing, events>>
  <2>1. Held(d)' = Held(d) /\ BatchSplit(d)'
    BY <1>1, <1>4 DEF Held, IInv, TypeOK, BatchesSplit, BatchSplit
  <2>2. BatchesSplit' /\ BatchesExclusive'
    BY <1>1, <1>4, <2>1, Regrouped DEF IInv, TypeOK
  <2> QED
    BY <1>t, <1>1, <1>4, <2>2, TransactionStep DEF IInv
<1> QED
  BY <1>2, <1>3, <1>4 DEF CheckPermission

(* So does the INSERT, unless the trigger ends the transaction.            *)
LEMMA InsertStep ==
  ASSUME IInv, NEW d \in Dispatchers, Insert(d)
  PROVE  IInv'
<1>t. TypeOK'
  BY TypeStep DEF Next, Dispatch
<1>1. /\ pc[d] = "insert"
      /\ UNCHANGED <<now, rowVars, outVars, requests, failures>>
      /\ failures \in Nat /\ failures <= failures
  BY ConstantsAssumption DEF Insert, IInv, TypeOK, boundVars
<1>2. CASE RollBack(d)
  <2>1. BatchesSplit' /\ BatchesExclusive'
    BY <1>1, <1>2, RolledBack
  <2> QED
    BY <1>t, <1>1, <1>2, <2>1, TransactionStep DEF IInv, RollBack
<1>3. CASE /\ pc' = [pc EXCEPT ![d] = "lock"]
           /\ UNCHANGED <<todo, cur, ahead, read, sending, failing, events>>
  <2>1. Held(d)' = Held(d) /\ BatchSplit(d)'
    BY <1>1, <1>3 DEF Held, IInv, TypeOK, BatchesSplit, BatchSplit
  <2>2. BatchesSplit' /\ BatchesExclusive'
    BY <1>1, <1>3, <2>1, Regrouped DEF IInv, TypeOK
  <2> QED
    BY <1>t, <1>1, <1>3, <2>2, TransactionStep DEF IInv
<1> QED
  BY <1>2, <1>3 DEF Insert

(* A sent row leaves the queue of its batch, not the batch.                *)
LEMMA SendStep ==
  ASSUME IInv, NEW d \in Dispatchers, WaitForChat(d) \/ Send(d)
  PROVE  IInv'
<1>t. TypeOK'
  BY TypeStep DEF Next, Dispatch
<1>1. /\ pc[d] \in {"lock", "wait"}
      /\ cur[d] \in todo[d]
      /\ UNCHANGED <<now, rowVars, outVars, requests, read, events, failures>>
      /\ failures \in Nat /\ failures <= failures
  BY ConstantsAssumption
  DEF WaitForChat, Send, SendFrom, IInv, TypeOK, BatchesSplit, BatchSplit, outVars, boundVars
<1>2. Held(d)' = Held(d) /\ BatchSplit(d)'
  BY <1>1 DEF WaitForChat, Send, SendFrom, Held, IInv, TypeOK, BatchesSplit, BatchSplit
<1>3. BatchesSplit' /\ BatchesExclusive'
  BY <1>1, <1>2, Regrouped DEF WaitForChat, Send, SendFrom, IInv, TypeOK
<1> QED
  BY <1>t, <1>1, <1>3, TransactionStep DEF IInv

(* Rollbacks: a failed statement, or the victim of a deadlock.             *)
LEMMA RollBackStep ==
  ASSUME IInv, NEW d \in Dispatchers, BreakDeadlock(d) \/ Abort(d)
  PROVE  IInv'
<1>t. TypeOK'
  BY TypeStep DEF Next, Dispatch, Failure
<1>1. /\ RollBack(d)
      /\ UNCHANGED <<now, rowVars, outVars, requests>>
      /\ failures' \in Nat /\ failures <= failures'
  BY ConstantsAssumption DEF BreakDeadlock, Abort, IInv, TypeOK, boundVars
<1>2. pc[d] # "publish"
  BY DEF BreakDeadlock, Deadlocked, WaitsFor, Abort
<1>3. BatchesSplit' /\ BatchesExclusive'
  BY <1>1, <1>2, RolledBack
<1> QED
  BY <1>t, <1>1, <1>3, TransactionStep DEF IInv, RollBack

(* The commit: the rows of the batch were pending and nobody else's, so    *)
(* they get their first message, or notification, and their final status.  *)
LEMMA CommitStep ==
  ASSUME IInv, NEW d \in Dispatchers, CommitBatch(d)
  PROVE  IInv'
<1> USE ConstantsAssumption
<1>t. TypeOK'
  BY TypeStep DEF Next, Dispatch
<1>1. /\ todo[d] = {} /\ pc[d] = "next" /\ events[d] = <<>>
      /\ sending[d] \cap failing[d] = {}
      /\ sending[d] \subseteq Items /\ failing[d] \subseteq Items
      /\ \A i \in sending[d] \cup failing[d] :
           /\ status[i] = "pending" /\ dueAt[i] <= now /\ body[i] = read[d][i]
           /\ \A e \in Dispatchers \ {d} : i \notin Held(e)
  BY DEF CommitBatch, IInv, TypeOK, BatchesSplit, BatchSplit, BatchesExclusive, Held
<1>2. /\ UNCHANGED <<now, dueAt, body, published, requests, failures, todo, cur>>
      /\ \A i \in Items : status'[i] = IF i \in sending[d] THEN "sent"
                                     ELSE IF i \in failing[d] THEN "failed" ELSE status[i]
      /\ \A i \in Items : messages'[i] = IF i \in sending[d] THEN Append(messages[i], read[d][i])
                                       ELSE messages[i]
      /\ \A i \in Items : notices'[i] = IF i \in failing[d] THEN notices[i] + 1 ELSE notices[i]
  BY DEF CommitBatch, boundVars
<1>3. \A i \in sending[d] : messages[i] = <<>>
  BY <1>1 DEF IInv, TypeOK, OutcomeRecorded
<1>4. RowsFilled' /\ RequestsSound'
  <2>1. RowsFilled'
    BY <1>1, <1>2 DEF IInv, TypeOK, RowsFilled
  <2>2. RequestsSound'
    BY <1>1, <1>2 DEF IInv, TypeOK, RequestRecords, RequestsSound
  <2> QED
    BY <2>1, <2>2
<1>5. OutcomeRecorded' /\ PostedAsAcknowledged'
  <2>1. \A i \in sending[d] : messages'[i] = <<body[i]>> /\ Len(messages'[i]) = 1
    <3> TAKE i \in sending[d]
    <3>1. i \in Items /\ read[d][i] = body[i] /\ messages[i] = <<>>
      BY <1>1, <1>3
    <3>2. messages'[i] = Append(<<>>, body[i])
      BY <1>2, <3>1
    <3> QED
      BY <3>2
  <2>2. PostedAsAcknowledged'
    BY <1>1, <1>2, <2>1 DEF IInv, TypeOK, PostedAsAcknowledged
  <2>3. OutcomeRecorded'
    <3> SUFFICES ASSUME NEW i \in Items
                 PROVE  /\ Len(messages'[i]) = IF status'[i] = "sent" THEN 1 ELSE 0
                        /\ notices'[i] = IF status'[i] = "failed" THEN 1 ELSE 0
      BY DEF OutcomeRecorded
    <3>1. CASE i \in sending[d]
      BY <1>1, <1>2, <2>1, <3>1 DEF IInv, OutcomeRecorded
    <3>2. CASE i \in failing[d]
      BY <1>1, <1>2, <3>2 DEF IInv, OutcomeRecorded
    <3>3. CASE i \notin sending[d] \cup failing[d]
      BY <1>2, <3>3 DEF IInv, OutcomeRecorded
    <3> QED
      BY <3>1, <3>2, <3>3
  <2> QED
    BY <2>2, <2>3
<1>6. PICK order \in DispatchOrders(sending[d]) : events' = [events EXCEPT ![d] = order]
  BY DEF CommitBatch
<1>7. /\ \A k \in DOMAIN order : order[k] \in sending[d]
      /\ \A k, l \in DOMAIN order : order[k] = order[l] => k = l
      /\ \A i \in sending[d] : \E k \in DOMAIN order : order[k] = i
  BY DEF DispatchOrders
<1>8. events'[d] = order /\ \A e \in Dispatchers \ {d} : events'[e] = events[e]
  BY <1>6 DEF IInv, TypeOK
<1>9. \A i \in sending[d] : published[i] = 0
  <2> TAKE i \in sending[d]
  <2>1. i \in Items /\ status[i] # "sent"
    BY <1>1
  <2>2. published[i] \in Nat
    BY <2>1 DEF IInv, TypeOK
  <2>3. published[i] <= 0
    BY <2>1 DEF IInv, PublishedAfterCommit
  <2> QED
    BY <2>2, <2>3
<1>10. \A e \in Dispatchers : \A k \in DOMAIN events[e] :
         /\ events[e][k] \in Items
         /\ status[events[e][k]] = "sent"
         /\ events[e][k] \notin sending[d] \cup failing[d]
  BY <1>1, EventItems DEF IInv, EventsUnpublished
<1>11. EventsUnpublished'
  <2>1. ASSUME NEW e \in Dispatchers, NEW k \in DOMAIN events'[e]
        PROVE  /\ status'[events'[e][k]] = "sent"
               /\ published[events'[e][k]] = 0
    BY <1>1, <1>2, <1>7, <1>8, <1>9, <1>10 DEF IInv, EventsUnpublished
  <2>2. ASSUME NEW e \in Dispatchers, NEW k \in DOMAIN events'[e],
               NEW f \in Dispatchers, NEW l \in DOMAIN events'[f],
               events'[f][l] = events'[e][k]
        PROVE  f = e /\ l = k
    BY <1>1, <1>7, <1>8, <1>10, <2>2 DEF IInv, EventsUnpublished
  <2> QED
    BY <1>2, <2>1, <2>2 DEF EventsUnpublished
<1>12. PublishedAfterCommit'
  <2> SUFFICES ASSUME NEW i \in Items
               PROVE  /\ published[i] <= IF status'[i] = "sent" THEN 1 ELSE 0
                      /\ status'[i] = "sent" /\ failures = 0 =>
                           \/ published[i] = 1
                           \/ \E e \in Dispatchers : \E k \in DOMAIN events'[e] : events'[e][k] = i
    BY <1>2 DEF PublishedAfterCommit
  <2>1. CASE i \in sending[d]
    BY <1>2, <1>7, <1>8, <1>9, <2>1
  <2>2. CASE i \notin sending[d]
    <3>1. status'[i] = "sent" <=> status[i] = "sent"
      BY <1>1, <1>2, <2>2
    <3>2. \A e \in Dispatchers : \A k \in DOMAIN events[e] : e # d /\ events'[e] = events[e]
      BY <1>1, <1>8
    <3> QED
      BY <3>1, <3>2 DEF IInv, PublishedAfterCommit
  <2> QED
    BY <2>1, <2>2
<1>13. Held(d)' = {} /\ \A e \in Dispatchers \ {d} : Held(e)' = Held(e)
  BY <1>1 DEF CommitBatch, Held, IInv, TypeOK
<1>14. BatchesSplit'
  <2>1. \A e \in Dispatchers \ {d} : BatchSplit(e)'
    BY <1>8, <1>13 DEF CommitBatch, IInv, TypeOK, BatchesSplit, BatchSplit
  <2>2. BatchSplit(d)'
    BY <1>1, <1>13 DEF CommitBatch, IInv, TypeOK, BatchSplit
  <2> QED
    BY <2>1, <2>2 DEF BatchesSplit
<1>15. BatchesExclusive'
  <2>1. \A e \in Dispatchers \ {d} : Held(e) \subseteq Items /\ read'[e] = read[e]
    BY DEF CommitBatch, IInv, TypeOK, Held
  <2>2. \A e \in Dispatchers \ {d} : \A i \in Held(e) : status'[i] = status[i]
    BY <1>1, <1>2, <2>1
  <2> QED
    BY <1>2, <1>13, <2>1, <2>2 DEF IInv, BatchesExclusive
<1> QED
  BY <1>t, <1>4, <1>5, <1>11, <1>12, <1>14, <1>15 DEF IInv

(* Each broadcast takes its row off the list of those still to be made.    *)
LEMMA PublishStep ==
  ASSUME IInv, NEW d \in Dispatchers, Publish(d)
  PROVE  IInv'
<1> USE ConstantsAssumption
<1>t. TypeOK'
  BY TypeStep DEF Next, Dispatch
<1>1. /\ UNCHANGED <<now, rowVars, messages, notices, requests, todo, cur, read, sending, failing, failures>>
      /\ UNCHANGED status
      /\ now \in Nat /\ now <= now /\ failures \in Nat /\ failures <= failures
      /\ pc[d] = "publish"
  BY DEF Publish, IInv, TypeOK, rowVars, boundVars
<1>2. RowsFilled' /\ OutcomeRecorded' /\ PostedAsAcknowledged'
  BY <1>1, RowsKept
<1>3. RequestsSound'
  BY <1>1, RequestsKept
<1>4. \A e \in Dispatchers : Held(e)' = Held(e)
  BY <1>1 DEF Held
<1>5. BatchesSplit'
  <2>1. \A e \in Dispatchers \ {d} : BatchSplit(e)'
    BY <1>1, <1>4 DEF Publish, IInv, TypeOK, BatchesSplit, BatchSplit
  <2>2. BatchSplit(d)'
    BY <1>1, <1>4 DEF Publish, IInv, TypeOK, BatchesSplit, BatchSplit
  <2> QED
    BY <2>1, <2>2 DEF BatchesSplit
<1>6. BatchesExclusive'
  BY <1>1, <1>4 DEF IInv, BatchesExclusive, rowVars
<1>7. EventsUnpublished' /\ PublishedAfterCommit'
  <2>1. CASE events[d] = <<>>
    BY <1>1, <2>1, EventsKept DEF Publish
  <2>2. CASE events[d] # <<>>
    <3> DEFINE h == Head(events[d])
    <3>1. /\ published' = [published EXCEPT ![h] = @ + 1]
          /\ events' = [events EXCEPT ![d] = Tail(@)]
      BY <2>2 DEF Publish
    <3>2. /\ 1 \in DOMAIN events[d] /\ events[d][1] = h /\ h \in Items
          /\ \A k \in DOMAIN Tail(events[d]) :
               k + 1 \in DOMAIN events[d] /\ k + 1 # 1 /\ Tail(events[d])[k] = events[d][k + 1]
          /\ \A k \in DOMAIN events[d] : k # 1 =>
               k - 1 \in DOMAIN Tail(events[d]) /\ Tail(events[d])[k - 1] = events[d][k]
      <4>1. /\ events[d] \in Seq(Items)
            /\ DOMAIN events[d] = 1..Len(events[d])
            /\ Len(events[d]) \in Nat \ {0}
        BY <2>2 DEF IInv, TypeOK
      <4>2. /\ h \in Items /\ events[d][1] = h
            /\ DOMAIN Tail(events[d]) = 1..(Len(events[d]) - 1)
            /\ \A k \in 1..(Len(events[d]) - 1) : Tail(events[d])[k] = events[d][k + 1]
        BY <2>2, <4>1, HeadTailProperties
      <4> QED
        BY <4>1, <4>2
    <3>3. /\ events'[d] = Tail(events[d])
          /\ \A e \in Dispatchers \ {d} : events'[e] = events[e]
          /\ published'[h] = published[h] + 1
          /\ \A i \in Items \ {h} : published'[i] = published[i]
      BY <3>1, <3>2 DEF IInv, TypeOK
    <3>4. published[h] = 0 /\ status[h] = "sent"
      BY <3>2 DEF IInv, EventsUnpublished
    <3> HIDE DEF h
    <3>k. \A e \in Dispatchers : \A k \in DOMAIN events'[e] : k \in Nat \ {0}
      <4>1. \A e \in Dispatchers : events'[e] \in Seq(Items)
        BY <1>t DEF TypeOK
      <4> QED
        BY <4>1, SequenceIndices
    <3>5. ASSUME NEW e \in Dispatchers, NEW k \in DOMAIN events'[e]
          PROVE  \E l \in DOMAIN events[e] :
                   /\ events[e][l] = events'[e][k]
                   /\ e = d => l = k + 1
                   /\ e # d => l = k
      <4>1. CASE e = d
        BY <3>2, <3>3, <4>1
      <4>2. CASE e # d
        BY <3>3, <4>2
      <4> QED
        BY <4>1, <4>2
    <3>6. ASSUME NEW e \in Dispatchers, NEW k \in DOMAIN events'[e]
          PROVE  /\ status[events'[e][k]] = "sent"
                 /\ published'[events'[e][k]] = 0
      <4>1. PICK l \in DOMAIN events[e] :
              /\ events[e][l] = events'[e][k]
              /\ e = d => l = k + 1
              /\ e # d => l = k
        BY <3>5
      <4>2. k \in Nat \ {0}
        BY <3>k
      <4>3. events[e][l] # h
        BY <3>2, <4>1, <4>2 DEF IInv, EventsUnpublished
      <4>4. events[e][l] \in Items
        BY EventItems DEF IInv
      <4> QED
        BY <3>3, <4>1, <4>3, <4>4 DEF IInv, EventsUnpublished
    <3>7. ASSUME NEW e \in Dispatchers, NEW k \in DOMAIN events'[e],
                 NEW f \in Dispatchers, NEW l \in DOMAIN events'[f],
                 events'[f][l] = events'[e][k]
          PROVE  f = e /\ l = k
      <4>1. PICK m \in DOMAIN events[e] :
              events[e][m] = events'[e][k] /\ (e = d => m = k + 1) /\ (e # d => m = k)
        BY <3>5
      <4>2. PICK n \in DOMAIN events[f] :
              events[f][n] = events'[f][l] /\ (f = d => n = l + 1) /\ (f # d => n = l)
        BY <3>5
      <4>3. f = e /\ n = m
        BY <3>7, <4>1, <4>2 DEF IInv, EventsUnpublished
      <4>4. k \in Nat /\ l \in Nat
        BY <3>k
      <4> QED
        BY <4>1, <4>2, <4>3, <4>4
    <3>8. EventsUnpublished'
      BY <1>1, <3>6, <3>7 DEF EventsUnpublished
    <3>9. ASSUME NEW i \in Items
          PROVE  /\ published'[i] <= IF status[i] = "sent" THEN 1 ELSE 0
                 /\ status[i] = "sent" /\ failures = 0 =>
                      \/ published'[i] = 1
                      \/ \E e \in Dispatchers : \E k \in DOMAIN events'[e] : events'[e][k] = i
      <4>1. CASE i = h
        BY <3>3, <3>4, <4>1
      <4>2. CASE i # h
        <5>1. ASSUME NEW e \in Dispatchers, NEW k \in DOMAIN events[e], events[e][k] = i
              PROVE  \E l \in DOMAIN events'[e] : events'[e][l] = i
          <6>1. CASE e = d
            <7>1. k # 1 /\ k \in DOMAIN events[d]
              BY <3>2, <4>2, <5>1, <6>1
            <7>2. k - 1 \in DOMAIN events'[d] /\ events'[d][k - 1] = i
              BY <3>2, <3>3, <5>1, <6>1, <7>1
            <7> QED
              BY <6>1, <7>2
          <6>2. CASE e # d
            BY <3>3, <5>1, <6>2
          <6> QED
            BY <6>1, <6>2
        <5> QED
          BY <3>3, <4>2, <5>1 DEF IInv, PublishedAfterCommit
      <4> QED
        BY <4>1, <4>2
    <3>10. PublishedAfterCommit'
      BY <1>1, <3>9 DEF PublishedAfterCommit
    <3> QED
      BY <3>8, <3>10
  <2> QED
    BY <2>1, <2>2
<1> QED
  BY <1>t, <1>2, <1>3, <1>5, <1>6, <1>7 DEF IInv

(* A process that stops after its commit takes its broadcasts with it.     *)
LEMMA CrashStep ==
  ASSUME IInv, NEW d \in Dispatchers, CrashPublishing(d)
  PROVE  IInv'
<1> USE ConstantsAssumption
<1>t. TypeOK'
  BY TypeStep DEF Next, Failure
<1>1. /\ UNCHANGED <<now, rowVars, messages, notices, requests, todo, cur, read, sending, failing>>
      /\ UNCHANGED <<status, published>>
      /\ now \in Nat /\ now <= now /\ failures' # 0
      /\ pc[d] = "publish"
      /\ events'[d] = <<>>
      /\ \A e \in Dispatchers \ {d} : events'[e] = events[e]
  BY DEF CrashPublishing, IInv, TypeOK, rowVars, outVars
<1>2. RowsFilled' /\ OutcomeRecorded' /\ PostedAsAcknowledged'
  BY <1>1, RowsKept
<1>3. RequestsSound'
  BY <1>1, RequestsKept
<1>4. \A e \in Dispatchers : Held(e)' = Held(e)
  BY <1>1 DEF Held
<1>5. BatchesSplit'
  BY <1>1, <1>4 DEF CrashPublishing, IInv, TypeOK, BatchesSplit, BatchSplit
<1>6. BatchesExclusive'
  BY <1>1, <1>4 DEF IInv, BatchesExclusive, rowVars
<1>7. EventsUnpublished'
  BY <1>1 DEF IInv, EventsUnpublished
<1>8. PublishedAfterCommit'
  BY <1>1 DEF IInv, PublishedAfterCommit
<1> QED
  BY <1>t, <1>2, <1>3, <1>5, <1>6, <1>7, <1>8 DEF IInv

(* The other handlers and the clock touch no row and no transaction.       *)
LEMMA OutsideStep ==
  ASSUME IInv, Disturbance \/ Tick \/ UNCHANGED vars
  PROVE  IInv'
<1>t. TypeOK'
  BY TypeStep DEF Next
<1>1. UNCHANGED <<rowVars, outVars, requests, jobVars, failures>>
  BY DEF Disturbance, HideChat, SwitchAnnouncement, ChangeRole, SwitchBlock, SwitchAccount,
         Tick, vars, boundVars
<1>2. now' \in Nat /\ now <= now' /\ failures \in Nat /\ failures <= failures
  BY ConstantsAssumption
  DEF IInv, TypeOK, Disturbance, HideChat, SwitchAnnouncement, ChangeRole, SwitchBlock,
      SwitchAccount, Tick, vars
<1>3. UNCHANGED <<messages, notices, published, status, events>>
  BY <1>1 DEF rowVars, outVars, jobVars
<1> QED
  BY <1>t, <1>1, <1>2, <1>3, RowsKept, EventsKept, BatchesKept, RequestsKept DEF IInv

(* Every step of the component keeps the invariant.                        *)
THEOREM Inductive == IInv /\ [Next]_vars => IInv'
BY RequestStep, FetchStep, CheckAvailableStep, CheckPermissionStep, InsertStep, SendStep,
   CommitStep, PublishStep, RollBackStep, CrashStep, OutsideStep
DEF Next, Dispatch, Failure

(* The rows, the chat and the broadcasts agree in every reachable state.   *)
THEOREM Safety == Spec => []IInv
BY InvariantInit, Inductive, PTL DEF Spec

(* TypeOK holds in every reachable state.                                  *)
THEOREM TypeCorrect == Spec => []TypeOK
BY Safety, PTL DEF IInv

(* A row is posted or reported exactly once, as its status says.           *)
THEOREM ExactlyOnce == Spec => []OutcomeRecorded
BY Safety, PTL DEF IInv

(* What is posted is the text and not before the time last acknowledged.   *)
THEOREM AcknowledgedText == Spec => []PostedAsAcknowledged
BY Safety, PTL DEF IInv

(* No message is broadcast twice or before its commit, none is forgotten   *)
(* without a crash.                                                        *)
THEOREM Broadcasts == Spec => []PublishedAfterCommit
BY Safety, PTL DEF IInv

(* Transactions of different dispatchers never work on the same row.       *)
THEOREM Exclusion == Spec => []BatchesExclusive
BY Safety, PTL DEF IInv

-----------------------------------------------------------------------------
(* Refinement: the component implements ScheduledOutbox.                   *)

LEMMA OutboxInit == Init => Outbox!Init
BY DEF Init, Outbox!Init

(* Every step is one of the outbox, or leaves it as it is.                 *)
LEMMA OutboxStep == IInv /\ [Next]_vars => [Outbox!Next]_(Outbox!outboxVars)
<1> SUFFICES ASSUME IInv, [Next]_vars
             PROVE  Outbox!Next \/ UNCHANGED <<status, body, messages>>
  BY DEF Outbox!outboxVars
<1> USE ConstantsAssumption
<1>1. ASSUME NEW r \in requests, FinishCreate(r)
      PROVE  Outbox!Next
  <2>1. r.item \in Items /\ r.body \in Bodies /\ status[r.item] = "none"
    BY <1>1 DEF IInv, TypeOK, RequestRecords, RequestsSound, FinishCreate
  <2>2. Outbox!Accept(r.item, r.body)
    BY <1>1, <2>1 DEF FinishCreate, Outbox!Accept, IInv, TypeOK, outVars
  <2> QED
    BY <2>1, <2>2 DEF Outbox!Next
<1>2. ASSUME NEW r \in requests, FinishUpdate(r)
      PROVE  Outbox!Next \/ UNCHANGED <<status, body, messages>>
  <2>1. r.item \in Items /\ r.body \in Bodies \cup {NoBody}
    BY DEF IInv, TypeOK, RequestRecords
  <2>2. CASE Updatable(r.item) /\ r.body # NoBody
    <3>1. /\ status[r.item] = "pending"
          /\ UNCHANGED <<status, messages>>
          /\ body' = [body EXCEPT ![r.item] = r.body]
      BY <1>2, <2>1, <2>2 DEF FinishUpdate, Updatable, Coalesce, IInv, TypeOK, outVars
    <3>2. Outbox!Revise(r.item, r.body)
      BY <2>1, <3>1 DEF Outbox!Revise, IInv, TypeOK
    <3> QED
      BY <2>1, <2>2, <3>2 DEF Outbox!Next
  <2>3. CASE ~(Updatable(r.item) /\ r.body # NoBody)
    BY <1>2, <2>1, <2>3 DEF FinishUpdate, Updatable, Coalesce, IInv, TypeOK, outVars
  <2> QED
    BY <2>2, <2>3
<1>3. ASSUME NEW i \in Items, Cancel(i)
      PROVE  Outbox!Next
  <2>1. Outbox!Withdraw(i)
    BY <1>3 DEF Cancel, Updatable, Outbox!Withdraw, IInv, TypeOK, outVars
  <2> QED
    BY <2>1 DEF Outbox!Next
<1>4. ASSUME NEW d \in Dispatchers, CommitBatch(d)
      PROVE  Outbox!Next
  <2>1. /\ sending[d] \in SUBSET Items /\ failing[d] \in SUBSET Items
        /\ sending[d] \cap failing[d] = {}
        /\ \A i \in sending[d] \cup failing[d] : status[i] = "pending" /\ read[d][i] = body[i]
    BY DEF IInv, TypeOK, BatchesSplit, BatchSplit, BatchesExclusive, Held
  <2>2. PICK S \in SUBSET Items, F \in SUBSET Items : S = sending[d] /\ F = failing[d]
    BY <2>1
  <2>3. Outbox!Resolve(S, F)
    BY <1>4, <2>1, <2>2 DEF CommitBatch, Outbox!Resolve, IInv, TypeOK
  <2> QED
    BY <2>3 DEF Outbox!Next
<1>5. ASSUME NEW d \in Dispatchers,
             \/ Fetch(d) \/ CheckAvailable(d) \/ CheckPermission(d) \/ Insert(d) \/ WaitForChat(d)
             \/ Send(d) \/ Publish(d) \/ BreakDeadlock(d) \/ Failure(d)
      PROVE  UNCHANGED <<status, body, messages>>
  BY <1>5 DEF Fetch, CheckAvailable, CheckPermission, Insert, WaitForChat, Send, SendFrom, Publish,
              BreakDeadlock, Failure, Abort, CrashPublishing, rowVars, outVars
<1>6. ASSUME Disturbance \/ Tick \/ UNCHANGED vars
      PROVE  UNCHANGED <<status, body, messages>>
  BY <1>6 DEF Disturbance, HideChat, SwitchAnnouncement, ChangeRole, SwitchBlock, SwitchAccount,
              Tick, vars, rowVars, outVars
<1>7. ASSUME NEW i \in Items, NEW b \in Bodies \cup {NoBody}, NEW t \in 0..MaxTime,
             BeginCreate(i, b, t) \/ BeginUpdate(i, b, t)
      PROVE  UNCHANGED <<status, body, messages>>
  BY <1>7 DEF BeginCreate, BeginUpdate, rowVars, outVars
<1>8. Times \subseteq 0..MaxTime
  BY DEF Times
<1> QED
  BY <1>1, <1>2, <1>3, <1>4, <1>5, <1>6, <1>7, <1>8 DEF Next, Request, Dispatch

(* Every behaviour of the component is one of the abstract outbox: each    *)
(* accepted message is revised or withdrawn only while pending and         *)
(* resolved once.                                                          *)
THEOREM Refinement == Spec => OutboxSpec
<1>1. Spec => [][Outbox!Next]_(Outbox!outboxVars)
  BY Safety, OutboxStep, PTL DEF Spec
<1> QED
  BY <1>1, OutboxInit, PTL DEF Spec, OutboxSpec, Outbox!Spec
=============================================================================
