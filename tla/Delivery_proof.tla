---------------------------- MODULE Delivery_proof ----------------------------
(***************************************************************************)
(* Proofs about Delivery for any number of members, requests, keys,        *)
(* sockets and failures: a message is shown as read only when everybody    *)
(* has read it, no socket of the room misses what is announced, and        *)
(* sendMessage implements idempotent posting.                              *)
(***************************************************************************)
EXTENDS Delivery, TLAPS

(* What the properties need to be inductive.                               *)

(* A request whose row is inserted, in a transaction or committed.         *)
Inserted(a) == stage[a] = "open" \/ a \in saved

(* How far a request is says whether its message is committed.             *)
StageFacts ==
  \A a \in Sends :
    /\ stage[a] # "idle" => author[a] \in Users
    /\ stage[a] \in {"idle", "trying", "open", "found"} => a \notin saved
    /\ stage[a] \in {"saved", "telling"} => a \in saved
    /\ a \in told => a \in saved /\ stage[a] # "saved"

(* An inserted message has a receipt for everybody but its author.         *)
ReceiptFacts ==
  \A a \in Sends, u \in Users :
    /\ Inserted(a) /\ u # author[a] => receipt[a][u] # "none"
    /\ u = author[a] => receipt[a][u] = "none"
    /\ stage[a] \in {"idle", "trying"} => receipt[a][u] = "none"

(* Receipts never go back, so that what a reader computed stays true.      *)
JudgedFacts ==
  \A r \in Reads, a \in Sends :
    /\ judged[r][a] # "kept" => a \in saved
    /\ judged[r][a] = "read" => \A u \in Users \ {author[a]} : receipt[a][u] = "read"

StatusFacts == \A a \in Sends \ saved : status[a] # "read"

(* A key is inserted at most once.                                         *)
KeyFacts ==
  \A a, b \in Sends : Inserted(a) /\ Inserted(b) /\ SameKey(a, b) => a = b

(* An answer names a committed message of its sender and key.              *)
AnswerFacts ==
  \A u \in Users, k \in Keys \cup {NoKey}, a \in Sends :
    <<u, k, a>> \in answers => a \in saved /\ author[a] = u /\ key[a] = k

IInv ==
  /\ TypeOK
  /\ StageFacts
  /\ ReceiptFacts
  /\ JudgedFacts
  /\ StatusFacts
  /\ KeyFacts
  /\ AnswerFacts
  /\ ReadMeansAll
  /\ RoomServed
-----------------------------------------------------------------------------

(* The initial state satisfies all of it.                                  *)
LEMMA InitOK == Init => IInv
BY DeliveryAssumption
DEF Init, IInv, TypeOK, StageFacts, ReceiptFacts, JudgedFacts, StatusFacts, KeyFacts, AnswerFacts,
    ReadMeansAll, RoomServed, Inserted, SameKey, Grades, Receipts, Judgements

(* The counters of the bounds stay in their range.                         *)
LEMMA CounterTypes ==
  /\ ops \in 0..MaxOps /\ Counted => ops' \in 0..MaxOps
  /\ failures \in 0..MaxFailures /\ Failing => failures' \in 0..MaxFailures
BY DeliveryAssumption DEF Counted, Failing

(* Every way to post begins a request.                                     *)
LEMMA SendBegins ==
  ASSUME NEW a, NEW u, Send(a, u)
  PROVE  \E k \in Keys \cup {NoKey}, e \in BOOLEAN : Begin(a, u, k, e)
BY Zenon DEF Send, SendText, SendAttachment, SendBySocket

(* Every step keeps the types.                                             *)
LEMMA TypeStep ==
  ASSUME IInv, [Next]_vars
  PROVE  TypeOK'
<1> USE DEF IInv, TypeOK, Grades, Receipts, Judgements
<1>1. ASSUME NEW a \in Sends, NEW u \in Users, Send(a, u)
      PROVE  TypeOK'
  <2>1. PICK k \in Keys \cup {NoKey}, e \in BOOLEAN : Begin(a, u, k, e)
    BY ONLY <1>1, SendBegins
  <2> QED
    BY <2>1, CounterTypes DEF Begin, sendVars, rowVars, readVars, hub
<1>2. ASSUME NEW a \in Sends, Insert(a)
      PROVE  TypeOK'
  BY <1>2 DEF Insert, sendVars, rowVars, readVars, hub
<1>3. ASSUME NEW a \in Sends, FindExisting(a)
      PROVE  TypeOK'
  BY <1>3 DEF FindExisting, sendVars, rowVars, readVars, hub
<1>4. ASSUME NEW a \in Sends, Commit(a)
      PROVE  TypeOK'
  BY <1>4 DEF Commit, sendVars, rowVars, readVars, hub
<1>5. ASSUME NEW a \in Sends, Fail(a)
      PROVE  TypeOK'
  BY <1>5, CounterTypes DEF Fail, sendVars, rowVars, readVars, hub
<1>6. ASSUME NEW a \in Sends, Broadcast(a)
      PROVE  TypeOK'
  BY <1>6 DEF Broadcast, sendVars, rowVars, readVars, hub
<1>7. ASSUME NEW a \in Sends, Reply(a)
      PROVE  TypeOK'
  <2>1. author[a] \in Users /\ key[a] \in Keys \cup {NoKey} /\ saved \subseteq Sends
    BY <1>7 DEF Reply, StageFacts
  <2>2. answers' \in SUBSET (Users \X (Keys \cup {NoKey}) \X Sends)
    BY <1>7, <2>1 DEF Reply
  <2>3. stage' \in [Sends -> {"idle", "trying", "open", "saved", "telling", "found", "done", "failed"}]
    BY <1>7 DEF Reply
  <2> QED
    BY <1>7, <2>2, <2>3 DEF Reply, rowVars, readVars, hub
<1>8. ASSUME NEW a \in Sends, Crash(a)
      PROVE  TypeOK'
  BY <1>8, CounterTypes DEF Crash, sendVars, rowVars, readVars, hub
<1>9. ASSUME NEW a \in Sends, NEW u \in Users, Write(a, u)
      PROVE  TypeOK'
  BY <1>9 DEF Write, Received, sendVars, rowVars, readVars, hub
<1>10. ASSUME NEW r \in Reads, NEW u \in Users, Look(r, u)
      PROVE  TypeOK'
  BY <1>10, CounterTypes DEF Look, sendVars, rowVars, readVars, hub
<1>11. ASSUME NEW r \in Reads, Mark(r)
      PROVE  TypeOK'
  BY <1>11 DEF Mark, sendVars, rowVars, readVars, hub
<1>12. ASSUME NEW r \in Reads, Judge(r)
      PROVE  TypeOK'
  BY <1>12 DEF Judge, sendVars, rowVars, readVars, hub
<1>13. ASSUME NEW r \in Reads, Settle(r)
      PROVE  TypeOK'
  BY <1>13 DEF Settle, sendVars, rowVars, readVars, hub
<1>14. ASSUME NEW u \in Users, Join(u)
      PROVE  TypeOK'
  BY <1>14, CounterTypes DEF Join, sendVars, rowVars, readVars, hub
<1>15. ASSUME NEW u \in Users, CatchUp(u)
      PROVE  TypeOK'
  BY <1>15 DEF CatchUp, Received, sendVars, rowVars, readVars, hub
<1>16. ASSUME NEW u \in Users, Leave(u)
      PROVE  TypeOK'
  BY <1>16 DEF Leave, sendVars, rowVars, readVars, hub
<1>17. ASSUME UNCHANGED vars
      PROVE  TypeOK'
  BY <1>17 DEF vars, sendVars, rowVars, readVars, hub
<1> QED
  BY <1>1, <1>2, <1>3, <1>4, <1>5, <1>6, <1>7, <1>8, <1>9, <1>10, <1>11, <1>12, <1>13, <1>14, <1>15, <1>16, <1>17
      DEF Next

(* A request goes through its stages in order.                             *)
LEMMA StageStep ==
  ASSUME IInv, [Next]_vars
  PROVE  StageFacts'
<1> USE DEF IInv, TypeOK, StageFacts
<1>1. ASSUME NEW a \in Sends, NEW u \in Users, Send(a, u)
      PROVE  StageFacts'
  <2>1. PICK k \in Keys \cup {NoKey}, e \in BOOLEAN : Begin(a, u, k, e)
    BY ONLY <1>1, SendBegins
  <2> QED
    BY <2>1 DEF Begin, Counted, sendVars, rowVars, readVars, hub
<1>2. ASSUME NEW a \in Sends, Insert(a)
      PROVE  StageFacts'
  BY <1>2 DEF Insert, sendVars, rowVars, readVars, hub
<1>3. ASSUME NEW a \in Sends, FindExisting(a)
      PROVE  StageFacts'
  BY <1>3 DEF FindExisting, sendVars, rowVars, readVars, hub
<1>4. ASSUME NEW a \in Sends, Commit(a)
      PROVE  StageFacts'
  BY <1>4 DEF Commit, sendVars, rowVars, readVars, hub
<1>5. ASSUME NEW a \in Sends, Fail(a)
      PROVE  StageFacts'
  BY <1>5 DEF Fail, Failing, sendVars, rowVars, readVars, hub
<1>6. ASSUME NEW a \in Sends, Broadcast(a)
      PROVE  StageFacts'
  BY <1>6 DEF Broadcast, sendVars, rowVars, readVars, hub
<1>7. ASSUME NEW a \in Sends, Reply(a)
      PROVE  StageFacts'
  BY <1>7 DEF Reply, sendVars, rowVars, readVars, hub
<1>8. ASSUME NEW a \in Sends, Crash(a)
      PROVE  StageFacts'
  BY <1>8 DEF Crash, Failing, sendVars, rowVars, readVars, hub
<1>9. ASSUME UNCHANGED <<stage, author, saved, told>>
      PROVE  StageFacts'
  BY <1>9 DEF IInv, TypeOK, StageFacts
<1> QED
  BY <1>1, <1>2, <1>3, <1>4, <1>5, <1>6, <1>7, <1>8, <1>9
      DEF Next, vars, sendVars, rowVars, readVars, hub, CatchUp, Join, Judge, Leave, Look, Mark, Settle, Write

(* Receipts are inserted with the message and then only grow.              *)
LEMMA ReceiptStep ==
  ASSUME IInv, [Next]_vars
  PROVE  ReceiptFacts'
<1> USE DEF IInv, TypeOK, StageFacts, ReceiptFacts, Inserted, Receipts
<1>1. ASSUME NEW a \in Sends, NEW u \in Users, Send(a, u)
      PROVE  ReceiptFacts'
  <2>1. PICK k \in Keys \cup {NoKey}, e \in BOOLEAN : Begin(a, u, k, e)
    BY ONLY <1>1, SendBegins
  <2> QED
    BY <2>1 DEF Begin, Counted, sendVars, rowVars, readVars, hub
<1>2. ASSUME NEW a \in Sends, Insert(a)
      PROVE  ReceiptFacts'
  BY <1>2 DEF Insert, sendVars, rowVars, readVars, hub
<1>3. ASSUME NEW a \in Sends, FindExisting(a)
      PROVE  ReceiptFacts'
  BY <1>3 DEF FindExisting, sendVars, rowVars, readVars, hub
<1>4. ASSUME NEW a \in Sends, Commit(a)
      PROVE  ReceiptFacts'
  BY <1>4 DEF Commit, sendVars, rowVars, readVars, hub
<1>5. ASSUME NEW a \in Sends, Fail(a)
      PROVE  ReceiptFacts'
  BY <1>5 DEF Fail, Failing, sendVars, rowVars, readVars, hub
<1>6. ASSUME NEW a \in Sends, Broadcast(a)
      PROVE  ReceiptFacts'
  BY <1>6 DEF Broadcast, sendVars, rowVars, readVars, hub
<1>7. ASSUME NEW a \in Sends, Reply(a)
      PROVE  ReceiptFacts'
  BY <1>7 DEF Reply, sendVars, rowVars, readVars, hub
<1>8. ASSUME NEW a \in Sends, Crash(a)
      PROVE  ReceiptFacts'
  BY <1>8 DEF Crash, Failing, sendVars, rowVars, readVars, hub
<1>9. ASSUME NEW a \in Sends, NEW u \in Users, Write(a, u)
      PROVE  ReceiptFacts'
  BY <1>9 DEF Write, Received, sendVars, rowVars, readVars, hub
<1>10. ASSUME NEW r \in Reads, Mark(r)
      PROVE  ReceiptFacts'
  BY <1>10 DEF Mark, sendVars, rowVars, readVars, hub
<1>11. ASSUME NEW u \in Users, CatchUp(u)
      PROVE  ReceiptFacts'
  BY <1>11 DEF CatchUp, Received, sendVars, rowVars, readVars, hub
<1>12. ASSUME UNCHANGED <<stage, author, saved, receipt>>
      PROVE  ReceiptFacts'
  BY <1>12 DEF IInv, TypeOK, StageFacts, ReceiptFacts, Inserted, Receipts
<1> QED
  BY <1>1, <1>2, <1>3, <1>4, <1>5, <1>6, <1>7, <1>8, <1>9, <1>10, <1>11, <1>12
      DEF Next, vars, sendVars, rowVars, readVars, hub, Join, Judge, Leave, Look, Settle

(* What a reader computed stays true until he writes it.                   *)
LEMMA JudgedStep ==
  ASSUME IInv, [Next]_vars
  PROVE  JudgedFacts'
<1> USE DEF IInv, TypeOK, StageFacts, ReceiptFacts, JudgedFacts, Inserted, Receipts, Judgements, Grades
<1>1. ASSUME NEW a \in Sends, NEW u \in Users, Send(a, u)
      PROVE  JudgedFacts'
  <2>1. PICK k \in Keys \cup {NoKey}, e \in BOOLEAN : Begin(a, u, k, e)
    BY ONLY <1>1, SendBegins
  <2> QED
    BY <2>1 DEF Begin, Counted, sendVars, rowVars, readVars, hub
<1>2. ASSUME NEW a \in Sends, Insert(a)
      PROVE  JudgedFacts'
  BY <1>2 DEF Insert, sendVars, rowVars, readVars, hub
<1>3. ASSUME NEW a \in Sends, Commit(a)
      PROVE  JudgedFacts'
  BY <1>3 DEF Commit, sendVars, rowVars, readVars, hub
<1>4. ASSUME NEW a \in Sends, Fail(a)
      PROVE  JudgedFacts'
  BY <1>4 DEF Fail, Failing, sendVars, rowVars, readVars, hub
<1>5. ASSUME NEW a \in Sends, NEW u \in Users, Write(a, u)
      PROVE  JudgedFacts'
  BY <1>5 DEF Write, Received, sendVars, rowVars, readVars, hub
<1>6. ASSUME NEW r \in Reads, Mark(r)
      PROVE  JudgedFacts'
  BY <1>6 DEF Mark, sendVars, rowVars, readVars, hub
<1>7. ASSUME NEW r \in Reads, Judge(r)
      PROVE  JudgedFacts'
  <2>1. ASSUME NEW q \in Reads, NEW a \in Sends, judged'[q][a] # "kept"
        PROVE  /\ a \in saved
               /\ judged'[q][a] = "read" => \A u \in Users \ {author[a]} : receipt[a][u] = "read"
    <3>1. CASE q # r
      BY <1>7, <2>1, <3>1 DEF Judge
    <3>2. CASE q = r
      <4>1. a \in saved /\ (judged'[q][a] = "read" => ReadByAll(a))
        BY <1>7, <2>1, <3>2 DEF Judge
      <4> QED
        BY <4>1 DEF ReadByAll
    <3> QED
      BY <3>1, <3>2
  <2> QED
    BY <1>7, <2>1 DEF Judge, rowVars, sendVars
<1>8. ASSUME NEW r \in Reads, Settle(r)
      PROVE  JudgedFacts'
  BY <1>8 DEF Settle, sendVars, rowVars, readVars, hub
<1>9. ASSUME NEW u \in Users, CatchUp(u)
      PROVE  JudgedFacts'
  BY <1>9 DEF CatchUp, Received, sendVars, rowVars, readVars, hub
<1>10. ASSUME UNCHANGED <<saved, author, receipt, judged>>
      PROVE  JudgedFacts'
  BY <1>10 DEF IInv, TypeOK, StageFacts, ReceiptFacts, JudgedFacts, Inserted, Receipts, Judgements, Grades
<1> QED
  BY <1>1, <1>2, <1>3, <1>4, <1>5, <1>6, <1>7, <1>8, <1>9, <1>10
      DEF Next, vars, sendVars, rowVars, readVars, hub, Broadcast, Crash, FindExisting, Join, Leave, Look, Reply

(* Only committed messages are shown as read.                              *)
LEMMA StatusStep ==
  ASSUME IInv, [Next]_vars
  PROVE  StatusFacts'
<1> USE DEF IInv, TypeOK, StageFacts, StatusFacts, JudgedFacts, Grades, Judgements
<1>1. ASSUME NEW a \in Sends, NEW u \in Users, Send(a, u)
      PROVE  StatusFacts'
  <2>1. PICK k \in Keys \cup {NoKey}, e \in BOOLEAN : Begin(a, u, k, e)
    BY ONLY <1>1, SendBegins
  <2> QED
    BY <2>1 DEF Begin, Counted, sendVars, rowVars, readVars, hub
<1>2. ASSUME NEW a \in Sends, Commit(a)
      PROVE  StatusFacts'
  BY <1>2 DEF Commit, sendVars, rowVars, readVars, hub
<1>3. ASSUME NEW r \in Reads, Settle(r)
      PROVE  StatusFacts'
  BY <1>3 DEF Settle, sendVars, rowVars, readVars, hub
<1>4. ASSUME UNCHANGED <<saved, status>>
      PROVE  StatusFacts'
  BY <1>4 DEF IInv, TypeOK, StageFacts, StatusFacts, JudgedFacts, Grades, Judgements
<1> QED
  BY <1>1, <1>2, <1>3, <1>4
      DEF Next, vars, sendVars, rowVars, readVars, hub, Broadcast, CatchUp, Crash, Fail, FindExisting, Insert, Join, Judge, Leave, Look, Mark, Reply, Write

(* ... and by everybody, when they are.                                    *)
LEMMA ReadStep ==
  ASSUME IInv, [Next]_vars
  PROVE  ReadMeansAll'
<1> USE DEF IInv, TypeOK, StageFacts, StatusFacts, JudgedFacts, ReadMeansAll, Grades, Receipts, Judgements
<1>1. ASSUME NEW a \in Sends, NEW u \in Users, Send(a, u)
      PROVE  ReadMeansAll'
  <2>1. PICK k \in Keys \cup {NoKey}, e \in BOOLEAN : Begin(a, u, k, e)
    BY ONLY <1>1, SendBegins
  <2> QED
    BY <2>1 DEF Begin, Counted, sendVars, rowVars, readVars, hub
<1>2. ASSUME NEW a \in Sends, Insert(a)
      PROVE  ReadMeansAll'
  BY <1>2 DEF Insert, sendVars, rowVars, readVars, hub
<1>3. ASSUME NEW a \in Sends, Commit(a)
      PROVE  ReadMeansAll'
  BY <1>3 DEF Commit, sendVars, rowVars, readVars, hub
<1>4. ASSUME NEW a \in Sends, Fail(a)
      PROVE  ReadMeansAll'
  BY <1>4 DEF Fail, Failing, sendVars, rowVars, readVars, hub
<1>5. ASSUME NEW a \in Sends, NEW u \in Users, Write(a, u)
      PROVE  ReadMeansAll'
  BY <1>5 DEF Write, Received, sendVars, rowVars, readVars, hub
<1>6. ASSUME NEW r \in Reads, Mark(r)
      PROVE  ReadMeansAll'
  BY <1>6 DEF Mark, sendVars, rowVars, readVars, hub
<1>7. ASSUME NEW r \in Reads, Settle(r)
      PROVE  ReadMeansAll'
  BY <1>7 DEF Settle, sendVars, rowVars, readVars, hub
<1>8. ASSUME NEW u \in Users, CatchUp(u)
      PROVE  ReadMeansAll'
  BY <1>8 DEF CatchUp, Received, sendVars, rowVars, readVars, hub
<1>9. ASSUME UNCHANGED <<saved, status, author, receipt>>
      PROVE  ReadMeansAll'
  BY <1>9 DEF IInv, TypeOK, StageFacts, StatusFacts, JudgedFacts, ReadMeansAll, Grades, Receipts, Judgements
<1> QED
  BY <1>1, <1>2, <1>3, <1>4, <1>5, <1>6, <1>7, <1>8, <1>9
      DEF Next, vars, sendVars, rowVars, readVars, hub, Broadcast, Crash, FindExisting, Join, Judge, Leave, Look, Reply

(* Nothing falls between the room and the broadcast.                       *)
LEMMA RoomStep ==
  ASSUME IInv, [Next]_vars
  PROVE  RoomServed'
<1> USE DEF IInv, TypeOK, StageFacts, ReceiptFacts, RoomServed, Receipts
<1>1. ASSUME NEW a \in Sends, NEW u \in Users, Send(a, u)
      PROVE  RoomServed'
  <2>1. PICK k \in Keys \cup {NoKey}, e \in BOOLEAN : Begin(a, u, k, e)
    BY ONLY <1>1, SendBegins
  <2> QED
    BY <2>1 DEF Begin, Counted, sendVars, rowVars, readVars, hub
<1>2. ASSUME NEW a \in Sends, Insert(a)
      PROVE  RoomServed'
  BY <1>2 DEF Insert, sendVars, rowVars, readVars, hub
<1>3. ASSUME NEW a \in Sends, FindExisting(a)
      PROVE  RoomServed'
  BY <1>3 DEF FindExisting, sendVars, rowVars, readVars, hub
<1>4. ASSUME NEW a \in Sends, Commit(a)
      PROVE  RoomServed'
  BY <1>4 DEF Commit, sendVars, rowVars, readVars, hub
<1>5. ASSUME NEW a \in Sends, Fail(a)
      PROVE  RoomServed'
  BY <1>5 DEF Fail, Failing, sendVars, rowVars, readVars, hub
<1>6. ASSUME NEW a \in Sends, Broadcast(a)
      PROVE  RoomServed'
  BY <1>6 DEF Broadcast, sendVars, rowVars, readVars, hub
<1>7. ASSUME NEW a \in Sends, Reply(a)
      PROVE  RoomServed'
  BY <1>7 DEF Reply, sendVars, rowVars, readVars, hub
<1>8. ASSUME NEW a \in Sends, Crash(a)
      PROVE  RoomServed'
  BY <1>8 DEF Crash, Failing, sendVars, rowVars, readVars, hub
<1>9. ASSUME NEW a \in Sends, NEW u \in Users, Write(a, u)
      PROVE  RoomServed'
  BY <1>9 DEF Write, Received, sendVars, rowVars, readVars, hub
<1>10. ASSUME NEW r \in Reads, Mark(r)
      PROVE  RoomServed'
  BY <1>10 DEF Mark, sendVars, rowVars, readVars, hub
<1>11. ASSUME NEW u \in Users, Join(u)
      PROVE  RoomServed'
  BY <1>11 DEF Join, Counted, sendVars, rowVars, readVars, hub
<1>12. ASSUME NEW u \in Users, CatchUp(u)
      PROVE  RoomServed'
  BY <1>12 DEF CatchUp, Received, sendVars, rowVars, readVars, hub
<1>13. ASSUME NEW u \in Users, Leave(u)
      PROVE  RoomServed'
  BY <1>13 DEF Leave, sendVars, rowVars, readVars, hub
<1>14. ASSUME UNCHANGED <<stage, saved, receipt, room, catching, targets>>
      PROVE  RoomServed'
  BY <1>14 DEF IInv, TypeOK, StageFacts, ReceiptFacts, RoomServed, Receipts
<1> QED
  BY <1>1, <1>2, <1>3, <1>4, <1>5, <1>6, <1>7, <1>8, <1>9, <1>10, <1>11, <1>12, <1>13, <1>14
      DEF Next, vars, sendVars, rowVars, readVars, hub, Judge, Look, Settle

(* The unique index admits one row for each key.                           *)
LEMMA KeyStep ==
  ASSUME IInv, [Next]_vars
  PROVE  KeyFacts'
<1> USE DEF IInv, TypeOK, StageFacts, KeyFacts, Inserted, SameKey, MayInsert, Taken
<1>1. ASSUME NEW a \in Sends, NEW u \in Users, Send(a, u)
      PROVE  KeyFacts'
  <2>1. PICK k \in Keys \cup {NoKey}, e \in BOOLEAN : Begin(a, u, k, e)
    BY ONLY <1>1, SendBegins
  <2> QED
    BY <2>1 DEF Begin, Counted, sendVars, rowVars, readVars, hub
<1>2. ASSUME NEW a \in Sends, Insert(a)
      PROVE  KeyFacts'
  BY <1>2 DEF Insert, sendVars, rowVars, readVars, hub
<1>3. ASSUME NEW a \in Sends, FindExisting(a)
      PROVE  KeyFacts'
  BY <1>3 DEF FindExisting, sendVars, rowVars, readVars, hub
<1>4. ASSUME NEW a \in Sends, Commit(a)
      PROVE  KeyFacts'
  BY <1>4 DEF Commit, sendVars, rowVars, readVars, hub
<1>5. ASSUME NEW a \in Sends, Fail(a)
      PROVE  KeyFacts'
  BY <1>5 DEF Fail, Failing, sendVars, rowVars, readVars, hub
<1>6. ASSUME NEW a \in Sends, Broadcast(a)
      PROVE  KeyFacts'
  BY <1>6 DEF Broadcast, sendVars, rowVars, readVars, hub
<1>7. ASSUME NEW a \in Sends, Reply(a)
      PROVE  KeyFacts'
  BY <1>7 DEF Reply, sendVars, rowVars, readVars, hub
<1>8. ASSUME NEW a \in Sends, Crash(a)
      PROVE  KeyFacts'
  BY <1>8 DEF Crash, Failing, sendVars, rowVars, readVars, hub
<1>9. ASSUME UNCHANGED <<stage, saved, author, key>>
      PROVE  KeyFacts'
  BY <1>9 DEF IInv, TypeOK, StageFacts, KeyFacts, Inserted, SameKey, MayInsert, Taken
<1> QED
  BY <1>1, <1>2, <1>3, <1>4, <1>5, <1>6, <1>7, <1>8, <1>9
      DEF Next, vars, sendVars, rowVars, readVars, hub, CatchUp, Join, Judge, Leave, Look, Mark, Settle, Write

(* Answers are right.                                                      *)
LEMMA AnswerStep ==
  ASSUME IInv, [Next]_vars
  PROVE  AnswerFacts'
<1>1. AnswerFacts /\ StageFacts
  BY DEF IInv
<1>2. ASSUME NEW a \in Sends, NEW u \in Users, Send(a, u)
      PROVE  AnswerFacts'
  <2>0. PICK k \in Keys \cup {NoKey}, e \in BOOLEAN : Begin(a, u, k, e)
    BY ONLY <1>2, SendBegins
  <2>1. author \in [Sends -> Users \cup {None}] /\ key \in [Sends -> Keys \cup {NoKey}]
    BY DEF IInv, TypeOK
  <2> QED
    BY <1>1, <2>0, <2>1 DEF Begin, AnswerFacts, StageFacts
<1>3. ASSUME NEW a \in Sends, Commit(a)
      PROVE  AnswerFacts'
  BY <1>1, <1>3 DEF Commit, AnswerFacts
<1>4. ASSUME NEW a \in Sends, Reply(a)
      PROVE  AnswerFacts'
  <2>1. saved \subseteq Sends
    BY DEF IInv, TypeOK
  <2>2. PICK b \in saved : /\ answers' = answers \cup {<<author[a], key[a], b>>}
                           /\ author[b] = author[a] /\ key[b] = key[a]
    BY <1>1, <1>4 DEF Reply, StageFacts, SameKey
  <2>3. UNCHANGED <<saved, author, key>>
    BY <1>4 DEF Reply, rowVars
  <2> QED
    BY <1>1, <2>1, <2>2, <2>3 DEF AnswerFacts
<1>5. ASSUME UNCHANGED <<saved, author, key, answers>>
      PROVE  AnswerFacts'
  BY <1>1, <1>5 DEF AnswerFacts
<1> QED
  BY <1>2, <1>3, <1>4, <1>5
  DEF Next, vars, sendVars, rowVars, readVars, hub, Insert, FindExisting, Fail, Broadcast, Crash, Write, Look,
      Mark, Judge, Settle, Join, CatchUp, Leave

(* The invariant is inductive.                                             *)
THEOREM DeliveryInductive == Spec => []IInv
<1>1. IInv /\ [Next]_vars => IInv'
  BY TypeStep, StageStep, ReceiptStep, JudgedStep, StatusStep, ReadStep, RoomStep, KeyStep, AnswerStep
      DEF IInv
<1> QED
  BY <1>1, InitOK, PTL DEF Spec
-----------------------------------------------------------------------------
(* The state of Delivery is well typed.                                    *)
THEOREM DeliveryTypes == Spec => []TypeOK
<1>1. IInv => TypeOK
  BY DEF IInv
<1> QED
  BY <1>1, DeliveryInductive, PTL

(* markConversationRead shows a message as read only when every recipient  *)
(* has read it, however readers, senders and sockets overlap.              *)
THEOREM ReadByEverybody == Spec => []ReadMeansAll
<1>1. IInv => ReadMeansAll
  BY DEF IInv
<1> QED
  BY <1>1, DeliveryInductive, PTL

(* broadcast and chatSocket together leave no announced message            *)
(* undelivered to a member who is in the room.                             *)
THEOREM RoomHasAll == Spec => []RoomServed
<1>1. IInv => RoomServed
  BY DEF IInv
<1> QED
  BY <1>1, DeliveryInductive, PTL
-----------------------------------------------------------------------------
(* The refinement of idempotent posting.                                   *)

(* A slot holds the one committed message with its sender and key.         *)
LEMMA SlotHolds ==
  ASSUME KeyFacts, saved \subseteq Sends, NEW s \in Slots, NEW a \in saved, InSlot(a, s)
  PROVE  Posted(s) = {a} /\ posted[s] = a
<1>1. ASSUME NEW b \in saved, InSlot(b, s)
      PROVE  b = a
  <2>1. SameKey(a, b)
    BY <1>1, DeliveryAssumption DEF InSlot, SameKey, Slots
  <2> QED
    BY <1>1, <2>1 DEF KeyFacts, Inserted
<1>2. Posted(s) = {a}
  BY <1>1 DEF Posted
<1> QED
  BY <1>2 DEF posted

(* A slot that has the same messages as before holds the same one.         *)
LEMMA SlotSame ==
  ASSUME NEW s \in Slots, Posted(s)' = Posted(s)
  PROVE  posted'[s] = posted[s]
<1>1. posted[s] = IF Posted(s) = {} THEN None ELSE CHOOSE a \in Posted(s) : TRUE
  BY DEF posted
<1>2. posted'[s] = IF Posted(s)' = {} THEN None ELSE CHOOSE a \in Posted(s)' : TRUE
  BY DEF posted, Slots
<1> QED
  BY <1>1, <1>2

(* It is a function of the slots.                                          *)
LEMMA SlotsAreFunction ==
  /\ posted = [s \in Slots |-> posted[s]]
  /\ posted' = [s \in Slots |-> posted'[s]]
BY DEF posted, Slots

(* Steps that leave messages and their keys alone leave the slots alone.   *)
LEMMA SlotsKept ==
  ASSUME UNCHANGED <<saved, author, key>>
  PROVE  posted' = posted
BY DEF posted, Posted, InSlot

(* Steps that leave keys and broadcasts alone leave the told slots alone.  *)
LEMMA ToldKept ==
  ASSUME UNCHANGED <<told, author, key>>
  PROVE  toldSlots' = toldSlots
BY DEF toldSlots, InSlot

(* Steps that answer nobody leave the slots answered alone.                *)
LEMMA AnswersKept ==
  ASSUME UNCHANGED answers
  PROVE  answered' = answered
BY DEF answered

(* A request that begins has neither been committed nor announced.         *)
LEMMA BeginStep ==
  ASSUME IInv, NEW a \in Sends, NEW u \in Users, NEW k \in Keys \cup {NoKey},
           NEW e \in BOOLEAN, Begin(a, u, k, e)
  PROVE  posted' = posted /\ toldSlots' = toldSlots /\ answered' = answered
<1>1. a \notin saved /\ a \notin told /\ told \subseteq Sends /\ saved \subseteq Sends
  BY DEF IInv, TypeOK, StageFacts, Begin
<1>2. UNCHANGED <<saved, told, answers>>
  BY DEF Begin
<1>3. \A b \in Sends \ {a} : author'[b] = author[b] /\ key'[b] = key[b]
  BY DEF IInv, TypeOK, Begin
<1>4. \A s : \A b \in saved \cup told : InSlot(b, s)' <=> InSlot(b, s)
  BY <1>1, <1>3 DEF InSlot
<1>5. \A s : Posted(s)' = Posted(s)
  BY <1>2, <1>4 DEF Posted
<1>6. toldSlots' = toldSlots
  BY <1>2, <1>4 DEF toldSlots
<1> QED
  BY <1>2, <1>5, <1>6, AnswersKept, SlotSame, SlotsAreFunction

(* A commit posts the message in its slot, if it has one.                  *)
LEMMA CommitStep ==
  ASSUME IInv, NEW a \in Sends, Commit(a)
  PROVE  [Idempotent!PostingNext]_(Idempotent!postingVars)
<1>1. saved \subseteq Sends /\ a \notin saved /\ KeyFacts /\ KeyFacts'
  BY KeyStep DEF IInv, TypeOK, StageFacts, Commit, Next
<1>2. saved' = saved \cup {a} /\ UNCHANGED <<author, key, told, answers>>
  BY DEF Commit
<1>3. toldSlots' = toldSlots /\ answered' = answered
  BY <1>2, ToldKept, AnswersKept
<1>4. \A s \in Slots : ~InSlot(a, s) => Posted(s)' = Posted(s)
  BY <1>2 DEF Posted, InSlot
<1>5. CASE \E s \in Slots : InSlot(a, s)
  <2>1. PICK s \in Slots : InSlot(a, s)
    BY <1>5
  <2>2. Posted(s) = {}
    <3>1. ASSUME NEW b \in saved, InSlot(b, s)
          PROVE  FALSE
      <4>1. SameKey(a, b)'
        BY <1>2, <2>1, <3>1, DeliveryAssumption DEF InSlot, SameKey, Slots
      <4> QED
        BY <1>1, <1>2, <3>1, <4>1 DEF KeyFacts, Inserted
    <3> QED
      BY <3>1 DEF Posted
  <2>3. posted[s] = None
    BY <2>2 DEF posted
  <2>4. posted'[s] = a
    <3>1. Posted(s)' = {a}
      BY <1>2, <2>1, <2>2 DEF Posted, InSlot
    <3> QED
      BY <3>1 DEF posted
  <2>5. \A t \in Slots : t # s => ~InSlot(a, t)
    BY <2>1 DEF InSlot, Slots
  <2>6. \A t \in Slots : t # s => posted'[t] = posted[t]
    BY <1>4, <2>5, SlotSame
  <2>7. posted' = [posted EXCEPT ![s] = a]
    BY <2>4, <2>6, SlotsAreFunction
  <2>8. Idempotent!Post(s, a)
    BY <1>3, <2>3, <2>7 DEF Idempotent!Post
  <2> QED
    BY <2>8 DEF Idempotent!PostingNext
<1>6. CASE \A s \in Slots : ~InSlot(a, s)
  <2>1. posted' = posted
    BY <1>4, <1>6, SlotSame, SlotsAreFunction
  <2> QED
    BY <1>3, <2>1 DEF Idempotent!postingVars
<1> QED
  BY <1>5, <1>6

(* A broadcast tells the slot of its message, which was not told before.   *)
LEMMA BroadcastStep ==
  ASSUME IInv, NEW a \in Sends, Broadcast(a)
  PROVE  [Idempotent!PostingNext]_(Idempotent!postingVars)
<1>1. saved \subseteq Sends /\ a \in saved /\ a \notin told /\ told \subseteq saved /\ KeyFacts
  BY DEF IInv, TypeOK, StageFacts, Broadcast
<1>2. told' = told \cup {a} /\ UNCHANGED <<saved, author, key, answers>>
  BY DEF Broadcast, rowVars
<1>3. posted' = posted /\ answered' = answered
  BY <1>2, SlotsKept, AnswersKept
<1>4. toldSlots' = toldSlots \cup {s \in Slots : InSlot(a, s)}
  BY <1>2 DEF toldSlots, InSlot
<1>5. CASE \E s \in Slots : InSlot(a, s)
  <2>1. PICK s \in Slots : InSlot(a, s)
    BY <1>5
  <2>2. \A t \in Slots : t # s => ~InSlot(a, t)
    BY <2>1 DEF InSlot, Slots
  <2>3. s \notin toldSlots
    <3>1. ASSUME NEW b \in told, InSlot(b, s)
          PROVE  FALSE
      <4>1. posted[s] = a /\ posted[s] = b
        BY <1>1, <2>1, <3>1, SlotHolds
      <4> QED
        BY <1>1, <4>1
    <3> QED
      BY <3>1 DEF toldSlots
  <2>4. posted[s] # None
    BY <1>1, <2>1, SlotHolds, DeliveryAssumption
  <2>5. toldSlots' = toldSlots \cup {s}
    BY <1>4, <2>1, <2>2
  <2>6. Idempotent!Tell(s)
    BY <1>3, <2>3, <2>4, <2>5 DEF Idempotent!Tell
  <2> QED
    BY <2>6 DEF Idempotent!PostingNext
<1>6. CASE \A s \in Slots : ~InSlot(a, s)
  <2>1. toldSlots' = toldSlots
    BY <1>4, <1>6
  <2> QED
    BY <1>3, <2>1 DEF Idempotent!postingVars
<1> QED
  BY <1>5, <1>6

(* An answer names the message of the slot.                                *)
LEMMA ReplyStep ==
  ASSUME IInv, NEW a \in Sends, Reply(a)
  PROVE  [Idempotent!PostingNext]_(Idempotent!postingVars)
<1>1. saved \subseteq Sends /\ KeyFacts
  BY DEF IInv, TypeOK
<1>2. PICK b \in saved : /\ answers' = answers \cup {<<author[a], key[a], b>>}
                         /\ author[b] = author[a] /\ key[b] = key[a]
  BY DEF IInv, Reply, StageFacts, SameKey
<1>3. UNCHANGED <<saved, author, key, told>>
  BY DEF Reply, rowVars
<1>4. posted' = posted /\ toldSlots' = toldSlots
  BY <1>3, SlotsKept, ToldKept
<1>5. \A s \in Slots : ~InSlot(b, s) => answered'[s] = answered[s]
  BY <1>2 DEF answered, InSlot
<1>6. CASE \E s \in Slots : InSlot(b, s)
  <2>1. PICK s \in Slots : InSlot(b, s)
    BY <1>6
  <2>2. posted[s] = b
    BY <1>1, <2>1, SlotHolds
  <2>3. answered'[s] = answered[s] \cup {b}
    BY <1>1, <1>2, <2>1 DEF answered, InSlot
  <2>4. \A t \in Slots : t # s => ~InSlot(b, t)
    BY <2>1 DEF InSlot, Slots
  <2>5. answered' = [answered EXCEPT ![s] = @ \cup {posted[s]}]
    BY <1>5, <2>2, <2>3, <2>4 DEF answered
  <2>6. Idempotent!Answer(s)
    BY <1>1, <1>4, <2>2, <2>5, DeliveryAssumption DEF Idempotent!Answer
  <2> QED
    BY <2>6 DEF Idempotent!PostingNext
<1>7. CASE \A s \in Slots : ~InSlot(b, s)
  <2>1. answered' = answered
    BY <1>5, <1>7 DEF answered
  <2> QED
    BY <1>4, <2>1 DEF Idempotent!postingVars
<1> QED
  BY <1>6, <1>7

(* sendMessage implements Posting: one message for each sender and         *)
(* client_message_id, announced at most once, and named by every answer.   *)
THEOREM PostingRefined == Spec => PostedOnce
<1>1. Init => Idempotent!PostingInit
  BY DEF Init, Idempotent!PostingInit, posted, Posted, toldSlots, answered
<1>2. IInv /\ [Next]_vars => [Idempotent!PostingNext]_(Idempotent!postingVars)
  <2> SUFFICES ASSUME IInv, [Next]_vars
               PROVE  [Idempotent!PostingNext]_(Idempotent!postingVars)
    OBVIOUS
  <2>1. ASSUME NEW a \in Sends, NEW u \in Users, Send(a, u)
        PROVE  UNCHANGED Idempotent!postingVars
    <3>1. PICK k \in Keys \cup {NoKey}, e \in BOOLEAN : Begin(a, u, k, e)
      BY ONLY <2>1, SendBegins
    <3> QED
      BY <3>1, BeginStep DEF Idempotent!postingVars
  <2>2. ASSUME UNCHANGED <<saved, author, key, told, answers>>
        PROVE  UNCHANGED Idempotent!postingVars
    BY <2>2, SlotsKept, ToldKept, AnswersKept DEF Idempotent!postingVars
  <2> QED
    BY <2>1, <2>2, CommitStep, BroadcastStep, ReplyStep
        DEF Next, vars, sendVars, rowVars, readVars, hub, Insert, FindExisting, Fail, Crash, Write, Look, Mark, Judge,
        Settle, Join, CatchUp, Leave
<1> QED
  BY <1>1, <1>2, DeliveryInductive, PTL DEF Spec, PostedOnce, Idempotent!PostingSpec
===============================================================================
