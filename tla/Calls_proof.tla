----------------------------- MODULE Calls_proof -----------------------------
(***************************************************************************)
(* Proofs about Calls for any number of users, calls and requests: each    *)
(* call has the life CallLife allows, and its caller is in it until it is  *)
(* over.                                                                   *)
(***************************************************************************)
EXTENDS Calls, FiniteSetTheorems, TLAPS

(* What the properties need to be inductive.                               *)

InTx(h) == stage[h] \in {"locked", "counted"}

(* Two transactions never hold the row of the same call.                   *)
LocksExclusive ==
  \A h, k \in Handlers : InTx(h) /\ InTx(k) /\ job[h].call = job[k].call => h = k

(* While a handler holds a call the call goes on as the handler has seen   *)
(* it; who counts the others counts at least the caller; and what is still *)
(* to be reported of a call that is over is so.                            *)
HandlerSound(h) ==
  /\ InTx(h) => status[job[h].call] \in Active
  /\ stage[h] = "snapped" => job[h].op = "decline"
  /\ stage[h] = "locked" => job[h].op \in {"decline", "end"}
  /\ stage[h] \in {"snapped", "locked"} /\ job[h].op = "decline" =>
       caller[job[h].call] # job[h].user /\ status[job[h].call] # "none"
  /\ stage[h] = "locked" /\ job[h].op = "decline" => seen[h].status = status[job[h].call]
  /\ stage[h] = "counted" => job[h].user = caller[job[h].call] \/ seen[h].count # 0
  /\ \A c \in news[h].calls :
       news[h].status \in {"missed", "ended"} => status[c] = news[h].status

HandlersSound == \A h \in Handlers : HandlerSound(h)

(* Nobody has left a call that does not exist.                             *)
RowsFresh == \A c \in Ids : status[c] = "none" => left[c] = {}

IInv ==
  /\ TypeOK
  /\ LocksExclusive
  /\ HandlersSound
  /\ RowsFresh
  /\ CallerPresent
  /\ NoticesTrue
-----------------------------------------------------------------------------
(* Types.                                                                  *)

(* The rows of calls, participants and notifications are well typed.       *)
RowsOK ==
  /\ kind \in {"direct", "group"}
  /\ status \in [Ids -> Statuses]
  /\ answered \in [Ids -> BOOLEAN]
  /\ caller \in [Ids -> Users \cup {Nobody}]
  /\ meeting \in [Ids -> BOOLEAN]
  /\ age \in [Ids -> {"young", "overdue", "old"}]
  /\ invited \in [Ids -> SUBSET Users]
  /\ joined \in [Ids -> SUBSET Users]
  /\ left \in [Ids -> SUBSET Users]
  /\ notice \in [Ids -> [Users -> Statuses]]

(* So are the handlers and the counters.                                   *)
HandlersOK ==
  /\ stage \in [Handlers -> Stages]
  /\ job \in [Handlers -> Jobs]
  /\ seen \in [Handlers -> Views]
  /\ news \in [Handlers -> News]
  /\ ops \in 0..MaxOps
  /\ failures \in 0..MaxFailures

(* The two halves of the types.                                            *)
LEMMA TypeParts ==
  /\ TypeOK => RowsOK /\ HandlersOK
  /\ RowsOK' /\ HandlersOK' => TypeOK'
BY DEF TypeOK, RowsOK, HandlersOK

(* A handler without a request is well typed.                              *)
LEMMA NoTypes == NoJob \in Jobs /\ NoView \in Views /\ NoNews \in News
<1>1. Organizer \in Users /\ (CHOOSE c \in Ids : TRUE) \in Ids
  BY ConstantsAssumption
<1>2. NoJob \in Jobs
  BY <1>1 DEF NoJob, Job, Jobs
<1>3. NoView \in Views /\ NoNews \in News
  BY DEF NoView, Views, NoNews, News, Statuses
<1> QED
  BY <1>2, <1>3

(* What declineCall reads is well typed.                                   *)
LEMMA ViewTypes ==
  ASSUME NEW b \in BOOLEAN, NEW n \in Nat
  PROVE  [NoView EXCEPT !.joined = b, !.count = n] \in Views
BY DEF NoView, Views, Statuses

(* A request that starts is well typed.                                    *)
LEMMA StartTypes ==
  ASSUME HandlersOK, NEW h \in Handlers, NEW j \in Jobs, NEW s \in Stages, Start(h, j, s)
  PROVE  /\ stage' \in [Handlers -> Stages] /\ job' \in [Handlers -> Jobs]
         /\ ops' \in 0..MaxOps /\ failures' \in 0..MaxFailures
BY ConstantsAssumption DEF HandlersOK, Start

(* One that goes on is.                                                    *)
LEMMA GoToTypes ==
  ASSUME HandlersOK, NEW h \in Handlers, NEW s \in Stages, GoTo(h, s)
  PROVE  /\ stage' \in [Handlers -> Stages] /\ job' \in [Handlers -> Jobs]
         /\ ops' \in 0..MaxOps /\ failures' \in 0..MaxFailures
BY DEF HandlersOK, GoTo

(* One that finishes is.                                                   *)
LEMMA FinishTypes ==
  ASSUME HandlersOK, NEW h \in Handlers, Finish(h), failures' \in 0..MaxFailures
  PROVE  HandlersOK'
<1>1. "idle" \in Stages
  BY DEF Stages
<1> QED
  BY <1>1, NoTypes DEF HandlersOK, Finish

(* One that reports a change is.                                           *)
LEMMA ReportTypes ==
  ASSUME HandlersOK, NEW h \in Handlers, NEW s \in Statuses, NEW to \in SUBSET Users,
         Report(h, s, to)
  PROVE  HandlersOK'
<1>1. "telling" \in Stages
  BY DEF Stages
<1>2. [calls |-> {job[h].call}, status |-> s, to |-> to] \in News
  BY DEF HandlersOK, Jobs, News
<1>3. news' \in [Handlers -> News] /\ seen' \in [Handlers -> Views]
  BY <1>2 DEF HandlersOK, Report
<1> QED
  BY <1>1, <1>3, GoToTypes DEF HandlersOK, Report

(* Requests that begin with expireRingingCalls keep the types.             *)
LEMMA ExpireTypes ==
  ASSUME TypeOK, NEW h \in Handlers, NEW j \in Jobs, NEW scope \in SUBSET Ids,
         Expire(h, j, scope)
  PROVE  TypeOK'
<1> DEFINE late == {c \in scope : Late(c)}
           s == IF late = {} THEN "looking" ELSE "expiring"
<1>1. RowsOK /\ HandlersOK
  BY TypeParts
<1>2. Start(h, j, s) /\ s \in Stages
  BY DEF Expire, Stages
<1>3. /\ stage' \in [Handlers -> Stages] /\ job' \in [Handlers -> Jobs]
      /\ ops' \in 0..MaxOps /\ failures' \in 0..MaxFailures
  BY <1>1, <1>2, StartTypes
<1>4. [calls |-> late, status |-> "missed", to |-> Users] \in News
  BY DEF News, Statuses, Over
<1>5. news' \in [Handlers -> News] /\ seen' \in [Handlers -> Views]
  <2>1. news' = [news EXCEPT ![h] = IF late = {} THEN NoNews
                   ELSE [calls |-> late, status |-> "missed", to |-> Users]]
    BY DEF Expire
  <2> QED
    BY <1>1, <1>4, <2>1, NoTypes DEF Expire, HandlersOK
<1>6. status' \in [Ids -> Statuses]
  <2>1. status' = [c \in Ids |-> IF c \in late THEN "missed" ELSE status[c]]
    BY DEF Expire
  <2>2. "missed" \in Statuses
    BY DEF Statuses, Over
  <2> QED
    BY <1>1, <2>1, <2>2 DEF RowsOK
<1>7. UNCHANGED <<kind, answered, caller, meeting, age, peopleVars, notice>>
  BY DEF Expire
<1>8. RowsOK'
  BY <1>1, <1>6, <1>7 DEF RowsOK, peopleVars
<1> QED
  BY <1>3, <1>5, <1>8, TypeParts DEF HandlersOK

(* Every request that begins keeps the types.                              *)
LEMMA BeginTypes ==
  ASSUME TypeOK, NEW h \in Handlers, Begin(h)
  PROVE  TypeOK'
<1>1. RowsOK /\ HandlersOK
  BY TypeParts
<1>2. ASSUME NEW S \in {Ids} \cup {{c} : c \in Ids}, Poll(h, S)
      PROVE  TypeOK'
  BY <1>2, ExpireTypes, NoTypes DEF Poll
<1>3. ASSUME NEW u \in Users, BeginStart(h, u) \/ BeginMeet(h, u)
      PROVE  TypeOK'
  <2>1. /\ [NoJob EXCEPT !.op = "start", !.user = u] \in Jobs
        /\ [NoJob EXCEPT !.op = "meet", !.user = u] \in Jobs
    BY NoTypes DEF Jobs
  <2>2. Ids \in SUBSET Ids
    OBVIOUS
  <2>3. CASE BeginStart(h, u)
    BY <2>1, <2>2, <2>3, ExpireTypes DEF BeginStart
  <2>4. CASE BeginMeet(h, u)
    BY <2>1, <2>2, <2>4, ExpireTypes DEF BeginMeet
  <2> QED
    BY <1>3, <2>3, <2>4
<1>4. ASSUME NEW u \in Users, NEW c \in Ids, NEW op \in {"join", "decline", "end"},
             NEW s \in {"admitted", "snapped", "locked"}, Start(h, Job(op, u, c), s),
             seen' \in [Handlers -> Views], UNCHANGED <<callVars, peopleVars, notice, news>>
      PROVE  TypeOK'
  <2>1. Job(op, u, c) \in Jobs /\ s \in Stages
    BY DEF Job, Jobs, Stages
  <2>2. /\ stage' \in [Handlers -> Stages] /\ job' \in [Handlers -> Jobs]
        /\ ops' \in 0..MaxOps /\ failures' \in 0..MaxFailures
    BY <1>1, <1>4, <2>1, StartTypes
  <2>3. RowsOK'
    BY <1>1, <1>4 DEF RowsOK, callVars, peopleVars
  <2> QED
    BY <1>1, <1>4, <2>2, <2>3, TypeParts DEF HandlersOK
<1>5. ASSUME NEW u \in Users, NEW c \in Ids, BeginJoin(h, u, c) \/ BeginEnd(h, u, c)
      PROVE  TypeOK'
  <2>1. seen' \in [Handlers -> Views]
    BY <1>1, <1>5 DEF BeginJoin, BeginEnd, HandlersOK
  <2>2. CASE BeginJoin(h, u, c)
    BY <1>4, <2>1, <2>2 DEF BeginJoin
  <2>3. CASE BeginEnd(h, u, c)
    BY <1>4, <2>1, <2>3 DEF BeginEnd
  <2> QED
    BY <1>5, <2>2, <2>3
<1>6. ASSUME NEW u \in Users, NEW c \in Ids, BeginDecline(h, u, c)
      PROVE  TypeOK'
  <2>1. Cardinality(invited[c] \ left[c]) \in Nat
    <3>1. invited[c] \ left[c] \subseteq Users
      BY <1>1 DEF RowsOK
    <3> QED
      BY <3>1, ConstantsAssumption, FS_Subset, FS_CardinalityType
  <2>2. [NoView EXCEPT !.joined = u \in joined[c],
                       !.count = Cardinality(invited[c] \ left[c])] \in Views
    <3>1. (u \in joined[c]) \in BOOLEAN
      OBVIOUS
    <3> QED
      BY <2>1, <3>1, ViewTypes
  <2>3. seen' \in [Handlers -> Views]
    BY <1>1, <1>6, <2>2 DEF BeginDecline, HandlersOK
  <2> QED
    BY <1>4, <1>6, <2>3 DEF BeginDecline
<1> QED
  BY <1>2, <1>3, <1>5, <1>6 DEF Begin

(* Every statement keeps the types.                                        *)
LEMMA ContinueTypes ==
  ASSUME TypeOK, NEW h \in Handlers, Continue(h)
  PROVE  TypeOK'
<1>1. RowsOK /\ HandlersOK
  BY TypeParts
<1>2. job[h].call \in Ids /\ job[h].user \in Users /\ seen[h] \in Views /\ news[h] \in News
  BY <1>1 DEF HandlersOK, Jobs
<1>3. ASSUME UNCHANGED <<callVars, peopleVars, notice>>
      PROVE  RowsOK'
  BY <1>1, <1>3 DEF RowsOK, callVars, peopleVars
<1>4. ASSUME NEW s \in Stages, GoTo(h, s), seen' \in [Handlers -> Views], UNCHANGED news
      PROVE  HandlersOK'
  BY <1>1, <1>4, GoToTypes DEF HandlersOK
<1>5. ASSUME Finish(h), failures' \in 0..MaxFailures
      PROVE  HandlersOK'
  BY <1>1, <1>5, FinishTypes
<1>6. ASSUME failures < MaxFailures, failures' = failures + 1
      PROVE  failures' \in 0..MaxFailures
  BY <1>1, <1>6, ConstantsAssumption DEF HandlersOK
<1>7. ASSUME NEW s \in {"answered", "declined", "ended"}, NEW to \in SUBSET Users,
             Report(h, s, to)
      PROVE  HandlersOK'
  BY <1>1, <1>7, ReportTypes DEF Statuses, Active, Over
<1>8. CASE Tell(h)
  <2>1. PICK c \in news[h].calls :
          /\ notice' = [notice EXCEPT ![c] = [u \in Users |->
               IF u \in news[h].to /\ @[u] # "none" THEN news[h].status ELSE @[u]]]
          /\ \/ /\ news' = [news EXCEPT ![h].calls = news[h].calls \ {c}]
                /\ UNCHANGED <<stage, job, seen, ops>>
             \/ /\ news' = [news EXCEPT ![h] = NoNews]
                /\ stage' = [stage EXCEPT ![h] = "looking"]
                /\ UNCHANGED <<job, seen, ops>>
             \/ Finish(h)
    BY <1>8 DEF Tell
  <2>2. UNCHANGED <<callVars, peopleVars, failures>>
    BY <1>8 DEF Tell
  <2>3. notice' \in [Ids -> [Users -> Statuses]]
    BY <1>1, <1>2, <2>1 DEF RowsOK, News
  <2>4. RowsOK'
    BY <1>1, <2>2, <2>3 DEF RowsOK, callVars, peopleVars
  <2>5. HandlersOK'
    <3>1. CASE /\ news' = [news EXCEPT ![h].calls = news[h].calls \ {c}]
               /\ UNCHANGED <<stage, job, seen, ops>>
      <4>1. news' \in [Handlers -> News]
        BY <1>1, <1>2, <3>1 DEF HandlersOK, News
      <4> QED
        BY <1>1, <2>2, <3>1, <4>1 DEF HandlersOK
    <3>2. CASE /\ news' = [news EXCEPT ![h] = NoNews]
               /\ stage' = [stage EXCEPT ![h] = "looking"]
               /\ UNCHANGED <<job, seen, ops>>
      BY <1>1, <2>2, <3>2, NoTypes DEF HandlersOK, Stages
    <3>3. CASE Finish(h)
      BY <1>1, <1>5, <2>2, <3>3 DEF HandlersOK
    <3> QED
      BY <2>1, <3>1, <3>2, <3>3
  <2> QED
    BY <2>4, <2>5, TypeParts
<1>9. CASE Quit(h) \/ Crash(h)
  <2>1. RowsOK'
    BY <1>3, <1>9 DEF Quit, Crash
  <2>2. HandlersOK'
    BY <1>1, <1>5, <1>6, <1>9 DEF Quit, Crash, HandlersOK
  <2> QED
    BY <2>1, <2>2, TypeParts
<1>10. CASE LookForCall(h)
  <2>1. RowsOK'
    BY <1>3, <1>10 DEF LookForCall
  <2>2. HandlersOK'
    BY <1>1, <1>4, <1>10 DEF LookForCall, HandlersOK, Stages
  <2> QED
    BY <2>1, <2>2, TypeParts
<1>11. CASE FindMeeting(h)
  <2>1. PICK c \in Ids : /\ job' = [job EXCEPT ![h].call = c]
                         /\ seen' = [seen EXCEPT ![h].status = status[c]]
    BY <1>11 DEF FindMeeting
  <2>2. job' \in [Handlers -> Jobs]
    BY <1>1, <2>1 DEF HandlersOK, Jobs
  <2>3. seen' \in [Handlers -> Views]
    BY <1>1, <1>2, <2>1 DEF HandlersOK, RowsOK, Views
  <2>4. HandlersOK'
    BY <1>1, <1>11, <2>2, <2>3 DEF FindMeeting, HandlersOK, Stages
  <2>5. RowsOK'
    BY <1>3, <1>11 DEF FindMeeting
  <2> QED
    BY <2>4, <2>5, TypeParts
<1>12. CASE Create(h)
  <2> DEFINE u == job[h].user
             isMeeting == job[h].op = "meet"
  <2>1. PICK c \in Ids, P \in SUBSET (IF isMeeting THEN Attendees ELSE Members) :
          /\ status' = [status EXCEPT ![c] = "ringing"]
          /\ caller' = [caller EXCEPT ![c] = u]
          /\ meeting' = [meeting EXCEPT ![c] = isMeeting]
          /\ invited' = [invited EXCEPT ![c] = P \cup {u}]
          /\ joined' = [joined EXCEPT ![c] = {u}]
          /\ job' = [job EXCEPT ![h].call = c]
    BY <1>12 DEF Create
  <2>2. P \subseteq Users
    BY ConstantsAssumption DEF Attendees, Members
  <2>3. isMeeting \in BOOLEAN
    OBVIOUS
  <2>4. meeting' \in [Ids -> BOOLEAN]
    BY <1>1, <2>1, <2>3 DEF RowsOK
  <2>5. status' \in [Ids -> Statuses] /\ caller' \in [Ids -> Users \cup {Nobody}]
    BY <1>1, <1>2, <2>1 DEF RowsOK, Statuses, Active
  <2>6. invited' \in [Ids -> SUBSET Users] /\ joined' \in [Ids -> SUBSET Users]
    BY <1>1, <1>2, <2>1, <2>2 DEF RowsOK
  <2>7. RowsOK'
    BY <1>1, <1>12, <2>4, <2>5, <2>6 DEF RowsOK, Create
  <2>8. job' \in [Handlers -> Jobs]
    BY <1>1, <2>1 DEF HandlersOK, Jobs
  <2>9. HandlersOK'
    BY <1>1, <1>12, <2>8 DEF HandlersOK, Create, Stages
  <2> QED
    BY <2>7, <2>9, TypeParts
<1>13. CASE Announce(h)
  <2>1. notice' \in [Ids -> [Users -> Statuses]]
    BY <1>1, <1>2, <1>13 DEF RowsOK, Announce, Statuses, Active
  <2>2. RowsOK'
    BY <1>1, <1>13, <2>1 DEF RowsOK, Announce, callVars, peopleVars
  <2>3. HandlersOK'
    BY <1>1, <1>5, <1>13 DEF Announce, HandlersOK
  <2> QED
    BY <2>2, <2>3, TypeParts
<1>14. CASE Enter(h)
  <2>1. invited' \in [Ids -> SUBSET Users]
    BY <1>1, <1>2, <1>14 DEF RowsOK, Enter
  <2>2. RowsOK'
    BY <1>1, <1>14, <2>1 DEF RowsOK, Enter, callVars
  <2>3. HandlersOK'
    BY <1>1, <1>4, <1>14 DEF Enter, HandlersOK, Stages
  <2> QED
    BY <2>2, <2>3, TypeParts
<1>15. CASE JoinRow(h)
  <2>1. joined' \in [Ids -> SUBSET Users] /\ left' \in [Ids -> SUBSET Users]
    BY <1>1, <1>2, <1>15 DEF RowsOK, JoinRow
  <2>2. RowsOK'
    BY <1>1, <1>15, <2>1 DEF RowsOK, JoinRow, callVars
  <2>3. HandlersOK'
    BY <1>1, <1>4, <1>15 DEF JoinRow, HandlersOK, Stages
  <2> QED
    BY <2>2, <2>3, TypeParts
<1>16. ASSUME NEW c \in Ids, AnswerRow(c)
       PROVE  status' \in [Ids -> Statuses] /\ answered' \in [Ids -> BOOLEAN]
  BY <1>1, <1>16 DEF AnswerRow, RowsOK, Statuses, Active
<1>17. CASE AnswerJoin(h)
  <2>1. RowsOK'
    BY <1>1, <1>2, <1>16, <1>17 DEF AnswerJoin, RowsOK, peopleVars
  <2>2. HandlersOK'
    BY <1>7, <1>17 DEF AnswerJoin
  <2> QED
    BY <2>1, <2>2, TypeParts
<1>18. CASE AnswerMeeting(h)
  <2>1. status' \in [Ids -> Statuses] /\ answered' \in [Ids -> BOOLEAN]
    BY <1>1, <1>2, <1>16, <1>18 DEF AnswerMeeting, RowsOK
  <2>2. RowsOK'
    BY <1>1, <1>18, <2>1 DEF AnswerMeeting, RowsOK, peopleVars
  <2>3. HandlersOK'
    BY <1>1, <1>5, <1>7, <1>18 DEF AnswerMeeting, HandlersOK
  <2> QED
    BY <2>2, <2>3, TypeParts
<1>19. CASE SkipRow(h)
  <2>1. RowsOK'
    BY <1>3, <1>19 DEF SkipRow
  <2>2. HandlersOK'
    BY <1>1, <1>6, <1>19 DEF SkipRow, HandlersOK, Stages
  <2> QED
    BY <2>1, <2>2, TypeParts
<1>20. CASE SkipAnswer(h)
  <2>1. RowsOK'
    BY <1>3, <1>20 DEF SkipAnswer
  <2>2. [calls |-> {job[h].call}, status |-> "answered", to |-> Users] \in News
    BY <1>2 DEF News, Statuses, Active
  <2>3. HandlersOK'
    BY <1>1, <1>6, <1>20, <2>2 DEF SkipAnswer, HandlersOK, Stages
  <2> QED
    BY <2>1, <2>3, TypeParts
<1>21. CASE LockDecline(h)
  <2>1. RowsOK'
    BY <1>3, <1>21 DEF LockDecline
  <2>2. seen' \in [Handlers -> Views]
    BY <1>1, <1>2, <1>21 DEF LockDecline, HandlersOK, RowsOK, Views
  <2>3. HandlersOK'
    BY <1>4, <1>21, <2>2 DEF LockDecline, Stages
  <2> QED
    BY <2>1, <2>3, TypeParts
<1>22. CASE WriteDecline(h)
  <2>1. left' \in [Ids -> SUBSET Users] /\ status' \in [Ids -> Statuses]
    BY <1>1, <1>2, <1>22 DEF WriteDecline, RowsOK, Statuses, Over
  <2>2. RowsOK'
    BY <1>1, <1>22, <2>1 DEF WriteDecline, RowsOK
  <2>3. HandlersOK'
    BY <1>2, <1>7, <1>22 DEF WriteDecline
  <2> QED
    BY <2>2, <2>3, TypeParts
<1>23. CASE CountOthers(h)
  <2>1. Cardinality((joined[job[h].call] \ left[job[h].call]) \ {job[h].user}) \in Nat
    <3>1. (joined[job[h].call] \ left[job[h].call]) \ {job[h].user} \subseteq Users
      BY <1>1, <1>2 DEF RowsOK
    <3> QED
      BY <3>1, ConstantsAssumption, FS_Subset, FS_CardinalityType
  <2>2. RowsOK'
    BY <1>3, <1>23 DEF CountOthers
  <2>3. seen' \in [Handlers -> Views]
    BY <1>1, <1>2, <1>23, <2>1 DEF CountOthers, HandlersOK, Views
  <2>4. HandlersOK'
    BY <1>4, <1>23, <2>3 DEF CountOthers, Stages
  <2> QED
    BY <2>2, <2>4, TypeParts
<1>24. CASE WriteEnd(h)
  <2>1. left' \in [Ids -> SUBSET Users] /\ status' \in [Ids -> Statuses]
    BY <1>1, <1>2, <1>24 DEF WriteEnd, StatusAfter, RowsOK, Statuses, Over
  <2>2. RowsOK'
    BY <1>1, <1>24, <2>1 DEF WriteEnd, RowsOK
  <2>3. HandlersOK'
    BY <1>1, <1>5, <1>7, <1>24 DEF WriteEnd, HandlersOK
  <2> QED
    BY <2>2, <2>3, TypeParts
<1> QED
  BY <1>8, <1>9, <1>10, <1>11, <1>12, <1>13, <1>14, <1>15, <1>17, <1>18, <1>19, <1>20,
     <1>21, <1>22, <1>23, <1>24 DEF Continue

(* Every step keeps the types.                                             *)
LEMMA TypeStep == TypeOK /\ [Next]_vars => TypeOK'
<1> SUFFICES ASSUME TypeOK, [Next]_vars PROVE TypeOK'
  OBVIOUS
<1>1. ASSUME NEW c \in Ids, Grow(c)
      PROVE  TypeOK'
  BY <1>1 DEF Grow, TypeOK, peopleVars
<1>2. CASE UNCHANGED vars
  BY <1>2 DEF TypeOK, vars, callVars, peopleVars
<1> QED
  BY <1>1, <1>2, BeginTypes, ContinueTypes DEF Next
-----------------------------------------------------------------------------
(* What the handlers rely on.                                              *)

(* What another step may do to the calls k is at work with.                *)
Undisturbed(k) ==
  /\ InTx(k) => status'[job[k].call] = status[job[k].call]
  /\ \A c \in Ids : status[c] \in Over => status'[c] = status[c]
  /\ \A c \in Ids : status[c] # "none" => caller'[c] = caller[c] /\ status'[c] # "none"

(* The handlers other than h stay where they are.                          *)
OthersWait(h) ==
  \A k \in Handlers \ {h} : /\ stage'[k] = stage[k] /\ job'[k] = job[k]
                            /\ seen'[k] = seen[k] /\ news'[k] = news[k]

(* A handler that another step leaves alone stays sound.                   *)
LEMMA HandlerKept ==
  ASSUME TypeOK, NEW k \in Handlers, HandlerSound(k), Undisturbed(k),
         stage'[k] = stage[k], job'[k] = job[k], seen'[k] = seen[k], news'[k] = news[k]
  PROVE  HandlerSound(k)'
<1>1. job[k].call \in Ids /\ news[k].calls \subseteq Ids
  BY DEF TypeOK, Jobs, News
<1>2. InTx(k)' <=> InTx(k)
  BY DEF InTx
<1>3. InTx(k) => status[job[k].call] # "none"
  BY DEF HandlerSound, Active
<1>4. (InTx(k) => status[job[k].call] \in Active)'
  BY <1>2 DEF HandlerSound, Undisturbed
<1>5. (stage[k] \in {"snapped", "locked"} /\ job[k].op = "decline" =>
         caller[job[k].call] # job[k].user /\ status[job[k].call] # "none")'
  BY <1>1 DEF HandlerSound, Undisturbed
<1>6. (stage[k] = "locked" /\ job[k].op = "decline" => seen[k].status = status[job[k].call])'
  BY DEF HandlerSound, Undisturbed, InTx
<1>7. (stage[k] = "counted" => job[k].user = caller[job[k].call] \/ seen[k].count # 0)'
  BY <1>1, <1>3 DEF HandlerSound, Undisturbed, InTx
<1>8. (\A c \in news[k].calls :
         news[k].status \in {"missed", "ended"} => status[c] = news[k].status)'
  BY <1>1 DEF HandlerSound, Undisturbed, Over
<1> QED
  BY <1>4, <1>5, <1>6, <1>7, <1>8 DEF HandlerSound

(* A handler that finishes has nothing left to rely on.                    *)
LEMMA FinishSound ==
  ASSUME TypeOK, NEW h \in Handlers, Finish(h)
  PROVE  HandlerSound(h)' /\ OthersWait(h) /\ ~InTx(h)'
<1>1. stage'[h] = "idle" /\ news'[h] = NoNews
  BY DEF Finish, TypeOK
<1>2. OthersWait(h)
  BY DEF Finish, TypeOK, OthersWait
<1> QED
  BY <1>1, <1>2 DEF HandlerSound, InTx, NoNews

(* A handler that reports a change which has happened.                     *)
LEMMA ReportSound ==
  ASSUME TypeOK, NEW h \in Handlers, NEW s, NEW to, Report(h, s, to),
         s \in {"missed", "ended"} => status'[job[h].call] = s
  PROVE  HandlerSound(h)' /\ OthersWait(h) /\ ~InTx(h)'
<1>1. /\ stage'[h] = "telling" /\ job' = job /\ seen' = seen
      /\ news'[h] = [calls |-> {job[h].call}, status |-> s, to |-> to]
  BY DEF Report, GoTo, TypeOK
<1>2. OthersWait(h)
  BY DEF Report, GoTo, TypeOK, OthersWait
<1> QED
  BY <1>1, <1>2 DEF HandlerSound, InTx

(* Where calls and callers do not change, everybody is undisturbed.        *)
LEMMA Calm ==
  ASSUME UNCHANGED <<status, caller>>, NEW k \in Handlers
  PROVE  Undisturbed(k)
BY DEF Undisturbed

(* expireRingingCalls waits for the transactions in progress.              *)
LEMMA ExpireSound ==
  ASSUME TypeOK, NEW h \in Handlers, NEW j, NEW scope \in SUBSET Ids, Expire(h, j, scope)
  PROVE  /\ HandlerSound(h)' /\ OthersWait(h) /\ ~InTx(h)'
         /\ \A k \in Handlers : Undisturbed(k)
<1> DEFINE late == {c \in scope : Late(c)}
<1>1. /\ \A c \in late : ~Locked(c)
      /\ status' = [c \in Ids |-> IF c \in late THEN "missed" ELSE status[c]]
      /\ caller' = caller
  BY DEF Expire
<1>2. \A c \in late : status[c] = "ringing"
  BY DEF Late
<1>3. ASSUME NEW k \in Handlers
      PROVE  Undisturbed(k)
  <2>1. job[k].call \in Ids
    BY DEF TypeOK, Jobs
  <2>2. InTx(k) => job[k].call \notin late
    BY <1>1 DEF Locked, InTx
  <2> QED
    BY <1>1, <1>2, <2>1, <2>2 DEF Undisturbed, Over
<1>4. /\ stage'[h] \in {"looking", "expiring"}
      /\ news'[h] \in {NoNews, [calls |-> late, status |-> "missed", to |-> Users]}
  BY DEF Expire, Start, TypeOK
<1>5. OthersWait(h)
  BY DEF Expire, Start, TypeOK, OthersWait
<1>6. \A c \in late : status'[c] = "missed"
  BY <1>1
<1>7. HandlerSound(h)' /\ ~InTx(h)'
  BY <1>4, <1>6 DEF HandlerSound, InTx, NoNews
<1> QED
  BY <1>3, <1>5, <1>7

(* Only who holds a call, or nobody, changes a call that rings.            *)
LEMMA AnswerSound ==
  ASSUME TypeOK, NEW c \in Ids, AnswerRow(c), caller' = caller, NEW k \in Handlers
  PROVE  Undisturbed(k)
<1>1. CASE UNCHANGED status
  BY <1>1 DEF Undisturbed
<1>2. CASE status[c] = "ringing" /\ ~Locked(c) /\ status' = [status EXCEPT ![c] = "answered"]
  <2>1. InTx(k) => job[k].call # c
    BY <1>2 DEF Locked, InTx
  <2> QED
    BY <1>2, <2>1 DEF Undisturbed, Over, TypeOK
<1> QED
  BY <1>1, <1>2 DEF AnswerRow, Answerable

(* What a transaction does to its call disturbs nobody else.               *)
LEMMA HolderSound ==
  ASSUME TypeOK, LocksExclusive, HandlersSound, NEW h \in Handlers, InTx(h),
         NEW s \in Statuses \ {"none"}, caller' = caller,
         status' = status \/ status' = [status EXCEPT ![job[h].call] = s],
         NEW k \in Handlers \ {h}
  PROVE  Undisturbed(k)
<1>1. job[h].call \in Ids /\ job[k].call \in Ids
  BY DEF TypeOK, Jobs
<1>2. InTx(k) => job[k].call # job[h].call
  BY DEF LocksExclusive
<1>3. status[job[h].call] \in Active
  BY DEF HandlersSound, HandlerSound
<1> QED
  BY <1>1, <1>2, <1>3 DEF Undisturbed, TypeOK, Active, Over

(* A handler takes the row of a call only while nobody holds it.           *)
TakesFree(h) ==
  InTx(h)' => \/ InTx(h) /\ job'[h].call = job[h].call
              \/ ~Locked(job'[h].call)

(* A step of one handler that is sound keeps all of them so.               *)
LEMMA OneMoves ==
  ASSUME TypeOK, LocksExclusive, HandlersSound, NEW h \in Handlers,
         HandlerSound(h)', OthersWait(h), TakesFree(h),
         \A k \in Handlers \ {h} : Undisturbed(k)
  PROVE  HandlersSound' /\ LocksExclusive'
<1>1. ASSUME NEW k \in Handlers \ {h}
      PROVE  HandlerSound(k)'
  BY HandlerKept DEF HandlersSound, OthersWait
<1>2. \A k \in Handlers \ {h} : (InTx(k)' <=> InTx(k)) /\ job'[k] = job[k]
  BY DEF OthersWait, InTx
<1>3. ASSUME NEW k \in Handlers \ {h}, InTx(h)', InTx(k)', job'[h].call = job'[k].call
      PROVE  FALSE
  <2>1. InTx(k) /\ job[k].call = job'[h].call
    BY <1>2, <1>3
  <2>2. Locked(job'[h].call)
    BY <2>1 DEF Locked, InTx
  <2> QED
    BY <1>3, <2>1, <2>2 DEF TakesFree, LocksExclusive
<1>4. LocksExclusive'
  <2> SUFFICES ASSUME NEW i \in Handlers, NEW k \in Handlers,
                      InTx(i)', InTx(k)', job'[i].call = job'[k].call
               PROVE  i = k
    BY DEF LocksExclusive
  <2>1. CASE i # h /\ k # h
    BY <1>2, <2>1 DEF LocksExclusive
  <2>2. CASE i = h \/ k = h
    BY <1>3, <2>2
  <2> QED
    BY <2>1, <2>2
<1> QED
  BY <1>1, <1>4 DEF HandlersSound

(* Counting the others of a call that goes on finds at least its caller.   *)
LEMMA CallerCounted ==
  ASSUME TypeOK, CallerPresent, NEW c \in Ids, status[c] \in Active, NEW u \in Users,
         caller[c] # u
  PROVE  Cardinality((joined[c] \ left[c]) \ {u}) # 0
<1>1. caller[c] \in (joined[c] \ left[c]) \ {u}
  BY DEF CallerPresent
<1>2. (joined[c] \ left[c]) \ {u} \subseteq Users
  BY DEF TypeOK
<1>3. IsFiniteSet((joined[c] \ left[c]) \ {u})
  BY <1>2, ConstantsAssumption, FS_Subset
<1> QED
  BY <1>1, <1>3, FS_EmptySet

(* Every step keeps what the handlers rely on, and their locks.            *)
LEMMA HandlersStep ==
  TypeOK /\ LocksExclusive /\ HandlersSound /\ CallerPresent /\ [Next]_vars
    => HandlersSound' /\ LocksExclusive'
<1> SUFFICES ASSUME TypeOK, LocksExclusive, HandlersSound, CallerPresent, [Next]_vars
             PROVE  HandlersSound' /\ LocksExclusive'
  OBVIOUS
<1>1. ASSUME NEW h \in Handlers, HandlerSound(h)', OthersWait(h), ~InTx(h)',
             \A k \in Handlers \ {h} : Undisturbed(k)
      PROVE  HandlersSound' /\ LocksExclusive'
  BY <1>1, OneMoves DEF TakesFree
<1>2. ASSUME NEW h \in Handlers, NEW j, NEW scope \in SUBSET Ids, Expire(h, j, scope)
      PROVE  HandlersSound' /\ LocksExclusive'
  BY <1>1, <1>2, ExpireSound
<1>3. ASSUME NEW h \in Handlers, Finish(h), UNCHANGED <<status, caller>>
      PROVE  HandlersSound' /\ LocksExclusive'
  BY <1>1, <1>3, FinishSound, Calm
<1>4. ASSUME NEW h \in Handlers, UNCHANGED <<status, caller>>, OthersWait(h),
             stage'[h] \in {"looking", "creating", "announcing", "entering", "admitted", "joined"},
             news'[h] = NoNews \/ news'[h] = news[h]
      PROVE  HandlersSound' /\ LocksExclusive'
  <2>1. HandlerSound(h)' /\ ~InTx(h)'
    BY <1>4 DEF HandlersSound, HandlerSound, InTx, NoNews
  <2> QED
    BY <1>1, <1>4, <2>1, Calm
<1>5. ASSUME NEW h \in Handlers, Begin(h)
      PROVE  HandlersSound' /\ LocksExclusive'
  <2>1. ASSUME NEW S \in {Ids} \cup {{c} : c \in Ids}, Poll(h, S)
        PROVE  HandlersSound' /\ LocksExclusive'
    BY <1>2, <2>1 DEF Poll
  <2>2. ASSUME NEW u \in Users, BeginStart(h, u) \/ BeginMeet(h, u)
        PROVE  HandlersSound' /\ LocksExclusive'
    <3>1. Ids \in SUBSET Ids
      OBVIOUS
    <3> QED
      BY <1>2, <2>2, <3>1 DEF BeginStart, BeginMeet
  <2>3. ASSUME NEW u \in Users, NEW c \in Ids, BeginJoin(h, u, c)
        PROVE  HandlersSound' /\ LocksExclusive'
    <3>1. OthersWait(h) /\ stage'[h] = "admitted" /\ news' = news
      BY <2>3 DEF BeginJoin, Start, OthersWait, TypeOK
    <3>2. UNCHANGED <<status, caller>>
      BY <2>3 DEF BeginJoin, callVars
    <3> QED
      BY <1>4, <3>1, <3>2
  <2>4. ASSUME NEW u \in Users, NEW c \in Ids, BeginDecline(h, u, c)
        PROVE  HandlersSound' /\ LocksExclusive'
    <3>1. OthersWait(h) /\ stage'[h] = "snapped" /\ job'[h] = Job("decline", u, c)
      BY <2>4 DEF BeginDecline, Start, OthersWait, TypeOK
    <3>2. UNCHANGED <<status, caller, news>> /\ caller[c] # u /\ status[c] # "none"
      BY <2>4 DEF BeginDecline, Declinable, callVars
    <3>3. HandlerSound(h)' /\ ~InTx(h)'
      BY <3>1, <3>2 DEF HandlersSound, HandlerSound, InTx, Job
    <3> QED
      BY <1>1, <3>1, <3>2, <3>3, Calm
  <2>5. ASSUME NEW u \in Users, NEW c \in Ids, BeginEnd(h, u, c)
        PROVE  HandlersSound' /\ LocksExclusive'
    <3>1. OthersWait(h) /\ stage'[h] = "locked" /\ job'[h] = Job("end", u, c)
      BY <2>5 DEF BeginEnd, Start, OthersWait, TypeOK
    <3>2. UNCHANGED <<status, caller, news>> /\ status[c] \in Active /\ ~Locked(c)
      BY <2>5 DEF BeginEnd, callVars
    <3>3. HandlerSound(h)' /\ TakesFree(h)
      BY <3>1, <3>2 DEF HandlersSound, HandlerSound, InTx, Job, TakesFree
    <3> QED
      BY <3>1, <3>2, <3>3, OneMoves, Calm
  <2> QED
    BY <1>5, <2>1, <2>2, <2>3, <2>4, <2>5 DEF Begin
<1>6. ASSUME NEW h \in Handlers, Tell(h)
      PROVE  HandlersSound' /\ LocksExclusive'
  <2>1. PICK c \in news[h].calls :
             \/ /\ news' = [news EXCEPT ![h].calls = news[h].calls \ {c}]
                /\ UNCHANGED <<stage, job, seen, ops>>
             \/ /\ news' = [news EXCEPT ![h] = NoNews]
                /\ stage' = [stage EXCEPT ![h] = "looking"]
                /\ UNCHANGED <<job, seen, ops>>
             \/ Finish(h)
    BY <1>6 DEF Tell
  <2>2. UNCHANGED <<status, caller>> /\ stage[h] \in {"expiring", "telling"}
    BY <1>6 DEF Tell, callVars
  <2>3. CASE /\ news' = [news EXCEPT ![h].calls = news[h].calls \ {c}]
             /\ UNCHANGED <<stage, job, seen, ops>>
    <3>1. news'[h].calls \subseteq news[h].calls /\ news'[h].status = news[h].status
      BY <2>3 DEF TypeOK, News
    <3>2. HandlerSound(h)' /\ ~InTx(h)'
      BY <2>2, <2>3, <3>1 DEF HandlersSound, HandlerSound, InTx
    <3>3. OthersWait(h)
      BY <2>3 DEF OthersWait, TypeOK
    <3> QED
      BY <1>1, <2>2, <3>2, <3>3, Calm
  <2>4. CASE /\ news' = [news EXCEPT ![h] = NoNews]
             /\ stage' = [stage EXCEPT ![h] = "looking"]
             /\ UNCHANGED <<job, seen, ops>>
    <3>1. OthersWait(h) /\ stage'[h] = "looking" /\ news'[h] = NoNews
      BY <2>4 DEF OthersWait, TypeOK
    <3> QED
      BY <1>4, <2>2, <3>1
  <2>5. CASE Finish(h)
    BY <1>3, <2>2, <2>5
  <2> QED
    BY <2>1, <2>3, <2>4, <2>5
<1>7. ASSUME NEW h \in Handlers, Quit(h) \/ Crash(h) \/ Announce(h)
      PROVE  HandlersSound' /\ LocksExclusive'
  BY <1>3, <1>7 DEF Quit, Crash, Announce, callVars
<1>8. ASSUME NEW h \in Handlers,
             LookForCall(h) \/ FindMeeting(h) \/ Enter(h) \/ JoinRow(h) \/ SkipRow(h)
      PROVE  HandlersSound' /\ LocksExclusive'
  <2>1. OthersWait(h)
    BY <1>8 DEF LookForCall, FindMeeting, Enter, JoinRow, SkipRow, GoTo, OthersWait, TypeOK
  <2>2. stage'[h] \in {"creating", "entering", "admitted", "joined"} /\ news' = news
    BY <1>8 DEF LookForCall, FindMeeting, Enter, JoinRow, SkipRow, GoTo, TypeOK
  <2>3. UNCHANGED <<status, caller>>
    BY <1>8 DEF LookForCall, FindMeeting, Enter, JoinRow, SkipRow, callVars
  <2> QED
    BY <1>4, <2>1, <2>2, <2>3
<1>9. ASSUME NEW h \in Handlers, Create(h)
      PROVE  HandlersSound' /\ LocksExclusive'
  <2>1. PICK c \in Ids : /\ status[c] = "none"
                         /\ status' = [status EXCEPT ![c] = "ringing"]
                         /\ caller' = [caller EXCEPT ![c] = job[h].user]
                         /\ job' = [job EXCEPT ![h].call = c]
    BY <1>9 DEF Create
  <2>2. stage' = [stage EXCEPT ![h] = "announcing"] /\ UNCHANGED <<seen, news>>
    BY <1>9 DEF Create
  <2>3. OthersWait(h) /\ stage'[h] = "announcing"
    BY <2>1, <2>2 DEF OthersWait, TypeOK
  <2>4. \A k \in Handlers : Undisturbed(k)
    BY <2>1 DEF Undisturbed, HandlersSound, HandlerSound, TypeOK, Active, Over
  <2>5. HandlerSound(h)' /\ ~InTx(h)'
    BY <2>1, <2>2, <2>3 DEF HandlersSound, HandlerSound, InTx, TypeOK, News
  <2> QED
    BY <1>1, <2>3, <2>4, <2>5
<1>10. ASSUME NEW h \in Handlers, AnswerJoin(h) \/ AnswerMeeting(h)
       PROVE  HandlersSound' /\ LocksExclusive'
  <2>1. job[h].call \in Ids
    BY DEF TypeOK, Jobs
  <2>2. caller' = caller /\ (AnswerRow(job[h].call) \/ UNCHANGED status)
    BY <1>10 DEF AnswerJoin, AnswerMeeting
  <2>3. \A k \in Handlers : Undisturbed(k)
    BY <2>1, <2>2, AnswerSound, Calm
  <2>4. Report(h, "answered", Users) \/ Finish(h)
    BY <1>10 DEF AnswerJoin, AnswerMeeting
  <2>5. HandlerSound(h)' /\ OthersWait(h) /\ ~InTx(h)'
    BY <2>4, ReportSound, FinishSound
  <2> QED
    BY <1>1, <2>3, <2>5
<1>11. ASSUME NEW h \in Handlers, SkipAnswer(h)
       PROVE  HandlersSound' /\ LocksExclusive'
  <2>1. UNCHANGED <<status, caller>> /\ OthersWait(h)
    BY <1>11 DEF SkipAnswer, OthersWait, TypeOK, callVars
  <2>2. stage'[h] = "telling" /\ news'[h].status = "answered"
    BY <1>11 DEF SkipAnswer, TypeOK
  <2>3. HandlerSound(h)' /\ ~InTx(h)'
    BY <2>2 DEF HandlerSound, InTx
  <2> QED
    BY <1>1, <2>1, <2>3, Calm
<1>12. ASSUME NEW h \in Handlers, LockDecline(h)
       PROVE  HandlersSound' /\ LocksExclusive'
  <2> DEFINE c == job[h].call
  <2>1. /\ stage[h] = "snapped" /\ stage'[h] = "locked"
        /\ UNCHANGED <<status, caller, job, news>> /\ OthersWait(h)
        /\ seen'[h].status = status[c]
    BY <1>12 DEF LockDecline, GoTo, OthersWait, TypeOK, Views, callVars
  <2>2. ~Locked(c) /\ status[c] \in Active
    BY <1>12 DEF LockDecline, Declinable, Active
  <2>3. HandlerSound(h)
    BY DEF HandlersSound
  <2>4. HandlerSound(h)' /\ TakesFree(h)
    BY <2>1, <2>2, <2>3 DEF HandlerSound, InTx, TakesFree
  <2> QED
    BY <2>1, <2>4, OneMoves, Calm
<1>13. ASSUME NEW h \in Handlers, CountOthers(h)
       PROVE  HandlersSound' /\ LocksExclusive'
  <2> DEFINE c == job[h].call
             others == (joined[c] \ left[c]) \ {job[h].user}
  <2>1. /\ stage[h] = "locked" /\ stage'[h] = "counted"
        /\ UNCHANGED <<status, caller, job, news>> /\ OthersWait(h)
        /\ seen'[h].count = Cardinality(others)
    BY <1>13 DEF CountOthers, GoTo, OthersWait, TypeOK, Views, callVars
  <2>2. HandlerSound(h) /\ status[c] \in Active
    BY <2>1 DEF HandlersSound, HandlerSound, InTx
  <2>3. caller[c] # job[h].user => Cardinality(others) # 0
    BY <2>2, CallerCounted DEF TypeOK, Jobs
  <2>4. HandlerSound(h)' /\ TakesFree(h)
    BY <2>1, <2>2, <2>3 DEF HandlerSound, InTx, TakesFree
  <2> QED
    BY <2>1, <2>4, OneMoves, Calm
<1>14. ASSUME NEW h \in Handlers, WriteDecline(h) \/ WriteEnd(h)
       PROVE  HandlersSound' /\ LocksExclusive'
  <2>1. InTx(h) /\ caller' = caller
    BY <1>14 DEF WriteDecline, WriteEnd, InTx
  <2>2. \E s \in {"declined", "ended"} :
          status' = status \/ status' = [status EXCEPT ![job[h].call] = s]
    BY <1>14 DEF WriteDecline, WriteEnd, StatusAfter, TypeOK
  <2>3. \A k \in Handlers \ {h} : Undisturbed(k)
    BY <2>1, <2>2, HolderSound DEF Statuses, Over
  <2>4. CASE WriteDecline(h)
    <3>1. PICK s \in {"declined", "answered"}, to \in SUBSET Users : Report(h, s, to)
      BY <2>4 DEF WriteDecline, TypeOK, Jobs
    <3>2. HandlerSound(h)' /\ OthersWait(h) /\ ~InTx(h)'
      BY <3>1, ReportSound
    <3> QED
      BY <1>1, <2>3, <3>2
  <2>5. CASE WriteEnd(h)
    <3>1. \/ Finish(h)
          \/ Report(h, "ended", Users) /\ status'[job[h].call] = "ended"
      <4>1. CASE EndsCall(job[h].user, job[h].call, seen[h].count)
        <5>1. Report(h, "ended", Users)
          BY <2>5, <4>1 DEF WriteEnd
        <5>2. status' = [status EXCEPT ![job[h].call] = "ended"]
          BY <2>5, <4>1 DEF WriteEnd, StatusAfter
        <5> QED
          BY <5>1, <5>2 DEF TypeOK, Jobs
      <4>2. CASE ~EndsCall(job[h].user, job[h].call, seen[h].count)
        BY <2>5, <4>2 DEF WriteEnd
      <4> QED
        BY <4>1, <4>2
    <3>2. HandlerSound(h)' /\ OthersWait(h) /\ ~InTx(h)'
      BY <3>1, ReportSound, FinishSound
    <3> QED
      BY <1>1, <2>3, <3>2
  <2> QED
    BY <1>14, <2>4, <2>5
<1>15. ASSUME UNCHANGED <<status, caller, stage, job, seen, news>>
       PROVE  HandlersSound' /\ LocksExclusive'
  <2>1. \A k \in Handlers : HandlerSound(k)'
    BY <1>15, HandlerKept, Calm DEF HandlersSound
  <2>2. LocksExclusive'
    BY <1>15 DEF LocksExclusive, InTx
  <2> QED
    BY <2>1, <2>2 DEF HandlersSound
<1>16. ASSUME NEW h \in Handlers, Continue(h)
       PROVE  HandlersSound' /\ LocksExclusive'
  BY <1>6, <1>7, <1>8, <1>9, <1>10, <1>11, <1>12, <1>13, <1>14, <1>16 DEF Continue
<1> QED
  BY <1>5, <1>15, <1>16 DEF Next, Grow, vars, callVars
-----------------------------------------------------------------------------
(* The life of a call.                                                     *)

(* Answering a call is a step of its life.                                 *)
LEMMA AnswerLives ==
  ASSUME TypeOK, NEW c \in Ids, AnswerRow(c)
  PROVE  Life!Answer(c) \/ UNCHANGED <<status, answered>>
BY DEF AnswerRow, Answerable, Life!Answer

(* Expiring calls is one, too.                                             *)
LEMMA ExpireLives ==
  ASSUME TypeOK, NEW h \in Handlers, NEW j, NEW scope \in SUBSET Ids, Expire(h, j, scope)
  PROVE  Life!Next
<1> DEFINE late == {c \in scope : Late(c)}
<1>1. /\ \A c \in late : status[c] = "ringing"
      /\ status' = [c \in Ids |-> IF c \in late THEN "missed" ELSE status[c]]
      /\ answered' = answered
  BY DEF Expire, Late
<1>2. late \in SUBSET Ids /\ Life!Miss(late)
  BY <1>1 DEF Life!Miss
<1> QED
  BY <1>2 DEF Life!Next

(* Every step is a step of the life of the calls, or leaves them alone.    *)
LEMMA LifeStep ==
  ASSUME TypeOK, HandlersSound, [Next]_vars
  PROVE  [Life!Next]_(Life!lifeVars)
<1> SUFFICES Life!Next \/ UNCHANGED <<status, answered>>
  BY DEF Life!lifeVars
<1>1. ASSUME NEW h \in Handlers, Begin(h)
      PROVE  Life!Next \/ UNCHANGED <<status, answered>>
  <2>1. Ids \in SUBSET Ids /\ \A S \in {Ids} \cup {{c} : c \in Ids} : S \in SUBSET Ids
    OBVIOUS
  <2>2. ASSUME NEW j, NEW S \in SUBSET Ids, Expire(h, j, S)
        PROVE  Life!Next
    BY <2>2, ExpireLives
  <2> QED
    BY <1>1, <2>1, <2>2
    DEF Begin, Poll, BeginStart, BeginMeet, BeginJoin, BeginDecline, BeginEnd, callVars
<1>2. ASSUME NEW h \in Handlers, Create(h)
      PROVE  Life!Next
  <2>1. PICK c \in Ids : status[c] = "none" /\ status' = [status EXCEPT ![c] = "ringing"]
    BY <1>2 DEF Create
  <2>2. answered' = answered
    BY <1>2 DEF Create
  <2>3. Life!Ring(c)
    BY <2>1, <2>2 DEF Life!Ring
  <2> QED
    BY <2>3 DEF Life!Next
<1>3. ASSUME NEW h \in Handlers, AnswerJoin(h) \/ AnswerMeeting(h)
      PROVE  Life!Next \/ UNCHANGED <<status, answered>>
  <2>1. job[h].call \in Ids
    BY DEF TypeOK, Jobs
  <2>2. AnswerRow(job[h].call) \/ UNCHANGED <<status, answered>>
    BY <1>3 DEF AnswerJoin, AnswerMeeting
  <2> QED
    BY <2>1, <2>2, AnswerLives DEF Life!Next
<1>4. ASSUME NEW h \in Handlers, WriteDecline(h)
      PROVE  Life!Next \/ UNCHANGED <<status, answered>>
  <2> DEFINE c == job[h].call
  <2>1. c \in Ids /\ seen[h].status = status[c]
    BY <1>4 DEF WriteDecline, HandlersSound, HandlerSound, TypeOK, Jobs
  <2>2. answered' = answered
    BY <1>4 DEF WriteDecline
  <2>3. CASE status[c] = "ringing" /\ status' = [status EXCEPT ![c] = "declined"]
    BY <2>1, <2>2, <2>3 DEF Life!Next, Life!Decline
  <2>4. CASE status' = status
    BY <2>2, <2>4
  <2> QED
    BY <1>4, <2>1, <2>3, <2>4 DEF WriteDecline
<1>5. ASSUME NEW h \in Handlers, WriteEnd(h)
      PROVE  Life!Next \/ UNCHANGED <<status, answered>>
  <2> DEFINE c == job[h].call
  <2>1. c \in Ids /\ status[c] \in Active
    BY <1>5 DEF WriteEnd, HandlersSound, HandlerSound, InTx, TypeOK, Jobs
  <2>2. answered' = answered
    BY <1>5 DEF WriteEnd
  <2>3. CASE status' = [status EXCEPT ![c] = "ended"]
    BY <2>1, <2>2, <2>3 DEF Life!Next, Life!End, Active
  <2>4. CASE status' = status
    BY <2>2, <2>4
  <2> QED
    BY <1>5, <2>1, <2>3, <2>4 DEF WriteEnd, StatusAfter, TypeOK
<1>6. ASSUME NEW h \in Handlers, Continue(h)
      PROVE  Life!Next \/ UNCHANGED <<status, answered>>
  BY <1>2, <1>3, <1>4, <1>5, <1>6
  DEF Continue, Tell, Quit, Crash, LookForCall, FindMeeting, Announce, Enter, JoinRow,
      SkipRow, SkipAnswer, LockDecline, CountOthers, callVars
<1> QED
  BY <1>1, <1>6 DEF Next, Grow, vars, callVars
-----------------------------------------------------------------------------
(* The caller of a call, and its participants.                             *)

(* Who is in a call, and its caller, only change as one step allows.       *)
LEMMA PresentKept ==
  ASSUME TypeOK, CallerPresent, UNCHANGED <<caller, joined, left>>,
         \A c \in Ids : status'[c] \in Active => status[c] \in Active
  PROVE  CallerPresent'
BY DEF CallerPresent

(* Answering and expiring calls only changes calls that go on.             *)
LEMMA RowsKept ==
  ASSUME TypeOK, RowsFresh, UNCHANGED left,
         \A c \in Ids : status'[c] = "none" => status[c] = "none"
  PROVE  RowsFresh'
BY DEF RowsFresh

(* Every step leaves the caller in each call that is not over: only he     *)
(* takes himself out, and that ends the call in the same transaction.      *)
LEMMA PresentStep ==
  TypeOK /\ HandlersSound /\ RowsFresh /\ CallerPresent /\ [Next]_vars
    => CallerPresent' /\ RowsFresh'
<1> SUFFICES ASSUME TypeOK, HandlersSound, RowsFresh, CallerPresent, [Next]_vars
             PROVE  CallerPresent' /\ RowsFresh'
  OBVIOUS
<1>1. ASSUME UNCHANGED <<status, caller, joined, left>>
      PROVE  CallerPresent' /\ RowsFresh'
  BY <1>1, PresentKept, RowsKept
<1>2. ASSUME NEW h \in Handlers, NEW j, NEW scope \in SUBSET Ids, Expire(h, j, scope)
      PROVE  CallerPresent' /\ RowsFresh'
  <2>1. UNCHANGED <<caller, joined, left>>
    BY <1>2 DEF Expire, peopleVars
  <2>2. \A c \in Ids : status'[c] \in {"missed", status[c]}
    BY <1>2 DEF Expire
  <2> QED
    BY <2>1, <2>2, PresentKept, RowsKept DEF Active
<1>3. ASSUME NEW h \in Handlers, Begin(h)
      PROVE  CallerPresent' /\ RowsFresh'
  <2>1. Ids \in SUBSET Ids /\ \A S \in {Ids} \cup {{c} : c \in Ids} : S \in SUBSET Ids
    OBVIOUS
  <2> QED
    BY <1>1, <1>2, <1>3, <2>1
    DEF Begin, Poll, BeginStart, BeginMeet, BeginJoin, BeginDecline, BeginEnd, callVars, peopleVars
<1>4. ASSUME NEW h \in Handlers, Create(h)
      PROVE  CallerPresent' /\ RowsFresh'
  <2>1. PICK c \in Ids : /\ status[c] = "none"
                         /\ status' = [status EXCEPT ![c] = "ringing"]
                         /\ caller' = [caller EXCEPT ![c] = job[h].user]
                         /\ joined' = [joined EXCEPT ![c] = {job[h].user}]
    BY <1>4 DEF Create
  <2>2. left' = left /\ left[c] = {}
    BY <1>4, <2>1 DEF Create, RowsFresh
  <2>3. CallerPresent'
    BY <2>1, <2>2 DEF CallerPresent, TypeOK
  <2>4. RowsFresh'
    BY <2>1, <2>2, RowsKept DEF TypeOK
  <2> QED
    BY <2>3, <2>4
<1>5. ASSUME NEW h \in Handlers, JoinRow(h)
      PROVE  CallerPresent' /\ RowsFresh'
  <2>1. UNCHANGED <<status, caller>>
    BY <1>5 DEF JoinRow, callVars
  <2>2. \A c \in Ids : joined[c] \subseteq joined'[c] /\ left'[c] \subseteq left[c]
    BY <1>5 DEF JoinRow, TypeOK
  <2> QED
    BY <2>1, <2>2 DEF CallerPresent, RowsFresh
<1>6. ASSUME NEW h \in Handlers, AnswerJoin(h) \/ AnswerMeeting(h)
      PROVE  CallerPresent' /\ RowsFresh'
  <2>1. UNCHANGED <<caller, joined, left>>
    BY <1>6 DEF AnswerJoin, AnswerMeeting, peopleVars
  <2>2. AnswerRow(job[h].call) \/ UNCHANGED status
    BY <1>6 DEF AnswerJoin, AnswerMeeting
  <2>3. \A c \in Ids :
          \/ status'[c] = status[c]
          \/ status[c] = "ringing" /\ status'[c] = "answered"
    <3>1. CASE UNCHANGED status
      BY <3>1
    <3>2. CASE /\ status[job[h].call] = "ringing"
               /\ status' = [status EXCEPT ![job[h].call] = "answered"]
      BY <3>2 DEF TypeOK, Jobs
    <3> QED
      BY <2>2, <3>1, <3>2 DEF AnswerRow, Answerable
  <2> QED
    BY <2>1, <2>3, PresentKept, RowsKept DEF Active
<1>7. ASSUME NEW h \in Handlers, WriteDecline(h)
      PROVE  CallerPresent' /\ RowsFresh'
  <2> DEFINE c == job[h].call
             u == job[h].user
  <2>1. c \in Ids /\ caller[c] # u /\ status[c] \in Active
    BY <1>7 DEF WriteDecline, HandlersSound, HandlerSound, InTx, TypeOK, Jobs
  <2>2. /\ left' = left \/ left' = [left EXCEPT ![c] = @ \cup {u}]
        /\ status' = status \/ status' = [status EXCEPT ![c] = "declined"]
        /\ UNCHANGED <<caller, joined>>
    BY <1>7 DEF WriteDecline
  <2>3. CallerPresent'
    <3> SUFFICES ASSUME NEW d \in Ids, status'[d] \in Active
                 PROVE  caller[d] \in joined[d] \ left'[d]
      BY <2>2 DEF CallerPresent
    <3>1. status[d] \in Active
      BY <2>1, <2>2 DEF TypeOK
    <3>2. caller[d] \in joined[d] \ left[d]
      BY <3>1 DEF CallerPresent
    <3>3. left'[d] = left[d] \/ (d = c /\ left'[d] = left[d] \cup {u})
      BY <2>2 DEF TypeOK
    <3> QED
      BY <2>1, <3>2, <3>3
  <2>4. RowsFresh'
    BY <2>1, <2>2 DEF RowsFresh, TypeOK, Active
  <2> QED
    BY <2>3, <2>4
<1>8. ASSUME NEW h \in Handlers, WriteEnd(h)
      PROVE  CallerPresent' /\ RowsFresh'
  <2> DEFINE c == job[h].call
             u == job[h].user
  <2>1. c \in Ids /\ status[c] \in Active
    BY <1>8 DEF WriteEnd, HandlersSound, HandlerSound, InTx, TypeOK, Jobs
  <2>2. /\ left' = [left EXCEPT ![c] = @ \cup {u}]
        /\ UNCHANGED <<caller, joined>>
    BY <1>8 DEF WriteEnd
  <2>3. status' = [status EXCEPT ![c] = "ended"] \/ (status' = status /\ caller[c] # u)
    BY <1>8 DEF WriteEnd, StatusAfter, EndsCall, TypeOK
  <2>4. CallerPresent'
    BY <2>1, <2>2, <2>3 DEF CallerPresent, TypeOK, Active
  <2>5. RowsFresh'
    BY <2>1, <2>2, <2>3 DEF RowsFresh, TypeOK, Active
  <2> QED
    BY <2>4, <2>5
<1>9. ASSUME NEW h \in Handlers, Continue(h)
      PROVE  CallerPresent' /\ RowsFresh'
  BY <1>1, <1>4, <1>5, <1>6, <1>7, <1>8, <1>9
  DEF Continue, Tell, Quit, Crash, LookForCall, FindMeeting, Announce, Enter,
      SkipRow, SkipAnswer, LockDecline, CountOthers, callVars, peopleVars
<1> QED
  BY <1>1, <1>3, <1>9 DEF Next, Grow, vars, callVars, peopleVars
-----------------------------------------------------------------------------
(* What is over, and what the notifications say.                           *)

(* What is over stays over, because no life of a call leaves it.           *)
LEMMA OverStays ==
  ASSUME TypeOK, [Life!Next]_(Life!lifeVars), NEW c \in Ids, status[c] \in Over
  PROVE  status'[c] = status[c]
<1>1. status[c] \notin {"none", "ringing", "answered"}
  BY DEF Over
<1>2. ASSUME NEW d \in Ids, Life!Ring(d) \/ Life!Answer(d) \/ Life!Decline(d) \/ Life!End(d)
      PROVE  status'[c] = status[c]
  <2>1. d # c
    BY <1>1, <1>2 DEF Life!Ring, Life!Answer, Life!Decline, Life!End
  <2> QED
    BY <1>2, <2>1 DEF Life!Ring, Life!Answer, Life!Decline, Life!End, TypeOK
<1>3. ASSUME NEW S \in SUBSET Ids, Life!Miss(S)
      PROVE  status'[c] = status[c]
  BY <1>1, <1>3 DEF Life!Miss
<1> QED
  BY <1>2, <1>3 DEF Life!Next, Life!lifeVars

(* A notification which is not touched stays true.                         *)
LEMMA NoticesKept ==
  ASSUME TypeOK, NoticesTrue, notice' = notice,
         \A c \in Ids : status[c] \in Over => status'[c] = status[c]
  PROVE  NoticesTrue'
BY DEF NoticesTrue, Over

(* What a handler writes into the notifications has happened by then and   *)
(* is still so.                                                            *)
LEMMA NoticesStep ==
  ASSUME TypeOK, HandlersSound, NoticesTrue, [Next]_vars
  PROVE  NoticesTrue'
<1>1. \A c \in Ids : status[c] \in Over => status'[c] = status[c]
  BY LifeStep, OverStays
<1>2. CASE notice' = notice
  BY <1>1, <1>2, NoticesKept
<1>3. ASSUME NEW h \in Handlers, Tell(h)
      PROVE  NoticesTrue'
  <2>1. PICK c \in news[h].calls :
          notice' = [notice EXCEPT ![c] = [u \in Users |->
            IF u \in news[h].to /\ @[u] # "none" THEN news[h].status ELSE @[u]]]
    BY <1>3 DEF Tell
  <2>2. status' = status
    BY <1>3 DEF Tell, callVars
  <2>3. c \in Ids /\ (news[h].status \in {"missed", "ended"} => status[c] = news[h].status)
    BY DEF HandlersSound, HandlerSound, TypeOK, News
  <2>4. \A d \in Ids, u \in Users :
          \/ notice'[d][u] = notice[d][u]
          \/ d = c /\ notice'[d][u] = news[h].status
    BY <2>1, <2>3 DEF TypeOK
  <2> QED
    BY <2>2, <2>3, <2>4 DEF NoticesTrue
<1>4. ASSUME NEW h \in Handlers, Announce(h)
      PROVE  NoticesTrue'
  <2>1. status' = status
    BY <1>4 DEF Announce, callVars
  <2>2. \A d \in Ids, u \in Users : notice'[d][u] \in {notice[d][u], "ringing"}
    BY <1>4 DEF Announce, TypeOK
  <2> QED
    BY <2>1, <2>2 DEF NoticesTrue
<1>5. ASSUME NEW h \in Handlers, Begin(h)
      PROVE  notice' = notice
  BY <1>5 DEF Begin, Poll, Expire, BeginStart, BeginMeet, BeginJoin, BeginDecline, BeginEnd
<1>6. ASSUME NEW h \in Handlers, Continue(h)
      PROVE  NoticesTrue'
  BY <1>2, <1>3, <1>4, <1>6
  DEF Continue, Quit, Crash, LookForCall, FindMeeting, Create, Enter, JoinRow, AnswerJoin,
      AnswerMeeting, SkipRow, SkipAnswer, LockDecline, WriteDecline, CountOthers, WriteEnd
<1> QED
  BY <1>2, <1>5, <1>6 DEF Next, Grow, vars
-----------------------------------------------------------------------------
(* The theorems.                                                           *)

(* The invariant holds of a database without calls and idle handlers.      *)
LEMMA InvariantInit == Init => IInv
<1> SUFFICES ASSUME Init PROVE IInv
  OBVIOUS
<1>1. "idle" \in Stages
  BY DEF Stages
<1>2. TypeOK
  BY <1>1, NoTypes, ConstantsAssumption DEF Init, TypeOK, Statuses
<1>3. LocksExclusive /\ HandlersSound
  BY DEF Init, LocksExclusive, HandlersSound, HandlerSound, InTx, NoNews
<1>4. RowsFresh /\ CallerPresent /\ NoticesTrue
  BY DEF Init, RowsFresh, CallerPresent, NoticesTrue, Active
<1> QED
  BY <1>2, <1>3, <1>4 DEF IInv

(* The invariant is inductive: it holds at first and every step, of any    *)
(* number of requests on any number of calls, keeps it.                    *)
THEOREM CallsInductive == Spec => []IInv
<1>1. ASSUME IInv, [Next]_vars
      PROVE  IInv'
  <2>1. /\ TypeOK /\ LocksExclusive /\ HandlersSound /\ RowsFresh /\ CallerPresent
        /\ NoticesTrue
    BY <1>1 DEF IInv
  <2>2. TypeOK'
    BY <1>1, <2>1, TypeStep
  <2>3. HandlersSound' /\ LocksExclusive'
    BY <1>1, <2>1, HandlersStep
  <2>4. CallerPresent' /\ RowsFresh'
    BY <1>1, <2>1, PresentStep
  <2>5. NoticesTrue'
    BY <1>1, <2>1, NoticesStep
  <2> QED
    BY <2>2, <2>3, <2>4, <2>5 DEF IInv
<1> QED
  BY <1>1, InvariantInit, PTL DEF Spec

(* The rows of calls, participants and notifications, and what handlers    *)
(* remember of them, are well typed in every state.                        *)
THEOREM CallsTypes == Spec => []TypeOK
<1>1. IInv => TypeOK
  BY DEF IInv
<1> QED
  BY <1>1, CallsInductive, PTL

(* The caller is in his call as long as it rings or goes on, whoever       *)
(* joins, leaves, declines or ends it at the same time.                    *)
THEOREM CallerStays == Spec => []CallerPresent
<1>1. IInv => CallerPresent
  BY DEF IInv
<1> QED
  BY <1>1, CallsInductive, PTL

(* A notification that says missed or ended is right, in whatever order    *)
(* the handlers of calls.go write their notifications.                     *)
THEOREM NoticesSound == Spec => []NoticesTrue
<1>1. IInv => NoticesTrue
  BY DEF IInv
<1> QED
  BY <1>1, CallsInductive, PTL

(* The handlers of calls.go implement the life of calls: each of their     *)
(* statements is a step of it, or leaves every call as it is.              *)
THEOREM LifeRefined == Spec => LifeSpec
<1>1. Init => Life!Init
  BY DEF Init, Life!Init
<1>2. IInv /\ [Next]_vars => [Life!Next]_(Life!lifeVars)
  BY LifeStep DEF IInv
<1> QED
  BY <1>1, <1>2, CallsInductive, PTL DEF Spec, LifeSpec, Life!Spec

(* endCall ends a group call for everyone only for its caller: a           *)
(* participant who counts the others under the lock of the call finds at   *)
(* least the caller.                                                       *)
THEOREM GroupEndedByCaller == Spec => OnlyCallerEndsGroup
<1> DEFINE Ends(c) == kind = "group" /\ status[c] # "ended" /\ status'[c] = "ended"
                        => caller[c] \in left'[c]
<1>1. ASSUME IInv, [Next]_vars, NEW c \in Ids, kind = "group", status[c] # "ended",
             status'[c] = "ended"
      PROVE  caller[c] \in left'[c]
  <2>1. TypeOK /\ HandlersSound
    BY <1>1 DEF IInv
  <2>2. ASSUME NEW h \in Handlers, WriteEnd(h)
        PROVE  caller[c] \in left'[c]
    <3>1. /\ status' = [status EXCEPT ![job[h].call] =
                          StatusAfter(job[h].call, EndsCall(job[h].user, job[h].call, seen[h].count))]
          /\ left' = [left EXCEPT ![job[h].call] = @ \cup {job[h].user}]
      BY <2>2 DEF WriteEnd
    <3>2. job[h].call = c /\ EndsCall(job[h].user, c, seen[h].count)
      BY <1>1, <2>1, <3>1 DEF StatusAfter, TypeOK
    <3>3. job[h].user = caller[c]
      BY <1>1, <2>1, <2>2, <3>2 DEF WriteEnd, EndsCall, HandlersSound, HandlerSound
    <3> QED
      BY <2>1, <3>1, <3>2, <3>3 DEF TypeOK
  <2>3. ASSUME NEW h \in Handlers, Begin(h)
        PROVE  FALSE
    <3>1. ASSUME NEW j, NEW scope, Expire(h, j, scope)
          PROVE  FALSE
      BY <1>1, <3>1 DEF Expire
    <3> QED
      BY <1>1, <2>3, <3>1
      DEF Begin, Poll, BeginStart, BeginMeet, BeginJoin, BeginDecline, BeginEnd, callVars
  <2>4. ASSUME NEW h \in Handlers, Create(h)
        PROVE  FALSE
    <3>1. PICK d \in Ids : status' = [status EXCEPT ![d] = "ringing"]
      BY <2>4 DEF Create
    <3> QED
      BY <1>1, <2>1, <3>1 DEF TypeOK
  <2>5. ASSUME NEW h \in Handlers, AnswerJoin(h) \/ AnswerMeeting(h)
        PROVE  FALSE
    <3>1. status' = status \/ status' = [status EXCEPT ![job[h].call] = "answered"]
      BY <2>5 DEF AnswerJoin, AnswerMeeting, AnswerRow
    <3> QED
      BY <1>1, <2>1, <3>1 DEF TypeOK
  <2>6. ASSUME NEW h \in Handlers, WriteDecline(h)
        PROVE  FALSE
    <3>1. status' = status \/ status' = [status EXCEPT ![job[h].call] = "declined"]
      BY <2>6 DEF WriteDecline
    <3> QED
      BY <1>1, <2>1, <3>1 DEF TypeOK
  <2>7. ASSUME NEW h \in Handlers, Continue(h)
        PROVE  caller[c] \in left'[c]
    BY <1>1, <2>2, <2>4, <2>5, <2>6, <2>7
    DEF Continue, Tell, Quit, Crash, LookForCall, FindMeeting, Announce, Enter, JoinRow,
        SkipRow, SkipAnswer, LockDecline, CountOthers, callVars
  <2> QED
    BY <1>1, <2>3, <2>7 DEF Next, Grow, vars, callVars
<1>2. IInv /\ [Next]_vars => [\A c \in Ids : Ends(c)]_vars
  BY <1>1
<1> QED
  BY <1>2, CallsInductive, PTL DEF Spec, OnlyCallerEndsGroup
=============================================================================
