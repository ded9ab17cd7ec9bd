-------------------------------- MODULE Calls --------------------------------
(***************************************************************************)
(* Audio and video calls of one conversation (calls.go).  A request is a   *)
(* process whose statements are separate steps.  declineCall and endCall   *)
(* are transactions that hold the row of the call (SELECT ... FOR UPDATE); *)
(* the statements of joinCall and createCallToken commit one by one.       *)
(* Notifications are updated after the change they report.                 *)
(***************************************************************************)
EXTENDS Naturals, FiniteSets

CONSTANTS
  Users,
  Pair,        \* the two members of the conversation when it is a direct one
  Organizer,   \* organizes the scheduled meeting of the conversation
  Accepted,    \* have accepted the invitation to it
  Ids,         \* ids of calls rows
  Handlers,    \* requests that may be in progress at the same time
  Nobody,      \* the caller of a call that does not exist yet
  MaxOps,      \* bound on requests
  MaxFailures  \* bound on statements that fail unnoticed and processes that stop

ASSUME ConstantsAssumption ==
  /\ IsFiniteSet(Users)
  /\ Pair \subseteq Users /\ Organizer \in Pair /\ Accepted \subseteq Users
  /\ Nobody \notin Users
  /\ Ids # {}
  /\ MaxOps \in Nat
  /\ MaxFailures \in Nat

VARIABLES
  kind,       \* kind of the conversation
  status,     \* calls.status, "none" without a row
  answered,   \* answered_at is set
  caller,     \* calls.initiated_by
  meeting,    \* calls.reminder_id is set
  age,        \* how long ago started_at is
  invited,    \* call_participants
  joined,     \* ... with joined_at
  left,       \* ... with left_at
  notice,     \* data.status of the notification a participant has of a call
  stage, job, \* how far each handler is, and what it was asked to do
  seen,       \* what it has read
  news,       \* what it has still to write into the notifications
  ops, failures

callVars == <<kind, status, answered, caller, meeting, age>>
peopleVars == <<invited, joined, left>>
vars == <<callVars, peopleVars, notice, stage, job, seen, news, ops, failures>>

Active   == {"ringing", "answered"}
Over     == {"missed", "declined", "ended"}
Statuses == Active \cup Over \cup {"none"}
Stages == {"idle", "expiring", "looking", "creating", "announcing", "entering",
           "admitted", "joined", "snapped", "locked", "counted", "telling"}
Jobs  == [op : {"poll", "start", "meet", "join", "decline", "end"}, user : Users, call : Ids]
Views == [status : Statuses, joined : BOOLEAN, count : Nat]
News  == [calls : SUBSET Ids, status : Statuses, to : SUBSET Users]

Job(op, u, c) == [op |-> op, user |-> u, call |-> c]
NoJob  == Job("poll", Organizer, CHOOSE c \in Ids : TRUE)
NoView == [status |-> "none", joined |-> FALSE, count |-> 0]
NoNews == [calls |-> {}, status |-> "none", to |-> {}]

TypeOK ==
  /\ kind \in {"direct", "group"}
  /\ status \in [Ids -> Statuses]
  /\ answered \in [Ids -> BOOLEAN]
  /\ caller \in [Ids -> Users \cup {Nobody}]
  /\ meeting \in [Ids -> BOOLEAN]
  /\ age \in [Ids -> {"young", "overdue", "old"}]
  /\ invited \in [Ids -> SUBSET Users]
  /\ joined \in [Ids -> SUBSET Users]
  /\ left \in [Ids -> SUBSET Users]
  /\ notice \in [Ids -> [Users -> Statuses]]
  /\ stage \in [Handlers -> Stages]
  /\ job \in [Handlers -> Jobs]
  /\ seen \in [Handlers -> Views]
  /\ news \in [Handlers -> News]
  /\ ops \in 0..MaxOps
  /\ failures \in 0..MaxFailures

Init ==
  /\ kind \in {"direct", "group"}
  /\ status = [c \in Ids |-> "none"]
  /\ answered = [c \in Ids |-> FALSE]
  /\ caller = [c \in Ids |-> Nobody]
  /\ meeting = [c \in Ids |-> FALSE]
  /\ age = [c \in Ids |-> "young"]
  /\ invited = [c \in Ids |-> {}]
  /\ joined = [c \in Ids |-> {}]
  /\ left = [c \in Ids |-> {}]
  /\ notice = [c \in Ids |-> [u \in Users |-> "none"]]
  /\ stage = [h \in Handlers |-> "idle"]
  /\ job = [h \in Handlers |-> NoJob]
  /\ seen = [h \in Handlers |-> NoView]
  /\ news = [h \in Handlers |-> NoNews]
  /\ ops = 0 /\ failures = 0
-----------------------------------------------------------------------------
(* Row locks and the life of a handler.                                    *)

(* declineCall and endCall hold the row of the call from their first       *)
(* statement; endCall then also holds the row of its participant.          *)
NobodyLocks(c) == FALSE
Locked(c) == \E h \in Handlers : stage[h] \in {"locked", "counted"} /\ job[h].call = c

RowLocked(c, u) ==
  \E h \in Handlers : stage[h] = "counted" /\ job[h].call = c /\ job[h].user = u

Start(h, j, s) ==
  /\ stage[h] = "idle"
  /\ ops < MaxOps
  /\ ops' = ops + 1
  /\ job' = [job EXCEPT ![h] = j]
  /\ stage' = [stage EXCEPT ![h] = s]
  /\ UNCHANGED failures

GoTo(h, s) ==
  /\ stage' = [stage EXCEPT ![h] = s]
  /\ UNCHANGED <<job, ops, failures>>

Finish(h) ==
  /\ stage' = [stage EXCEPT ![h] = "idle"]
  /\ job' = [job EXCEPT ![h] = NoJob]
  /\ seen' = [seen EXCEPT ![h] = NoView]
  /\ news' = [news EXCEPT ![h] = NoNews]
  /\ UNCHANGED ops

(* A change of a call is reported to those who have a notification of it.  *)
Report(h, s, to) ==
  /\ GoTo(h, "telling")
  /\ news' = [news EXCEPT ![h] = [calls |-> {job[h].call}, status |-> s, to |-> to]]
  /\ UNCHANGED seen

(* syncCallNotification: one UPDATE for each call that changed.            *)
Tell(h) ==
  /\ stage[h] \in {"expiring", "telling"}
  /\ \E c \in news[h].calls :
       LET rest == news[h].calls \ {c}
       IN /\ notice' = [notice EXCEPT ![c] = [u \in Users |->
                          IF u \in news[h].to /\ @[u] # "none" THEN news[h].status ELSE @[u]]]
          /\ IF rest # {}
             THEN /\ news' = [news EXCEPT ![h].calls = rest]
                  /\ UNCHANGED <<stage, job, seen, ops>>
             ELSE IF job[h].op \in {"start", "meet"} /\ stage[h] = "expiring"
             THEN /\ news' = [news EXCEPT ![h] = NoNews]
                  /\ stage' = [stage EXCEPT ![h] = "looking"]
                  /\ UNCHANGED <<job, seen, ops>>
             ELSE Finish(h)
  /\ UNCHANGED <<callVars, peopleVars, failures>>

(* A request that is refused, loses its client or whose statement fails is *)
(* given up: its transaction is rolled back, what it has committed stays.  *)
(* joinCall does not look at the outcome of its statements.                *)
Quit(h) ==
  /\ \/ stage[h] \in {"looking", "creating", "entering", "snapped", "locked", "counted"}
     \/ stage[h] \in {"admitted", "joined"} /\ job[h].op = "meet"
  /\ Finish(h)
  /\ UNCHANGED <<callVars, peopleVars, notice, failures>>

(* The process stops.                                                      *)
Crash(h) ==
  /\ stage[h] # "idle"
  /\ failures < MaxFailures
  /\ failures' = failures + 1
  /\ Finish(h)
  /\ UNCHANGED <<callVars, peopleVars, notice>>

-----------------------------------------------------------------------------
(* expireRingingCalls, which listCalls, getCallStatus and createCallToken  *)
(* start with: an UPDATE of every call that has rung for too long.         *)

Late(c) == status[c] = "ringing" /\ age[c] # "young"

Expire(h, j, scope) ==
  LET late == {c \in scope : Late(c)}
  IN /\ \A c \in late : ~Locked(c)
     /\ late # {} \/ j.op # "poll"
     /\ Start(h, j, IF late = {} THEN "looking" ELSE "expiring")
     /\ status' = [c \in Ids |-> IF c \in late THEN "missed" ELSE status[c]]
     /\ news' = [news EXCEPT ![h] =
                   IF late = {} THEN NoNews
                   ELSE [calls |-> late, status |-> "missed", to |-> Users]]
     /\ UNCHANGED <<kind, answered, caller, meeting, age, peopleVars, notice, seen>>

Poll(h, scope) == Expire(h, NoJob, scope)

-----------------------------------------------------------------------------
(* createCallToken, for a call or (with a reminder_id) a meeting.          *)

Members == IF kind = "direct" THEN Pair ELSE Users
Attendees == {Organizer} \cup (Accepted \cap Members)

BeginStart(h, u) == u \in Members /\ Expire(h, [NoJob EXCEPT !.op = "start", !.user = u], Ids)
BeginMeet(h, u) == u \in Attendees /\ Expire(h, [NoJob EXCEPT !.op = "meet", !.user = u], Ids)

(* A call started less than two hours ago and not over.                    *)
Current(c) == status[c] \in Active /\ age[c] # "old"

LookForCall(h) ==
  /\ stage[h] = "looking"
  /\ job[h].op = "start" \/ job[h].user = Organizer
  /\ \A c \in Ids : ~Current(c)
  /\ GoTo(h, "creating")
  /\ UNCHANGED <<callVars, peopleVars, notice, seen, news>>

(* The meeting has a call already (the latest, of several): it is entered. *)
FindMeeting(h) ==
  /\ stage[h] = "looking"
  /\ job[h].op = "meet"
  /\ \E c \in Ids :
       /\ meeting[c] /\ Current(c)
       /\ job' = [job EXCEPT ![h].call = c]
       /\ seen' = [seen EXCEPT ![h].status = status[c]]
  /\ stage' = [stage EXCEPT ![h] = "entering"]
  /\ UNCHANGED <<callVars, peopleVars, notice, news, ops, failures>>

(* The transaction that creates the call: members who have hidden the      *)
(* conversation or whose account is not active are left out.               *)
Create(h) ==
  LET u == job[h].user
      isMeeting == job[h].op = "meet"
  IN /\ stage[h] = "creating"
     /\ \E c \in Ids, P \in SUBSET (IF isMeeting THEN Attendees ELSE Members) :
          /\ status[c] = "none"
          /\ status' = [status EXCEPT ![c] = "ringing"]
          /\ caller' = [caller EXCEPT ![c] = u]
          /\ meeting' = [meeting EXCEPT ![c] = isMeeting]
          /\ invited' = [invited EXCEPT ![c] = P \cup {u}]
          /\ joined' = [joined EXCEPT ![c] = {u}]
          /\ job' = [job EXCEPT ![h].call = c]
     /\ stage' = [stage EXCEPT ![h] = "announcing"]
     /\ UNCHANGED <<kind, answered, age, left, notice, seen, news, ops, failures>>

(* notifyCallParticipants. *)
Announce(h) ==
  LET c == job[h].call
  IN /\ stage[h] = "announcing"
     /\ notice' = [notice EXCEPT ![c] = [u \in Users |->
                     IF u \in invited[c] \ {job[h].user} THEN "ringing" ELSE @[u]]]
     /\ Finish(h)
     /\ UNCHANGED <<callVars, peopleVars, failures>>

(* A new participant waits for the row of the call (its foreign key).      *)
Enter(h) ==
  /\ stage[h] = "entering"
  /\ job[h].user \in invited[job[h].call] \/ ~Locked(job[h].call)
  /\ invited' = [invited EXCEPT ![job[h].call] = @ \cup {job[h].user}]
  /\ GoTo(h, "admitted")
  /\ UNCHANGED <<callVars, joined, left, notice, seen, news>>

-----------------------------------------------------------------------------
(* joinCall, whose last two UPDATEs createCallToken shares.                *)

BeginJoin(h, u, c) ==
  /\ u \in invited[c]
  /\ meeting[c] => u \in Attendees
  /\ status[c] \in Active
  /\ Start(h, Job("join", u, c), "admitted")
  /\ UNCHANGED <<callVars, peopleVars, notice, seen, news>>

JoinRow(h) ==
  LET c == job[h].call
      u == job[h].user
  IN /\ stage[h] = "admitted"
     /\ ~RowLocked(c, u)
     /\ joined' = [joined EXCEPT ![c] = @ \cup {u}]
     /\ left' = [left EXCEPT ![c] = @ \ {u}]
     /\ GoTo(h, "joined")
     /\ UNCHANGED <<callVars, invited, notice, seen, news>>

(* UPDATE calls SET status='answered' ... WHERE status='ringing'           *)
AnswerableUnchecked(c) == TRUE
Answerable(c) == status[c] = "ringing"

AnswerRow(c) ==
  IF Answerable(c)
  THEN /\ ~Locked(c)
       /\ status' = [status EXCEPT ![c] = "answered"]
       /\ answered' = [answered EXCEPT ![c] = TRUE]
  ELSE UNCHANGED <<status, answered>>

AnswerJoin(h) ==
  /\ stage[h] = "joined"
  /\ job[h].op = "join"
  /\ AnswerRow(job[h].call)
  /\ Report(h, "answered", Users)
  /\ UNCHANGED <<kind, caller, meeting, age, peopleVars, notice>>

(* createCallToken reports only an answer of its own.                      *)
AnswerMeeting(h) ==
  LET c == job[h].call
  IN /\ stage[h] = "joined"
     /\ job[h].op = "meet"
     /\ IF caller[c] # job[h].user /\ seen[h].status = "ringing"
        THEN /\ AnswerRow(c)
             /\ IF Answerable(c) THEN Report(h, "answered", Users)
                ELSE Finish(h) /\ UNCHANGED failures
        ELSE Finish(h) /\ UNCHANGED <<status, answered, failures>>
     /\ UNCHANGED <<kind, caller, meeting, age, peopleVars, notice>>

(* joinCall goes on when its statements fail. *)
SkipRow(h) ==
  /\ stage[h] = "admitted"
  /\ job[h].op = "join"
  /\ failures < MaxFailures
  /\ failures' = failures + 1
  /\ stage' = [stage EXCEPT ![h] = "joined"]
  /\ UNCHANGED <<callVars, peopleVars, notice, job, seen, news, ops>>

SkipAnswer(h) ==
  /\ stage[h] = "joined"
  /\ job[h].op = "join"
  /\ failures < MaxFailures
  /\ failures' = failures + 1
  /\ stage' = [stage EXCEPT ![h] = "telling"]
  /\ news' = [news EXCEPT ![h] = [calls |-> {job[h].call}, status |-> "answered", to |-> Users]]
  /\ UNCHANGED <<callVars, peopleVars, notice, job, seen, ops>>

-----------------------------------------------------------------------------
(* declineCall: what it reads of the participants is as old as the         *)
(* beginning of its first statement, which then waits for the row of the   *)
(* call and checks the status of that row again.                           *)

Declinable(c) == status[c] = "ringing" \/ (status[c] = "answered" /\ kind # "direct")

BeginDecline(h, u, c) ==
  /\ u \in invited[c] \ left[c]
  /\ caller[c] # u
  /\ Declinable(c)
  /\ Start(h, Job("decline", u, c), "snapped")
  /\ seen' = [seen EXCEPT ![h] = [NoView EXCEPT !.joined = u \in joined[c],
                                                 !.count = Cardinality(invited[c] \ left[c])]]
  /\ UNCHANGED <<callVars, peopleVars, notice, news>>

LockDecline(h) ==
  LET c == job[h].call
  IN /\ stage[h] = "snapped"
     /\ ~Locked(c)
     /\ Declinable(c)
     /\ seen' = [seen EXCEPT ![h].status = status[c]]
     /\ GoTo(h, "locked")
     /\ UNCHANGED <<callVars, peopleVars, notice, news>>

WriteDecline(h) ==
  LET c == job[h].call
      u == job[h].user
      forAll == seen[h].status = "ringing" /\ (kind = "direct" \/ seen[h].count <= 2)
  IN /\ stage[h] = "locked"
     /\ job[h].op = "decline"
     /\ left' = IF seen[h].joined THEN left ELSE [left EXCEPT ![c] = @ \cup {u}]
     /\ status' = IF forAll THEN [status EXCEPT ![c] = "declined"] ELSE status
     /\ IF forAll THEN Report(h, "declined", Users)
        ELSE Report(h, IF seen[h].joined THEN "answered" ELSE "declined", {u})
     /\ UNCHANGED <<kind, answered, caller, meeting, age, invited, joined, notice>>

-----------------------------------------------------------------------------
(* endCall. *)

BeginEnd(h, u, c) ==
  /\ u \in invited[c]
  /\ status[c] \in Active
  /\ ~Locked(c)
  /\ Start(h, Job("end", u, c), "locked")
  /\ UNCHANGED <<callVars, peopleVars, notice, seen, news>>

(* The participant's row is written, then the others are counted.          *)
CountOthers(h) ==
  LET c == job[h].call
  IN /\ stage[h] = "locked"
     /\ job[h].op = "end"
     /\ seen' = [seen EXCEPT ![h].count = Cardinality((joined[c] \ left[c]) \ {job[h].user})]
     /\ GoTo(h, "counted")
     /\ UNCHANGED <<callVars, peopleVars, notice, news>>

EndsCallAlone(u, c, others) == caller[c] = u \/ others <= 1 \/ kind = "direct"
EndsCallIfLast(u, c, others) == others = 0 \/ kind = "direct"
EndsCall(u, c, others) == caller[c] = u \/ others = 0 \/ kind = "direct"

StatusAsAnswered(c, ended) == IF ended THEN "ended" ELSE "left"
StatusAfter(c, ended) == IF ended THEN "ended" ELSE status[c]

WriteEnd(h) ==
  LET c == job[h].call
      u == job[h].user
      ended == EndsCall(u, c, seen[h].count)
  IN /\ stage[h] = "counted"
     /\ left' = [left EXCEPT ![c] = @ \cup {u}]
     /\ status' = [status EXCEPT ![c] = StatusAfter(c, ended)]
     /\ IF ended THEN Report(h, "ended", Users) ELSE Finish(h) /\ UNCHANGED failures
     /\ UNCHANGED <<kind, answered, caller, meeting, age, invited, joined, notice>>

-----------------------------------------------------------------------------
(* A call gets older: it has rung for too long, it is two hours old.       *)
Grow(c) ==
  /\ status[c] \in Active
  /\ age[c] # "old"
  /\ age' = [age EXCEPT ![c] = IF @ = "young" THEN "overdue" ELSE "old"]
  /\ UNCHANGED <<kind, status, answered, caller, meeting, peopleVars, notice,
                 stage, job, seen, news, ops, failures>>

Begin(h) ==
  \/ \E S \in {Ids} \cup {{c} : c \in Ids} : Poll(h, S)
  \/ \E u \in Users : BeginStart(h, u) \/ BeginMeet(h, u)
  \/ \E u \in Users, c \in Ids : BeginJoin(h, u, c) \/ BeginDecline(h, u, c) \/ BeginEnd(h, u, c)

Continue(h) ==
  \/ Tell(h) \/ Quit(h) \/ Crash(h)
  \/ LookForCall(h) \/ FindMeeting(h) \/ Create(h) \/ Announce(h) \/ Enter(h)
  \/ JoinRow(h) \/ AnswerJoin(h) \/ AnswerMeeting(h) \/ SkipRow(h) \/ SkipAnswer(h)
  \/ LockDecline(h) \/ WriteDecline(h)
  \/ CountOthers(h) \/ WriteEnd(h)

Next ==
  \/ \E h \in Handlers : Begin(h) \/ Continue(h)
  \/ \E c \in Ids : Grow(c)

Spec == Init /\ [][Next]_vars

-----------------------------------------------------------------------------
(* What the component promises.                                            *)

(* However answers, refusals, endings and expiries overlap, the history of *)
(* each call is one that can happen: what is over stays over, an answered  *)
(* call is never declined or missed afterwards, answered_at tells whether  *)
(* it was answered.                                                        *)
Life == INSTANCE CallLife WITH state <- status, talked <- answered
LifeSpec == Life!Spec

(* Its caller is in every call that rings or goes on: no sequence of       *)
(* joining, leaving and joining again from several devices leaves a call   *)
(* without him.                                                            *)
CallerPresent == \A c \in Ids : status[c] \in Active => caller[c] \in joined[c] \ left[c]

(* A group call is ended for everyone only by its caller, never by a       *)
(* participant who takes himself for the last one.                         *)
OnlyCallerEndsGroup ==
  [][\A c \in Ids : kind = "group" /\ status[c] # "ended" /\ status'[c] = "ended"
       => caller[c] \in left'[c]]_vars

(* A notification says that a call was missed or has ended only when that  *)
(* is so, although notifications are written after the commit, in any      *)
(* order and by several handlers.                                          *)
NoticesTrue ==
  \A c \in Ids, u \in Users : notice[c][u] \in {"missed", "ended"} => status[c] = notice[c][u]

(* When nobody is at work, no notification says "Call in progress - Tap to *)
(* join" of a call that is over.  The code does not keep this: joinCall    *)
(* reports that the call is answered even if it is over by then.           *)
NoticesSettle ==
  (\A h \in Handlers : stage[h] = "idle") =>
    \A c \in Ids, u \in Users : notice[c][u] = "answered" => status[c] \notin Over

(* A conversation has one call at a time.  The code does not keep this: it *)
(* looks for a call and creates one later, and nothing in the database     *)
(* forbids a second one.                                                   *)
OneCurrentCall == \A c, d \in Ids : Current(c) /\ Current(d) => c = d
=============================================================================
