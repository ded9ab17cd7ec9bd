------------------------------ MODULE Reminders ------------------------------
(***************************************************************************)
(* One reminder of an organizer, which may be a meeting with attendees     *)
(* (reminders.go).  A request locks the row of the reminder, reads what it *)
(* was and who attended, and commits the change together with the notices  *)
(* it calls for.  The scheduler of each process takes a due row nobody     *)
(* holds, announces it to those who attend and moves a repeating one on.   *)
(* Everybody wants reminders.  Times are whole days.                       *)
(***************************************************************************)
EXTENDS Naturals, Sequences, FiniteSets

CONSTANTS
  Members,       \* users who may attend
  Chats,
  NoChat,
  Editors,       \* requests of the organizer in progress at the same time
  Schedulers,    \* one for each process
  Unlocked,      \* nobody holds the row
  Same,          \* a field a request leaves alone
  Rules,         \* repeat rules, "none" among them
  FirstDay,      \* a short calendar: the first day of each month and of the one after
  Times,         \* the days a client names
  Moments        \* the days on which something happens, in order

\* Days are numbered through the calendar.
Months         == 1..(Len(FirstDay) - 1)
Days           == 1..(FirstDay[Len(FirstDay)] - 1)
MonthLength(m) == FirstDay[m + 1] - FirstDay[m]
MonthOf(d)     == CHOOSE m \in Months : FirstDay[m] <= d /\ d < FirstDay[m + 1]
DayOf(d)       == d - FirstDay[MonthOf(d)] + 1
Clamp(day, m)  == IF day > MonthLength(m) THEN MonthLength(m) ELSE day

ASSUME ReminderAssumption ==
  /\ Unlocked \notin Editors \cup Schedulers
  /\ Editors \cap Schedulers = {}
  /\ Same \notin {"reminder", "meeting", "upcoming", "completed", "cancelled"}
  /\ Rules \subseteq {"none", "daily", "weekly", "monthly"} /\ "none" \in Rules

ASSUME CalendarAssumption ==
  /\ FirstDay \in Seq(Nat) /\ Len(FirstDay) > 1 /\ FirstDay[1] = 1
  /\ \A m \in Months : MonthLength(m) \in 28..31
  /\ Times \subseteq Days
  /\ Moments \in Seq(Days) /\ Len(Moments) > 0
  /\ \A i, j \in DOMAIN Moments : i < j => Moments[i] <= Moments[j]
  \* bound: whatever happens, there is a month after it
  /\ \A i \in DOMAIN Moments : Moments[i] < FirstDay[Len(FirstDay) - 1]

VARIABLES
  reminder,   \* the row of reminders
  response,   \* meeting_attendees: the answer of each
  toldOf,     \* the last notice each member has of the meeting
  inChat,     \* conversation_members
  reminderLock, \* who holds the row
  noted,      \* what each request or scheduler read under the lock
  moment,     \* the index of today in Moments
  announced   \* times this occurrence has been announced since it was set

reminderVars == <<reminder, response, toldOf, inChat, reminderLock, noted, moment, announced>>

Handlers == Editors \cup Schedulers
Today    == Moments[moment]
Statuses == {"upcoming", "completed", "cancelled"}
Kinds    == {"reminder", "meeting"}
Gone     == [exists |-> FALSE, kind |-> "reminder", status |-> "upcoming", chat |-> NoChat,
             rule |-> "none", anchor |-> 0, at |-> 0, notified |-> FALSE]
Attendees == {m \in Members : response[m] # "none"}
Unread    == [row |-> Gone, attendees |-> {}]
ReminderRows == [exists : BOOLEAN, kind : Kinds, status : Statuses, chat : Chats \cup {NoChat},
                 rule : Rules, anchor : 0..31, at : Days \cup {0}, notified : BOOLEAN]
Anchors      == {Same, 31}   \* bound: a client that names a day names the last

ReminderInit ==
  /\ reminder = Gone
  /\ response = [m \in Members |-> "none"]
  /\ toldOf = [m \in Members |-> "none"]
  /\ inChat \in [Chats -> SUBSET Members]
  /\ reminderLock = Unlocked
  /\ noted = [h \in Handlers |-> Unread]
  /\ moment = 1
  /\ announced = 0

-----------------------------------------------------------------------------
\* Mutant: the day of the last occurrence takes the place of the anchor.
AddReminderMonthDrifting(d, anchor) == LET m == MonthOf(d) + 1 IN FirstDay[m] + Clamp(DayOf(d), m) - 1

AddReminderMonth(d, anchor) ==
  LET m == MonthOf(d) + 1 IN FirstDay[m] + Clamp(IF anchor = 0 THEN DayOf(d) ELSE anchor, m) - 1

Step(d, rule, anchor) ==
  CASE rule = "daily"   -> d + 1
    [] rule = "weekly"  -> d + 7
    [] rule = "monthly" -> AddReminderMonth(d, anchor)

NextOccurrence(at, rule, anchor, now) ==
  LET next[d \in Days] == IF d > now THEN d ELSE next[Step(d, rule, anchor)] IN next[at]

-----------------------------------------------------------------------------
Tell(S, notice, before) == [m \in Members |-> IF m \in S THEN notice ELSE before[m]]
Answers(S) == [m \in Members |-> IF m \notin S THEN "none" ELSE IF response[m] = "none" THEN "invited" ELSE response[m]]

\* syncMeetingAttendees: who attends afterwards.
Synced(chat, invite) == IF invite /\ chat # NoChat THEN inChat[chat] ELSE {}

Create(kind, chat, rule, at, anchor, invite) ==
  LET party == IF kind = "meeting" THEN Synced(chat, invite) ELSE {} IN
  /\ ~reminder.exists /\ toldOf = [m \in Members |-> "none"]        \* bound: one reminder
  /\ at >= Today
  /\ kind = "meeting" => chat # NoChat
  /\ reminder' = [exists |-> TRUE, kind |-> kind, status |-> "upcoming", chat |-> chat, rule |-> rule, at |-> at,
                  anchor |-> IF rule # "monthly" THEN 0 ELSE IF anchor = Same THEN DayOf(at) ELSE anchor,
                  notified |-> FALSE]
  /\ response' = Answers(party)
  /\ toldOf' = Tell(party, "invite", toldOf)
  /\ announced' = 0
  /\ UNCHANGED <<inChat, reminderLock, noted, moment>>

\* Mutant: the row is read without FOR UPDATE.
ReminderFreeUnlocked == TRUE

\* SELECT ... FOR UPDATE, then the attendees.
ReminderFree == reminderLock = Unlocked

LockRow(h) ==
  /\ reminder.exists /\ ~noted[h].row.exists
  /\ ReminderFree
  /\ reminderLock' = h
  /\ noted' = [noted EXCEPT ![h] = [row |-> reminder, attendees |-> Attendees]]
  /\ UNCHANGED <<reminder, response, toldOf, inChat, moment, announced>>

Release(h) ==
  /\ reminderLock' = IF reminderLock = h THEN Unlocked ELSE reminderLock
  /\ noted' = [noted EXCEPT ![h] = Unread]

Or(value, otherwise) == IF value = Same THEN otherwise ELSE value

\* The UPDATE of updateReminder.
Edited(r, u) ==
  LET ended == u.status \in {"completed", "cancelled"}
      rule  == IF ended THEN "none" ELSE Or(u.rule, r.rule)
  IN [r EXCEPT !.kind = Or(u.kind, @), !.status = Or(u.status, @), !.chat = Or(u.chat, @), !.at = Or(u.at, @),
               !.rule = rule,
               !.anchor = IF rule # "monthly" THEN 0 ELSE IF u.anchor # Same THEN u.anchor
                          ELSE IF r.anchor # 0 THEN r.anchor ELSE DayOf(Or(u.at, r.at)),
               !.notified = @ /\ u.at = Same /\ u.status # "upcoming"]

Save(h, u) ==
  LET old     == noted[h].row
      new     == Edited(reminder, u)
      invite  == Or(u.invite, Attendees # {})
      party   == IF new.kind # "meeting" THEN {}
                 ELSE IF new.status = "upcoming" /\ (u.invite # Same \/ u.chat # Same) THEN Synced(new.chat, invite)
                 ELSE Attendees
      invited == party \ Attendees
      removed == noted[h].attendees \ party
      kept    == noted[h].attendees \cap party
      ends    == old.kind = "meeting" /\ (new.kind # "meeting" \/ (new.status = "cancelled" /\ old.status # "cancelled"))
      changed == u.details \/ [old EXCEPT !.notified = FALSE, !.anchor = 0] # [new EXCEPT !.notified = FALSE, !.anchor = 0]
      told    == Tell(invited, "invite", toldOf)
  IN
  /\ old.exists /\ reminder.exists
  /\ u.at # Same => u.at >= Today
  /\ new.kind = "meeting" => new.chat # NoChat
  /\ reminder' = new
  /\ response' = Answers(party)
  /\ toldOf' = IF ends THEN Tell(noted[h].attendees, "cancelled", told)
               ELSE IF new.kind # "meeting" THEN told
               ELSE Tell(removed, "cancelled", IF changed /\ new.status = "upcoming" THEN Tell(kept, "update", told) ELSE told)
  /\ announced' = IF u.at # Same \/ u.status = "upcoming" THEN 0 ELSE announced
  /\ Release(h)
  /\ UNCHANGED <<inChat, moment>>

\* bound: a request changes when the reminder is or what the meeting is.
Edits ==
  [kind : {Same}, status : {Same}, chat : {Same}, invite : {Same},
   at : Times \cup {Same}, rule : Rules \cup {Same}, anchor : Anchors, details : BOOLEAN]
  \cup
  [kind : Kinds \cup {Same}, status : Statuses \cup {Same}, chat : Chats \cup {NoChat, Same}, invite : {TRUE, FALSE, Same},
   at : {Same}, rule : {Same}, anchor : {Same}, details : {FALSE}]

\* deleteReminder; the attendees go with the row.
Delete(h) ==
  /\ noted[h].row.exists /\ reminder.exists
  /\ reminder' = Gone
  /\ response' = [m \in Members |-> "none"]
  /\ toldOf' = IF noted[h].row.kind = "meeting" THEN Tell(noted[h].attendees, "cancelled", toldOf) ELSE toldOf
  /\ Release(h)
  /\ UNCHANGED <<inChat, moment, announced>>

GiveUp(h) ==
  /\ noted[h].row.exists
  /\ Release(h)
  /\ UNCHANGED <<reminder, response, toldOf, inChat, moment, announced>>

\* respondToMeeting is one UPDATE, which does not lock the reminder.
Respond(m, answer) ==
  /\ reminder.exists /\ reminder.kind = "meeting" /\ reminder.status = "upcoming"
  /\ m \in Attendees \cap inChat[reminder.chat]
  /\ response' = [response EXCEPT ![m] = answer]
  /\ UNCHANGED <<reminder, toldOf, inChat, reminderLock, noted, moment, announced>>

-----------------------------------------------------------------------------
\* dispatchDueReminders takes a due row, skipping it when it is locked ...
ReminderDue(r) == r.exists /\ r.status = "upcoming" /\ ~r.notified /\ r.at <= Today

TakeDue(s) == ReminderDue(reminder) /\ LockRow(s)

\* ... announces it, and moves it on if it repeats.
Announce(s) ==
  LET r == noted[s].row IN
  /\ r.exists
  /\ reminder' = IF r.rule = "none" THEN [reminder EXCEPT !.notified = TRUE]
                 ELSE [reminder EXCEPT !.at = NextOccurrence(r.at, r.rule, r.anchor, Today)]
  /\ announced' = IF r.rule = "none" THEN announced + 1 ELSE 0
  /\ Release(s)
  /\ UNCHANGED <<response, toldOf, inChat, moment>>

-----------------------------------------------------------------------------
\* Members come and go (GroupMembership); time passes.
ComeOrGo(m, c) ==
  /\ inChat' = [inChat EXCEPT ![c] = IF m \in @ THEN @ \ {m} ELSE @ \cup {m}]
  /\ UNCHANGED <<reminder, response, toldOf, reminderLock, noted, moment, announced>>

TimePasses ==
  /\ moment < Len(Moments)
  /\ moment' = moment + 1
  /\ UNCHANGED <<reminder, response, toldOf, inChat, reminderLock, noted, announced>>

ReminderNext ==
  \/ \E k \in Kinds, c \in Chats \cup {NoChat}, r \in Rules, t \in Times, a \in Anchors, i \in BOOLEAN : Create(k, c, r, t, a, i)
  \/ \E h \in Editors : LockRow(h) \/ Delete(h) \/ (\E u \in Edits : Save(h, u))
  \/ \E s \in Schedulers : TakeDue(s) \/ Announce(s)
  \/ \E h \in Handlers : GiveUp(h)
  \/ \E m \in Members : (\E a \in {"accepted", "declined"} : Respond(m, a)) \/ (\E c \in Chats : ComeOrGo(m, c))
  \/ TimePasses

ReminderSpec == ReminderInit /\ [][ReminderNext]_reminderVars

-----------------------------------------------------------------------------
ReminderTypeOK ==
  /\ reminder \in ReminderRows
  /\ response \in [Members -> {"none", "invited", "accepted", "declined"}]
  /\ toldOf \in [Members -> {"none", "invite", "update", "cancelled"}]
  /\ inChat \in [Chats -> SUBSET Members]
  /\ reminderLock \in Handlers \cup {Unlocked}
  /\ noted \in [Handlers -> [row : ReminderRows, attendees : SUBSET Members]]
  /\ moment \in DOMAIN Moments
  /\ announced \in Nat

\* The last notice a member has of a meeting is true, whatever edits, deletions
\* and departures overlap: he attends an upcoming meeting and was invited to it
\* or told it changed, or it was cancelled and he was told so, or he does not
\* attend it and was never invited or was told it is off for him.
NoticesKnown ==
  \A m \in Members :
    /\ m \in Attendees /\ reminder.status = "upcoming"  => toldOf[m] \in {"invite", "update"}
    /\ m \in Attendees /\ reminder.status = "cancelled" => toldOf[m] = "cancelled"
    /\ m \notin Attendees => toldOf[m] \in {"none", "cancelled"}

\* The schedulers of two processes do not both announce an occurrence, and an
\* edit that overlaps an announcement does not bring it back.
AnnouncedOnce == announced <= 1

\* A repeating reminder moves to its first occurrence after today, however many
\* it has missed; a monthly one falls on the day it was set for wherever the
\* month has that day, also after a shorter month.
Occurrences(r) ==
  CASE r.rule = "monthly" -> {d \in Days : MonthOf(d) > MonthOf(r.at) /\ DayOf(d) = Clamp(r.anchor, MonthOf(d))}
    [] r.rule = "weekly"  -> {d \in Days : d > r.at /\ (d - r.at) % 7 = 0}
    [] r.rule = "daily"   -> {d \in Days : d > r.at}

MovesToNext ==
  [][\A s \in Schedulers : Announce(s) /\ noted[s].row.rule # "none" =>
       LET after == {d \in Occurrences(noted[s].row) : d > Today} IN
       reminder'.at \in after /\ \A d \in after : reminder'.at <= d]_reminder
===============================================================================
