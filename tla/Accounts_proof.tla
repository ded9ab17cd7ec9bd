---------------------------- MODULE Accounts_proof ----------------------------
(***************************************************************************)
(* Proofs about Sessions and Reminders together, for any number of         *)
(* members, requests of the organizer and schedulers, and whatever the     *)
(* calendar is: their types, the notices, and when a repeating reminder    *)
(* comes again.                                                            *)
(***************************************************************************)
EXTENDS MCAccounts, Sessions_proof, WellFoundedInduction, TLAPS

(* A set of numbers has a least one.                                       *)
LEMMA Least ==
  ASSUME NEW T \in SUBSET Nat, T # {}
  PROVE  \E x \in T : \A y \in T : x <= y
<1>1. PICK x \in T : \A y \in T : ~(<<y, x>> \in OpToRel(<, Nat))
  BY NatLessThanWellFounded, WFMin
<1>2. \A y \in T : ~(y < x)
  BY <1>1 DEF OpToRel
<1> QED
  BY <1>2

-----------------------------------------------------------------------------
(* The calendar.                                                           *)

LEMMA MonthShape ==
  /\ Len(FirstDay) \in Nat /\ Len(FirstDay) > 1 /\ FirstDay[1] = 1
  /\ \A m \in 1..Len(FirstDay) : FirstDay[m] \in Nat
  /\ \A m \in Months : m + 1 \in 1..Len(FirstDay) /\ m \in 1..Len(FirstDay)
  /\ \A m \in Months : FirstDay[m] + 28 <= FirstDay[m + 1] /\ FirstDay[m + 1] <= FirstDay[m] + 31
<1>1. FirstDay \in Seq(Nat) /\ Len(FirstDay) > 1 /\ FirstDay[1] = 1 /\ \A m \in Months : MonthLength(m) \in 28..31
  BY CalendarAssumption
<1>2. Len(FirstDay) \in Nat /\ \A m \in 1..Len(FirstDay) : FirstDay[m] \in Nat
  BY <1>1
<1>3. \A m \in Months : m + 1 \in 1..Len(FirstDay) /\ m \in 1..Len(FirstDay)
  BY <1>2 DEF Months
<1>4. \A m \in Months : FirstDay[m + 1] - FirstDay[m] \in 28..31
  BY <1>1 DEF MonthLength
<1>5. ASSUME NEW m \in Months
      PROVE  FirstDay[m] + 28 <= FirstDay[m + 1] /\ FirstDay[m + 1] <= FirstDay[m] + 31
  <2>1. FirstDay[m] \in Nat /\ FirstDay[m + 1] \in Nat /\ FirstDay[m + 1] - FirstDay[m] \in 28..31
    BY <1>2, <1>3, <1>4
  <2> QED
    BY <2>1
<1> QED
  BY <1>1, <1>2, <1>3, <1>5

(* Months begin one after the other.                                       *)
LEMMA MonthsInOrder ==
  ASSUME NEW i \in 1..Len(FirstDay), NEW k \in 1..Len(FirstDay), i <= k
  PROVE  FirstDay[i] <= FirstDay[k]
<1> DEFINE T == {j \in 1..Len(FirstDay) : i <= j /\ ~(FirstDay[i] <= FirstDay[j])}
<1>1. SUFFICES ASSUME T # {}
               PROVE  FALSE
  OBVIOUS
<1>2. T \in SUBSET Nat
  BY MonthShape
<1>3. PICK j \in T : \A y \in T : j <= y
  BY <1>1, <1>2, Least
<1>4. j \in 1..Len(FirstDay) /\ i <= j /\ ~(FirstDay[i] <= FirstDay[j]) /\ FirstDay[i] \in Nat /\ Len(FirstDay) \in Nat
  BY MonthShape
<1>5. i # j
  BY <1>4
<1>6. j - 1 \in Months /\ i <= j - 1
  BY <1>4, <1>5 DEF Months
<1>7. j - 1 \notin T
  BY <1>2, <1>3, <1>4
<1>8. FirstDay[i] <= FirstDay[j - 1]
  BY <1>4, <1>6, <1>7 DEF Months
<1>9. FirstDay[j - 1] <= FirstDay[(j - 1) + 1] /\ FirstDay[j - 1] \in Nat /\ FirstDay[j] \in Nat /\ (j - 1) + 1 = j
  BY <1>4, <1>6, MonthShape
<1> QED
  BY <1>4, <1>8, <1>9

(* A day is in one month.                                                  *)
LEMMA MonthOfDay ==
  ASSUME NEW d \in Days
  PROVE  MonthOf(d) \in Months /\ FirstDay[MonthOf(d)] <= d /\ d < FirstDay[MonthOf(d) + 1]
<1> DEFINE T == {j \in 1..Len(FirstDay) : d < FirstDay[j]}
<1>1. d \in Nat /\ 1 <= d /\ d < FirstDay[Len(FirstDay)]
  BY MonthShape DEF Days
<1>2. T \in SUBSET Nat /\ Len(FirstDay) \in T
  BY <1>1, MonthShape
<1>3. PICK j \in T : \A y \in T : j <= y
  BY <1>2, Least
<1>4. j \in 1..Len(FirstDay) /\ d < FirstDay[j] /\ j # 1
  BY <1>1, MonthShape
<1>5. j - 1 \in Months /\ j - 1 \in 1..Len(FirstDay) /\ (j - 1) + 1 = j
  BY <1>4, MonthShape DEF Months
<1>6. j - 1 \notin T
  BY <1>2, <1>3, <1>4
<1>7. FirstDay[j - 1] <= d
  BY <1>1, <1>5, <1>6, MonthShape
<1>8. \E m \in Months : FirstDay[m] <= d /\ d < FirstDay[m + 1]
  BY <1>4, <1>5, <1>7
<1> QED
  BY <1>8 DEF MonthOf

LEMMA OneMonth ==
  ASSUME NEW d \in Days, NEW m \in Months, FirstDay[m] <= d, d < FirstDay[m + 1]
  PROVE  MonthOf(d) = m
<1> DEFINE n == MonthOf(d)
<1>1. n \in Months /\ FirstDay[n] <= d /\ d < FirstDay[n + 1]
  BY MonthOfDay
<1> HIDE DEF n
<1>2. /\ n \in Nat /\ m \in Nat /\ d \in Nat
      /\ m \in 1..Len(FirstDay) /\ n \in 1..Len(FirstDay) /\ m + 1 \in 1..Len(FirstDay) /\ n + 1 \in 1..Len(FirstDay)
      /\ FirstDay[m] \in Nat /\ FirstDay[n] \in Nat /\ FirstDay[m + 1] \in Nat /\ FirstDay[n + 1] \in Nat
  BY <1>1, MonthShape DEF Days, Months
<1>3. ~(n < m)
  <2>1. n + 1 <= m => FirstDay[n + 1] <= FirstDay[m]
    BY <1>2, MonthsInOrder
  <2> QED
    BY <1>1, <1>2, <2>1
<1>4. ~(m < n)
  <2>1. m + 1 <= n => FirstDay[m + 1] <= FirstDay[n]
    BY <1>2, MonthsInOrder
  <2> QED
    BY <1>1, <1>2, <2>1
<1> QED
  BY <1>2, <1>3, <1>4 DEF n

(* The day of a date, and the date of a day.                               *)
LEMMA DayInMonth ==
  ASSUME NEW d \in Days
  PROVE  DayOf(d) \in 1..31 /\ DayOf(d) <= MonthLength(MonthOf(d)) /\ d = FirstDay[MonthOf(d)] + DayOf(d) - 1
<1> DEFINE n == MonthOf(d)
<1>1. n \in Months /\ FirstDay[n] <= d /\ d < FirstDay[n + 1]
  BY MonthOfDay
<1>2. /\ d \in Nat /\ FirstDay[n] \in Nat /\ FirstDay[n + 1] \in Nat /\ FirstDay[n + 1] <= FirstDay[n] + 31
  BY <1>1, MonthShape DEF Days
<1>3. DayOf(d) = d - FirstDay[n] + 1 /\ MonthLength(n) = FirstDay[n + 1] - FirstDay[n]
  BY DEF DayOf, MonthLength
<1> HIDE DEF n
<1> SUFFICES DayOf(d) \in 1..31 /\ DayOf(d) <= MonthLength(n) /\ d = FirstDay[n] + DayOf(d) - 1
  BY DEF n
<1> QED
  BY <1>1, <1>2, <1>3

LEMMA DateInMonth ==
  ASSUME NEW m \in Months, NEW day \in 1..MonthLength(m)
  PROVE  LET d == FirstDay[m] + day - 1 IN d \in Days /\ MonthOf(d) = m /\ DayOf(d) = day
<1> DEFINE d == FirstDay[m] + day - 1
<1>1. /\ FirstDay[m] \in Nat /\ FirstDay[m + 1] \in Nat /\ MonthLength(m) = FirstDay[m + 1] - FirstDay[m]
      /\ MonthLength(m) \in Nat /\ m \in 1..Len(FirstDay) /\ m + 1 \in 1..Len(FirstDay) /\ Len(FirstDay) \in 1..Len(FirstDay)
      /\ FirstDay[Len(FirstDay)] \in Nat /\ FirstDay[1] = 1 /\ Len(FirstDay) \in Nat /\ 1 \in 1..Len(FirstDay)
  BY MonthShape DEF MonthLength
<1>2. FirstDay[m + 1] <= FirstDay[Len(FirstDay)] /\ 1 <= FirstDay[m]
  BY <1>1, MonthsInOrder
<1>3. d \in Days /\ FirstDay[m] <= d /\ d < FirstDay[m + 1]
  BY <1>1, <1>2 DEF Days
<1>4. MonthOf(d) = m
  BY <1>3, OneMonth
<1>5. DayOf(d) = d - FirstDay[m] + 1
  BY <1>4 DEF DayOf
<1>6. d - FirstDay[m] + 1 = day
  <2>1. FirstDay[m] \in Int /\ day \in Int
    BY <1>1
  <2> QED
    BY <2>1
<1> QED
  BY <1>3, <1>4, <1>5, <1>6

LEMMA ClampInMonth ==
  ASSUME NEW m \in Months, NEW day \in 1..31
  PROVE  Clamp(day, m) \in 1..MonthLength(m)
<1>1. MonthLength(m) \in Nat /\ MonthLength(m) >= 28
  BY MonthShape DEF MonthLength
<1> QED
  BY <1>1 DEF Clamp

(* A day before the last month has a week after it, and a month.           *)
LEMMA RoomAfter ==
  ASSUME NEW d \in Days, d < FirstDay[Len(FirstDay) - 1]
  PROVE  (\A i \in 1..7 : d + i \in Days) /\ MonthOf(d) + 1 \in Months
<1> DEFINE last == Len(FirstDay) - 1
           n    == MonthOf(d)
<1>1. /\ last \in Months /\ last + 1 = Len(FirstDay) /\ last \in 1..Len(FirstDay) /\ FirstDay[last] \in Nat
      /\ FirstDay[Len(FirstDay)] \in Nat /\ FirstDay[last] + 28 <= FirstDay[Len(FirstDay)]
  <2>1. last \in Months /\ last + 1 = Len(FirstDay) /\ Len(FirstDay) \in 1..Len(FirstDay)
    BY MonthShape DEF Months
  <2> QED
    BY <2>1, MonthShape
<1>2. n \in Months /\ FirstDay[n] <= d /\ n \in 1..Len(FirstDay) /\ FirstDay[n] \in Nat /\ n \in Nat
  BY MonthOfDay, MonthShape DEF Months
<1>3. d \in Nat /\ 1 <= d /\ d < FirstDay[last]
  BY DEF Days
<1> HIDE DEF n
<1>4. \A i \in 1..7 : d + i \in Days
  BY <1>1, <1>3 DEF Days
<1>5. last <= n => FirstDay[last] <= FirstDay[n]
  BY <1>1, <1>2, MonthsInOrder
<1>6. n < last
  BY <1>1, <1>2, <1>3, <1>5, MonthShape
<1>7. n + 1 \in Months
  BY <1>1, <1>2, <1>6, MonthShape DEF Months
<1> QED
  BY <1>4, <1>7 DEF n

-----------------------------------------------------------------------------
(* The occurrences of a repeating reminder.                                *)

(* The days on which a reminder of day d comes again.                      *)
Coming(d, rule, anchor) == Occurrences([at |-> d, rule |-> rule, anchor |-> anchor])

Repeats(rule, anchor) == rule \in {"daily", "weekly", "monthly"} /\ (rule = "monthly" => anchor \in 1..31)

LEMMA ComingDays ==
  ASSUME NEW d, NEW rule, NEW anchor
  PROVE  /\ rule = "daily"   => Coming(d, rule, anchor) = {x \in Days : x > d}
         /\ rule = "weekly"  => Coming(d, rule, anchor) = {x \in Days : x > d /\ (x - d) % 7 = 0}
         /\ rule = "monthly" => Coming(d, rule, anchor) =
              {x \in Days : MonthOf(x) > MonthOf(d) /\ DayOf(x) = Clamp(anchor, MonthOf(x))}
         /\ \A r : r.at = d /\ r.rule = rule /\ r.anchor = anchor /\ rule \in {"daily", "weekly", "monthly"}
              => Occurrences(r) = Coming(d, rule, anchor)
  BY DEF Coming, Occurrences

(* A step of the loop leads to the first of them, and the others come      *)
(* after it.                                                               *)
LEMMA MonthStep ==
  ASSUME NEW d \in Days, d < FirstDay[Len(FirstDay) - 1], NEW anchor \in 1..31
  PROVE  LET s == AddReminderMonth(d, anchor) IN
         /\ s \in Days /\ d < s /\ s \in Coming(d, "monthly", anchor)
         /\ \A x \in Coming(d, "monthly", anchor) : s <= x /\ (x = s \/ x \in Coming(s, "monthly", anchor))
         /\ \A x \in Coming(s, "monthly", anchor) : x \in Coming(d, "monthly", anchor)
<1> DEFINE n == MonthOf(d)
           c == Clamp(anchor, n + 1)
           s == FirstDay[n + 1] + c - 1
<1>1. AddReminderMonth(d, anchor) = s
  BY DEF AddReminderMonth
<1>2. n \in Months /\ n + 1 \in Months /\ n \in Nat /\ d < FirstDay[n + 1] /\ d \in Nat
  BY RoomAfter, MonthOfDay DEF Months, Days
<1>3. c \in 1..MonthLength(n + 1)
  BY <1>2, ClampInMonth
<1> HIDE DEF c, n
<1>4. s \in Days /\ MonthOf(s) = n + 1 /\ DayOf(s) = c
  BY <1>2, <1>3, DateInMonth
<1>5. n + 1 \in 1..Len(FirstDay) /\ FirstDay[n + 1] \in Nat
  BY <1>2, MonthShape
<1>6. d < s /\ s \in Nat
  BY <1>2, <1>3, <1>5
<1> HIDE DEF s
<1>7. /\ Coming(d, "monthly", anchor) = {x \in Days : MonthOf(x) > n /\ DayOf(x) = Clamp(anchor, MonthOf(x))}
      /\ Coming(s, "monthly", anchor) = {x \in Days : MonthOf(x) > n + 1 /\ DayOf(x) = Clamp(anchor, MonthOf(x))}
  BY <1>4, ComingDays DEF n
<1>8. s \in Coming(d, "monthly", anchor)
  BY <1>2, <1>4, <1>7 DEF c
<1>9. ASSUME NEW x \in Coming(d, "monthly", anchor)
      PROVE  s <= x /\ (x = s \/ x \in Coming(s, "monthly", anchor))
  <2>1. x \in Days /\ x \in Nat /\ MonthOf(x) \in Nat /\ MonthOf(x) > n /\ DayOf(x) = Clamp(anchor, MonthOf(x)) /\ MonthOf(x) \in Months
    BY <1>7, MonthOfDay DEF Months, Days
  <2>2. CASE MonthOf(x) = n + 1
    <3>1. x = FirstDay[n + 1] + DayOf(x) - 1 /\ DayOf(x) = c
      BY <2>1, <2>2, DayInMonth DEF c
    <3>2. x = s
      BY <3>1 DEF s
    <3> QED
      BY <1>6, <3>2
  <2>3. CASE MonthOf(x) # n + 1
    <3>1. MonthOf(x) > n + 1 /\ (n + 1) + 1 \in Nat
      BY <1>2, <2>1, <2>3
    <3>2. (n + 1) + 1 <= MonthOf(x) /\ s < FirstDay[(n + 1) + 1] /\ FirstDay[MonthOf(x)] <= x
      BY <1>2, <1>4, <2>1, <3>1, MonthOfDay
    <3>3. (n + 1) + 1 \in 1..Len(FirstDay) /\ MonthOf(x) \in 1..Len(FirstDay)
      BY <1>2, <2>1, MonthShape
    <3>4. FirstDay[(n + 1) + 1] <= FirstDay[MonthOf(x)] /\ FirstDay[MonthOf(x)] \in Nat /\ FirstDay[(n + 1) + 1] \in Nat
      BY <3>2, <3>3, MonthsInOrder, MonthShape
    <3>5. s <= x
      BY <1>6, <2>1, <3>2, <3>4
    <3> QED
      BY <1>7, <2>1, <3>1, <3>5
  <2> QED
    BY <2>2, <2>3
<1>10. ASSUME NEW x \in Coming(s, "monthly", anchor)
       PROVE  x \in Coming(d, "monthly", anchor)
  <2>1. x \in Days /\ MonthOf(x) > n + 1 /\ DayOf(x) = Clamp(anchor, MonthOf(x))
    BY <1>7
  <2>2. MonthOf(x) > n
    BY <1>2, <2>1, MonthOfDay DEF Months
  <2> QED
    BY <1>7, <2>1, <2>2
<1> QED
  BY <1>1, <1>4, <1>6, <1>8, <1>9, <1>10

(* The same for every rule, and what comes after it came before.           *)
LEMMA LoopStep ==
  ASSUME NEW d \in Days, d < FirstDay[Len(FirstDay) - 1], NEW rule, NEW anchor, Repeats(rule, anchor)
  PROVE  LET s == Step(d, rule, anchor) IN
         /\ s \in Days /\ d < s /\ s \in Coming(d, rule, anchor)
         /\ \A x \in Coming(d, rule, anchor) : s <= x /\ (x = s \/ x \in Coming(s, rule, anchor))
         /\ \A x \in Coming(s, rule, anchor) : x \in Coming(d, rule, anchor)
<1> DEFINE s == Step(d, rule, anchor)
<1>1. d \in Nat /\ d + 1 \in Days /\ d + 7 \in Days /\ \A x \in Days : x \in Nat
  BY RoomAfter DEF Days
<1>2. CASE rule = "daily"
  <2>1. s = d + 1
    BY <1>2 DEF Step
  <2> HIDE DEF s
  <2>2. Coming(d, rule, anchor) = {x \in Days : x > d} /\ Coming(s, rule, anchor) = {x \in Days : x > d + 1}
    BY <1>2, <2>1, ComingDays
  <2>3. s \in Days /\ d < s /\ s \in Coming(d, rule, anchor)
    BY <1>1, <2>1, <2>2
  <2>4. ASSUME NEW x \in Coming(d, rule, anchor)
        PROVE  s <= x /\ (x = s \/ x \in Coming(s, rule, anchor))
    <3>1. x \in Days /\ x \in Nat /\ x > d
      BY <1>1, <2>2
    <3> QED
      BY <1>1, <2>1, <2>2, <3>1
  <2>5. ASSUME NEW x \in Coming(s, rule, anchor)
        PROVE  x \in Coming(d, rule, anchor)
    <3>1. x \in Days /\ x \in Nat /\ x > d + 1
      BY <1>1, <2>2
    <3>2. x > d
      BY <1>1, <3>1
    <3> QED
      BY <2>2, <3>1, <3>2
  <2> QED
    BY <2>3, <2>4, <2>5 DEF s
<1>3. CASE rule = "weekly"
  <2>1. s = d + 7
    BY <1>3 DEF Step
  <2> HIDE DEF s
  <2>2. /\ Coming(d, rule, anchor) = {x \in Days : x > d /\ (x - d) % 7 = 0}
        /\ Coming(s, rule, anchor) = {x \in Days : x > d + 7 /\ (x - (d + 7)) % 7 = 0}
    BY <1>3, <2>1, ComingDays
  <2>3. \A x \in Nat : /\ x > d /\ (x - d) % 7 = 0 => x >= d + 7
                       /\ x > d + 7 => ((x - d) % 7 = 0 <=> (x - (d + 7)) % 7 = 0)
    BY <1>1
  <2>4. (d + 7) - d = 7 /\ 7 % 7 = 0
    BY <1>1
  <2>5. s \in Days /\ d < s /\ s \in Coming(d, rule, anchor)
    BY <1>1, <2>1, <2>2, <2>4
  <2>6. ASSUME NEW x \in Coming(d, rule, anchor)
        PROVE  s <= x /\ (x = s \/ x \in Coming(s, rule, anchor))
    <3>1. x \in Days /\ x \in Nat /\ x > d /\ (x - d) % 7 = 0
      BY <1>1, <2>2
    <3>2. x >= d + 7 /\ (x > d + 7 => (x - (d + 7)) % 7 = 0)
      BY <2>3, <3>1
    <3> QED
      BY <1>1, <2>1, <2>2, <3>1, <3>2
  <2>7. ASSUME NEW x \in Coming(s, rule, anchor)
        PROVE  x \in Coming(d, rule, anchor)
    <3>1. x \in Days /\ x \in Nat /\ x > d + 7 /\ (x - (d + 7)) % 7 = 0
      BY <1>1, <2>2
    <3>2. x > d /\ (x - d) % 7 = 0
      BY <1>1, <2>3, <3>1
    <3> QED
      BY <2>2, <3>1, <3>2
  <2> QED
    BY <2>5, <2>6, <2>7 DEF s
<1>4. CASE rule = "monthly"
  <2>1. Step(d, rule, anchor) = AddReminderMonth(d, anchor) /\ anchor \in 1..31
    BY <1>4 DEF Step, Repeats
  <2> QED
    BY <1>4, <2>1, MonthStep
<1> QED
  BY <1>2, <1>3, <1>4 DEF Repeats

-----------------------------------------------------------------------------
(* nextReminderOccurrence: the loop.                                       *)

(* Whether f is what the loop computes from each day.                      *)
IsLoop(f, rule, anchor, now) == f = [d \in Days |-> IF d > now THEN d ELSE f[Step(d, rule, anchor)]]

First(x, d, rule, anchor, now) ==
  /\ x \in Coming(d, rule, anchor) /\ x > now
  /\ \A y \in Coming(d, rule, anchor) : y > now => x <= y

Soon(now) == now \in Days /\ now < FirstDay[Len(FirstDay) - 1]

(* The first occurrence after now is the same seen from a day and from the *)
(* next one, unless that is the one.                                       *)
LEMMA FirstMoves ==
  ASSUME NEW rule, NEW anchor, Repeats(rule, anchor), NEW now, Soon(now), NEW d \in Days, d <= now
  PROVE  /\ Step(d, rule, anchor) \in Days /\ d < Step(d, rule, anchor)
         /\ \A x : /\ Step(d, rule, anchor) > now => (First(x, d, rule, anchor, now) <=> x = Step(d, rule, anchor))
                   /\ Step(d, rule, anchor) <= now =>
                        (First(x, d, rule, anchor, now) <=> First(x, Step(d, rule, anchor), rule, anchor, now))
<1> DEFINE s == Step(d, rule, anchor)
<1>0. FirstDay[Len(FirstDay) - 1] \in Nat /\ \A x \in Days : x \in Nat
  BY MonthShape DEF Days
<1>1. d < FirstDay[Len(FirstDay) - 1] /\ now \in Nat /\ d \in Nat
  BY <1>0 DEF Soon
<1>2. /\ s \in Days /\ d < s /\ s \in Coming(d, rule, anchor)
      /\ \A x \in Coming(d, rule, anchor) : s <= x /\ (x = s \/ x \in Coming(s, rule, anchor))
      /\ \A x \in Coming(s, rule, anchor) : x \in Coming(d, rule, anchor)
  BY <1>1, LoopStep
<1>3. \A x \in Coming(d, rule, anchor) : x \in Nat
  BY <1>0 DEF Coming, Occurrences, Repeats
<1> HIDE DEF s
<1>4. ASSUME s > now, NEW x
      PROVE  First(x, d, rule, anchor, now) <=> x = s
  BY <1>2, <1>3, <1>4 DEF First
<1>5. ASSUME s <= now, NEW x
      PROVE  First(x, d, rule, anchor, now) <=> First(x, s, rule, anchor, now)
  <2>1. ~(s > now)
    BY <1>0, <1>1, <1>2, <1>5
  <2>2. \A y : y \in Coming(d, rule, anchor) /\ y > now <=> y \in Coming(s, rule, anchor) /\ y > now
    BY <1>2, <2>1
  <2> QED
    BY <2>2 DEF First
<1> QED
  BY <1>2, <1>4, <1>5 DEF s

(* There is such a function, as a day has only one next occurrence.        *)
LEMMA LoopDefined ==
  ASSUME NEW rule, NEW anchor, Repeats(rule, anchor), NEW now, Soon(now)
  PROVE  \E f : IsLoop(f, rule, anchor, now)
<1> DEFINE first(d) == CHOOSE x : First(x, d, rule, anchor, now)
           f        == [d \in Days |-> IF d > now THEN d ELSE first(d)]
<1>0. now \in Nat /\ \A x \in Days : x \in Nat
  BY DEF Soon, Days
<1>1. ASSUME NEW d \in Days, ~(d > now)
      PROVE  first(d) = f[Step(d, rule, anchor)]
  <2> DEFINE s == Step(d, rule, anchor)
  <2>1. d <= now
    BY <1>0, <1>1
  <2>2. /\ s \in Days
        /\ \A x : /\ s > now  => (First(x, d, rule, anchor, now) <=> x = s)
                  /\ s <= now => (First(x, d, rule, anchor, now) <=> First(x, s, rule, anchor, now))
    BY <2>1, FirstMoves
  <2> HIDE DEF s
  <2>3. CASE s > now
    <3>1. first(d) = s
      BY <2>2, <2>3
    <3> QED
      BY <2>2, <2>3, <3>1 DEF s
  <2>4. CASE ~(s > now)
    <3>1. s <= now
      BY <1>0, <2>2, <2>4
    <3>2. first(d) = first(s)
      BY <2>2, <3>1
    <3> QED
      BY <2>2, <2>4, <3>2 DEF s
  <2> QED
    BY <2>3, <2>4
<1>2. f = [d \in Days |-> IF d > now THEN d ELSE first(d)]
  OBVIOUS
<1> HIDE DEF f, first
<1>3. f = [d \in Days |-> IF d > now THEN d ELSE f[Step(d, rule, anchor)]]
  BY <1>1, <1>2
<1> QED
  BY <1>3 DEF IsLoop

(* From the last day on which it went wrong, it would not go wrong.        *)
LEMMA LoopEnds ==
  ASSUME NEW rule, NEW anchor, Repeats(rule, anchor), NEW now, Soon(now), NEW f, IsLoop(f, rule, anchor, now),
         NEW at \in Days
  PROVE  IF at > now THEN f[at] = at ELSE First(f[at], at, rule, anchor, now)
<1> DEFINE last == FirstDay[Len(FirstDay)]
           T    == {n \in 0..last : \E d \in Days : d = last - n /\ d <= now /\ ~First(f[d], d, rule, anchor, now)}
<1>0. now \in Nat /\ last \in Nat /\ \A x \in Days : x \in Nat /\ last - x \in 0..last /\ x = last - (last - x)
  <2>1. Len(FirstDay) \in 1..Len(FirstDay)
    BY MonthShape
  <2>2. last \in Nat
    BY <2>1, MonthShape
  <2>3. now \in Days
    BY DEF Soon
  <2> QED
    BY <2>2, <2>3 DEF Days
<1>1. \A d \in Days : f[d] = IF d > now THEN d ELSE f[Step(d, rule, anchor)]
  BY DEF IsLoop
<1> HIDE DEF last
<1>2. T = {}
  <2>1. SUFFICES ASSUME T # {}
                 PROVE  FALSE
    OBVIOUS
  <2>2. T \in SUBSET Nat
    BY <1>0
  <2>3. PICK n \in T : \A y \in T : n <= y
    BY <2>1, <2>2, Least
  <2>4. PICK d \in Days : d = last - n /\ d <= now /\ ~First(f[d], d, rule, anchor, now)
    BY <2>3
  <2> DEFINE s == Step(d, rule, anchor)
  <2>5. /\ s \in Days /\ d < s
        /\ \A x : /\ s > now  => (First(x, d, rule, anchor, now) <=> x = s)
                  /\ s <= now => (First(x, d, rule, anchor, now) <=> First(x, s, rule, anchor, now))
    BY <2>4, FirstMoves
  <2>6. f[d] = f[s] /\ f[s] = IF s > now THEN s ELSE f[Step(s, rule, anchor)]
    <3>1. ~(d > now)
      BY <1>0, <2>4
    <3>2. f[d] = f[s]
      BY <1>1, <3>1
    <3> HIDE DEF s
    <3>3. f[s] = IF s > now THEN s ELSE f[Step(s, rule, anchor)]
      BY <1>1, <2>5
    <3> QED
      BY <3>2, <3>3
  <2> HIDE DEF s
  <2>7. s <= now /\ ~First(f[s], s, rule, anchor, now)
    BY <1>0, <2>4, <2>5, <2>6
  <2>8. last - s \in T /\ last - s < n
    BY <1>0, <2>2, <2>3, <2>4, <2>5, <2>7
  <2> QED
    BY <1>0, <2>2, <2>3, <2>5, <2>8
<1>3. CASE at > now
  BY <1>1, <1>3
<1>4. CASE ~(at > now)
  <2>1. last - at \notin T
    BY <1>2
  <2> HIDE DEF T
  <2> QED
    BY <1>0, <1>4, <2>1 DEF T
<1> QED
  BY <1>3, <1>4

(* It ends at the first occurrence after now.                              *)
LEMMA NextIsFirst ==
  ASSUME NEW rule, NEW anchor, Repeats(rule, anchor), NEW now, Soon(now), NEW at \in Days
  PROVE  LET next == NextOccurrence(at, rule, anchor, now) IN
         /\ next \in Days
         /\ at <= now => First(next, at, rule, anchor, now)
<1> DEFINE f == CHOOSE g : g = [d \in Days |-> IF d > now THEN d ELSE g[Step(d, rule, anchor)]]
<1>1. NextOccurrence(at, rule, anchor, now) = f[at]
  BY DEF NextOccurrence
<1>2. IsLoop(f, rule, anchor, now)
  BY LoopDefined DEF IsLoop
<1> HIDE DEF f
<1>3. IF at > now THEN f[at] = at ELSE First(f[at], at, rule, anchor, now)
  BY <1>2, LoopEnds
<1>4. now \in Nat /\ at \in Nat
  BY DEF Soon, Days
<1>5. First(f[at], at, rule, anchor, now) => f[at] \in Days
  BY DEF First, Coming, Occurrences, Repeats
<1> QED
  BY <1>1, <1>3, <1>4, <1>5
-----------------------------------------------------------------------------
(* What the properties need to be inductive.                               *)

(* What the columns of a reminder hold: one that exists has a day, and an  *)
(* anchor if it comes again every month.                                   *)
IsRow(r) ==
  /\ r = [exists |-> r.exists, kind |-> r.kind, status |-> r.status, chat |-> r.chat, rule |-> r.rule,
          anchor |-> r.anchor, at |-> r.at, notified |-> r.notified]
  /\ r.exists \in BOOLEAN /\ r.notified \in BOOLEAN
  /\ r.kind \in Kinds /\ r.status \in Statuses
  /\ r.chat \in Chats \cup {NoChat} /\ r.rule \in Rules
  /\ r.anchor \in 0..31 /\ r.at \in Days \cup {0}
  /\ r.exists => r.at \in Days /\ (r.rule = "monthly" => r.anchor \in 1..31)

RowFacts ==
  /\ IsRow(reminder)
  /\ response = [m \in Members |-> response[m]]
  /\ noted = [h \in Handlers |-> noted[h]]
  /\ ~reminder.exists \/ reminder.kind # "meeting" => Attendees = {}

(* Who holds the row has read what it is and who attends, and a scheduler  *)
(* holds it only when it is due and has not been announced.                *)
LockFacts ==
  \A h \in Handlers : noted[h].row.exists =>
    /\ reminderLock = h /\ noted[h].row = reminder /\ noted[h].attendees = Attendees
    /\ h \in Schedulers => ~reminder.notified /\ reminder.at <= Today

AnnouncedFacts ==
  /\ announced \in {0, 1}
  /\ reminder.exists /\ ~reminder.notified => announced = 0

(* The types of what is not a row of reminders.                            *)
Surroundings ==
  /\ response \in [Members -> {"none", "invited", "accepted", "declined"}]
  /\ toldOf \in [Members -> {"none", "invite", "update", "cancelled"}]
  /\ inChat \in [Chats -> SUBSET Members]
  /\ reminderLock \in Handlers \cup {Unlocked}
  /\ \A h \in Handlers : /\ noted[h] = [row |-> noted[h].row, attendees |-> noted[h].attendees]
                         /\ IsRow(noted[h].row) /\ noted[h].attendees \in SUBSET Members
  /\ moment \in DOMAIN Moments

ReminderInv ==
  /\ RowFacts
  /\ LockFacts
  /\ AnnouncedFacts
  /\ Surroundings
  /\ NoticesKnown

LEMMA GoneIsRow == IsRow(Gone) /\ ~Gone.exists /\ Gone.kind = "reminder" /\ ~Unread.row.exists
  BY ReminderAssumption DEF IsRow, Gone, Unread, Kinds, Statuses

LEMMA ReminderInitOK == ReminderInit => ReminderInv
<1> SUFFICES ASSUME ReminderInit
             PROVE  ReminderInv
  OBVIOUS
<1>1. /\ reminder = Gone /\ response = [m \in Members |-> "none"] /\ toldOf = [m \in Members |-> "none"]
      /\ noted = [h \in Handlers |-> Unread] /\ announced = 0
  BY DEF ReminderInit
<1>2. Attendees = {}
  BY <1>1 DEF Attendees
<1>3. RowFacts
  BY <1>1, <1>2, GoneIsRow DEF RowFacts
<1>4. LockFacts
  BY <1>1, GoneIsRow DEF LockFacts
<1>5. AnnouncedFacts
  BY <1>1 DEF AnnouncedFacts
<1>6. NoticesKnown
  BY <1>1, <1>2 DEF NoticesKnown
<1>7. moment \in DOMAIN Moments
  BY CalendarAssumption DEF ReminderInit
<1>8. Surroundings
  <2>1. \A h \in Handlers : noted[h] = Unread
    BY <1>1
  <2>2. Unread = [row |-> Unread.row, attendees |-> Unread.attendees] /\ IsRow(Unread.row) /\ Unread.attendees = {}
    BY GoneIsRow DEF Unread
  <2>3. \A h \in Handlers : /\ noted[h] = [row |-> noted[h].row, attendees |-> noted[h].attendees]
                           /\ IsRow(noted[h].row) /\ noted[h].attendees \in SUBSET Members
    BY <2>1, <2>2
  <2>4. inChat \in [Chats -> SUBSET Members] /\ reminderLock \in Handlers \cup {Unlocked}
    BY DEF ReminderInit
  <2>5. /\ response \in [Members -> {"none", "invited", "accepted", "declined"}]
        /\ toldOf \in [Members -> {"none", "invite", "update", "cancelled"}]
    BY <1>1
  <2> QED
    BY <1>7, <2>3, <2>4, <2>5 DEF Surroundings
<1> QED
  BY <1>3, <1>4, <1>5, <1>6, <1>8 DEF ReminderInv

(* Once who held the row has released it, nobody holds it.                 *)
LEMMA Released ==
  ASSUME ReminderInv, NEW h \in Handlers, noted[h].row.exists, Release(h)
  PROVE  /\ noted' = [q \in Handlers |-> noted'[q]]
         /\ \A q \in Handlers : ~noted'[q].row.exists
         /\ reminderLock' \in Handlers \cup {Unlocked}
         /\ \A q \in Handlers : /\ noted'[q] = [row |-> noted'[q].row, attendees |-> noted'[q].attendees]
                                /\ IsRow(noted'[q].row) /\ noted'[q].attendees \in SUBSET Members
<1>1. noted' = [noted EXCEPT ![h] = Unread] /\ noted = [q \in Handlers |-> noted[q]]
  BY DEF Release, ReminderInv, RowFacts
<1>2. \A q \in Handlers \ {h} : ~noted[q].row.exists
  BY DEF ReminderInv, LockFacts
<1>3. \A q \in Handlers : noted'[q] = IF q = h THEN Unread ELSE noted[q]
  BY <1>1
<1>4. \A q \in Handlers : ~noted'[q].row.exists
  BY <1>2, <1>3, GoneIsRow
<1>5. reminderLock' \in Handlers \cup {Unlocked}
  BY DEF Release, ReminderInv, Surroundings
<1>6. Unread = [row |-> Unread.row, attendees |-> Unread.attendees] /\ IsRow(Unread.row) /\ Unread.attendees = {}
  BY GoneIsRow DEF Unread
<1>7. \A q \in Handlers : /\ noted[q] = [row |-> noted[q].row, attendees |-> noted[q].attendees]
                         /\ IsRow(noted[q].row) /\ noted[q].attendees \in SUBSET Members
  BY DEF ReminderInv, Surroundings
<1>8. ASSUME NEW q \in Handlers
      PROVE  /\ noted'[q] = [row |-> noted'[q].row, attendees |-> noted'[q].attendees]
             /\ IsRow(noted'[q].row) /\ noted'[q].attendees \in SUBSET Members
  <2>1. CASE q = h
    BY <1>3, <1>6, <2>1
  <2>2. CASE q # h
    BY <1>3, <1>7, <2>2
  <2> QED
    BY <2>1, <2>2
<1> QED
  BY <1>1, <1>4, <1>5, <1>8

LEMMA ReleasedTypes ==
  ASSUME ReminderInv, NEW h \in Handlers, noted[h].row.exists, Release(h), UNCHANGED <<inChat, moment>>,
         response' \in [Members -> {"none", "invited", "accepted", "declined"}],
         toldOf' \in [Members -> {"none", "invite", "update", "cancelled"}]
  PROVE  Surroundings'
<1>1. inChat \in [Chats -> SUBSET Members] /\ moment \in DOMAIN Moments
  BY DEF ReminderInv, Surroundings
<1>2. /\ reminderLock' \in Handlers \cup {Unlocked}
      /\ \A q \in Handlers : /\ noted'[q] = [row |-> noted'[q].row, attendees |-> noted'[q].attendees]
                             /\ IsRow(noted'[q].row) /\ noted'[q].attendees \in SUBSET Members
  BY Released
<1>3. (\A q \in Handlers : /\ noted[q] = [row |-> noted[q].row, attendees |-> noted[q].attendees]
                          /\ IsRow(noted[q].row) /\ noted[q].attendees \in SUBSET Members)'
  BY <1>2 DEF IsRow
<1> QED
  BY <1>1, <1>2, <1>3 DEF Surroundings

(* Today is a day that has a month after it.                               *)
LEMMA TodayIsSoon == moment \in DOMAIN Moments => Soon(Today)
  BY CalendarAssumption DEF Soon, Today

(* Who attends is who was answered for.                                    *)
LEMMA WhoAttends ==
  ASSUME NEW S0, response' = Answers(S0)
  PROVE  /\ response' = [m \in Members |-> response'[m]]
         /\ Attendees' = Members \cap S0
         /\ Surroundings => response' \in [Members -> {"none", "invited", "accepted", "declined"}]
<1>1. response' = [m \in Members |-> IF m \notin S0 THEN "none" ELSE IF response[m] = "none" THEN "invited" ELSE response[m]]
  BY DEF Answers
<1>2. Attendees' = {m \in Members : response'[m] # "none"}
  BY DEF Attendees
<1>3. Surroundings => response' \in [Members -> {"none", "invited", "accepted", "declined"}]
  BY <1>1 DEF Surroundings
<1> QED
  BY <1>1, <1>2, <1>3

(* What is told is a notice.                                               *)
LEMMA TellTypes ==
  ASSUME NEW S0, NEW notice \in {"invite", "update", "cancelled"}, NEW before,
         \A m \in Members : before[m] \in {"none", "invite", "update", "cancelled"}
  PROVE  /\ Tell(S0, notice, before) \in [Members -> {"none", "invite", "update", "cancelled"}]
         /\ \A m \in Members : Tell(S0, notice, before)[m] \in {"none", "invite", "update", "cancelled"}
  BY DEF Tell

(* createReminder.                                                         *)
LEMMA CreateStep ==
  ASSUME ReminderInv, NEW kind \in Kinds, NEW chat \in Chats \cup {NoChat}, NEW rule \in Rules, NEW at \in Times,
         NEW anchor \in Anchors, NEW invite,
         Create(kind, chat, rule, at, anchor, invite)
  PROVE  ReminderInv'
<1> DEFINE party == IF kind = "meeting" THEN Synced(chat, invite) ELSE {}
           a     == IF rule # "monthly" THEN 0 ELSE IF anchor = Same THEN DayOf(at) ELSE anchor
<1>1. /\ ~reminder.exists /\ toldOf = [m \in Members |-> "none"]
      /\ reminder' = [exists |-> TRUE, kind |-> kind, status |-> "upcoming", chat |-> chat, rule |-> rule, at |-> at,
                      anchor |-> a, notified |-> FALSE]
      /\ response' = Answers(party) /\ toldOf' = Tell(party, "invite", toldOf)
      /\ announced' = 0 /\ UNCHANGED <<inChat, reminderLock, noted, moment>>
  BY DEF Create
<1>2. kind # "meeting" => party = {}
  OBVIOUS
<1>a. at \in Days /\ DayOf(at) \in 1..31
  BY CalendarAssumption, DayInMonth
<1>b. a \in 0..31 /\ (rule = "monthly" => a \in 1..31)
  BY <1>a DEF Anchors
<1> HIDE DEF party, a
<1>3. /\ response' = [m \in Members |-> response'[m]] /\ Attendees' = Members \cap party
      /\ response' \in [Members -> {"none", "invited", "accepted", "declined"}]
  BY <1>1, WhoAttends DEF ReminderInv
<1>4. IsRow(reminder)' /\ reminder'.exists /\ reminder'.kind = kind /\ reminder'.status = "upcoming"
  BY <1>1, <1>a, <1>b DEF IsRow, Statuses
<1>5. RowFacts'
  BY <1>1, <1>2, <1>3, <1>4 DEF ReminderInv, RowFacts
<1>6. \A h \in Handlers : ~noted[h].row.exists
  BY <1>1 DEF ReminderInv, LockFacts
<1>7. LockFacts'
  BY <1>1, <1>6 DEF LockFacts
<1>8. AnnouncedFacts'
  BY <1>1 DEF AnnouncedFacts
<1>9. \A m \in Members : toldOf'[m] = IF m \in party THEN "invite" ELSE "none"
  BY <1>1 DEF Tell
<1>10. NoticesKnown'
  BY <1>3, <1>4, <1>9 DEF NoticesKnown
<1>11. toldOf' \in [Members -> {"none", "invite", "update", "cancelled"}]
  BY <1>1 DEF Tell
<1>12. Surroundings'
  BY <1>1, <1>3, <1>11 DEF ReminderInv, Surroundings
<1> QED
  BY <1>5, <1>7, <1>8, <1>10, <1>12 DEF ReminderInv

(* A row is locked when nobody holds it.                                   *)
LEMMA LockRowStep ==
  ASSUME ReminderInv, NEW h \in Handlers, LockRow(h),
         h \in Schedulers => ~reminder.notified /\ reminder.at <= Today
  PROVE  ReminderInv'
<1>1. /\ reminderLock = Unlocked /\ reminderLock' = h
      /\ noted' = [noted EXCEPT ![h] = [row |-> reminder, attendees |-> Attendees]]
      /\ UNCHANGED <<reminder, response, toldOf, inChat, moment, announced>>
  BY DEF LockRow, ReminderFree
<1>2. noted = [q \in Handlers |-> noted[q]] /\ Unlocked \notin Handlers
  BY ReminderAssumption DEF ReminderInv, RowFacts, Handlers
<1>3. Attendees' = Attendees
  BY <1>1 DEF Attendees
<1>4. \A q \in Handlers \ {h} : ~noted[q].row.exists
  BY <1>1, <1>2 DEF ReminderInv, LockFacts
<1>5. \A q \in Handlers : noted'[q] = IF q = h THEN [row |-> reminder, attendees |-> Attendees] ELSE noted[q]
  BY <1>1, <1>2
<1>6. RowFacts'
  BY <1>1, <1>2, <1>3 DEF ReminderInv, RowFacts
<1>a. Today' = Today
  BY <1>1 DEF Today
<1>7. LockFacts'
  BY <1>1, <1>3, <1>4, <1>5, <1>a DEF LockFacts
<1>8. AnnouncedFacts' /\ NoticesKnown'
  BY <1>1, <1>3 DEF ReminderInv, AnnouncedFacts, NoticesKnown
<1>9. Attendees \in SUBSET Members /\ IsRow(reminder)
  BY DEF Attendees, ReminderInv, RowFacts
<1>10. Surroundings'
  BY <1>1, <1>5, <1>9 DEF ReminderInv, Surroundings
<1> QED
  BY <1>6, <1>7, <1>8, <1>10 DEF ReminderInv

LEMMA FailStep ==
  ASSUME ReminderInv, NEW h \in Handlers, GiveUp(h)
  PROVE  ReminderInv'
<1>1. noted[h].row.exists /\ Release(h) /\ UNCHANGED <<reminder, response, toldOf, inChat, moment, announced>>
  BY DEF GiveUp
<1>2. noted' = [q \in Handlers |-> noted'[q]] /\ \A q \in Handlers : ~noted'[q].row.exists
  BY <1>1, Released
<1>3. Attendees' = Attendees
  BY <1>1 DEF Attendees
<1>4. RowFacts' /\ LockFacts'
  BY <1>1, <1>2, <1>3 DEF ReminderInv, RowFacts, LockFacts
<1>5. AnnouncedFacts' /\ NoticesKnown'
  BY <1>1, <1>3 DEF ReminderInv, AnnouncedFacts, NoticesKnown
<1>6. Surroundings'
  <2>1. /\ response' \in [Members -> {"none", "invited", "accepted", "declined"}]
        /\ toldOf' \in [Members -> {"none", "invite", "update", "cancelled"}]
    BY <1>1 DEF ReminderInv, Surroundings
  <2> QED
    BY <1>1, <2>1, ReleasedTypes
<1> QED
  BY <1>4, <1>5, <1>6 DEF ReminderInv

(* deleteReminder tells those who attended, who are those who attend.      *)
LEMMA DeleteStep ==
  ASSUME ReminderInv, NEW h \in Handlers, Delete(h)
  PROVE  ReminderInv'
<1>1. /\ noted[h].row.exists /\ Release(h)
      /\ reminder' = Gone /\ response' = [m \in Members |-> "none"]
      /\ toldOf' = IF noted[h].row.kind = "meeting" THEN Tell(noted[h].attendees, "cancelled", toldOf) ELSE toldOf
      /\ UNCHANGED <<inChat, moment, announced>>
  BY DEF Delete
<1>2. noted' = [q \in Handlers |-> noted'[q]] /\ \A q \in Handlers : ~noted'[q].row.exists
  BY <1>1, Released
<1>3. Attendees' = {}
  BY <1>1 DEF Attendees
<1>4. RowFacts' /\ LockFacts'
  BY <1>1, <1>2, <1>3, GoneIsRow DEF RowFacts, LockFacts
<1>5. AnnouncedFacts'
  BY <1>1, GoneIsRow DEF ReminderInv, AnnouncedFacts
<1>6. noted[h].row = reminder /\ noted[h].attendees = Attendees
  BY <1>1 DEF ReminderInv, LockFacts
<1>7. ASSUME NEW m \in Members
      PROVE  toldOf'[m] \in {"none", "cancelled"}
  <2>1. m \notin Attendees => toldOf[m] \in {"none", "cancelled"}
    BY DEF ReminderInv, NoticesKnown
  <2>2. CASE reminder.kind = "meeting"
    <3>1. toldOf'[m] = IF m \in Attendees THEN "cancelled" ELSE toldOf[m]
      BY <1>1, <1>6, <2>2 DEF Tell
    <3> QED
      BY <2>1, <3>1
  <2>3. CASE reminder.kind # "meeting"
    <3>1. m \notin Attendees
      BY <2>3 DEF ReminderInv, RowFacts
    <3> QED
      BY <1>1, <1>6, <2>1, <2>3, <3>1
  <2> QED
    BY <2>2, <2>3
<1>8. NoticesKnown'
  BY <1>3, <1>7 DEF NoticesKnown
<1>9. Surroundings'
  <2>1. response' \in [Members -> {"none", "invited", "accepted", "declined"}]
    BY <1>1
  <2>2. \A m \in Members : toldOf[m] \in {"none", "invite", "update", "cancelled"}
    BY DEF ReminderInv, Surroundings
  <2>3. toldOf' \in [Members -> {"none", "invite", "update", "cancelled"}]
    BY <1>1, <2>2, TellTypes DEF ReminderInv, Surroundings
  <2> QED
    BY <1>1, <2>1, <2>3, ReleasedTypes
<1> QED
  BY <1>4, <1>5, <1>8, <1>9 DEF ReminderInv

(* respondToMeeting changes the answer of one who attends.                 *)
LEMMA RespondStep ==
  ASSUME ReminderInv, NEW m \in Members, NEW answer \in {"accepted", "declined"}, Respond(m, answer)
  PROVE  ReminderInv'
<1>1. /\ m \in Attendees /\ response' = [response EXCEPT ![m] = answer]
      /\ UNCHANGED <<reminder, toldOf, inChat, reminderLock, noted, moment, announced>>
  BY DEF Respond
<1>2. response = [n \in Members |-> response[n]]
  BY DEF ReminderInv, RowFacts
<1>3. \A n \in Members : response'[n] = IF n = m THEN answer ELSE response[n]
  BY <1>1, <1>2
<1>4. Attendees' = Attendees
  <2>1. Attendees' = {n \in Members : response'[n] # "none"}
    BY DEF Attendees
  <2>2. \A n \in Members : response'[n] # "none" <=> response[n] # "none"
    BY <1>1, <1>3 DEF Attendees
  <2> QED
    BY <2>1, <2>2 DEF Attendees
<1>5. RowFacts'
  BY <1>1, <1>2, <1>4 DEF ReminderInv, RowFacts
<1>6. LockFacts' /\ AnnouncedFacts' /\ NoticesKnown'
  BY <1>1, <1>4 DEF ReminderInv, LockFacts, AnnouncedFacts, NoticesKnown, Today
<1>7. response' \in [Members -> {"none", "invited", "accepted", "declined"}]
  BY <1>1 DEF ReminderInv, Surroundings
<1>8. Surroundings'
  BY <1>1, <1>7 DEF ReminderInv, Surroundings
<1> QED
  BY <1>5, <1>6, <1>8 DEF ReminderInv

(* A reminder that is announced had not been, since it was set.            *)
LEMMA AnnounceStep ==
  ASSUME ReminderInv, NEW s \in Schedulers, Announce(s)
  PROVE  ReminderInv'
<1> DEFINE next == NextOccurrence(noted[s].row.at, noted[s].row.rule, noted[s].row.anchor, Today)
<1>0. s \in Handlers
  BY DEF Handlers
<1>1. /\ noted[s].row.exists /\ Release(s)
      /\ reminder' = IF noted[s].row.rule = "none" THEN [reminder EXCEPT !.notified = TRUE]
                     ELSE [reminder EXCEPT !.at = next]
      /\ announced' = IF noted[s].row.rule = "none" THEN announced + 1 ELSE 0
      /\ UNCHANGED <<response, toldOf, inChat, moment>>
  BY DEF Announce
<1> HIDE DEF next
<1>2. noted' = [q \in Handlers |-> noted'[q]] /\ \A q \in Handlers : ~noted'[q].row.exists
  BY <1>0, <1>1, Released
<1>3. ~reminder.notified /\ reminder.exists /\ announced = 0 /\ IsRow(reminder) /\ noted[s].row = reminder
  BY <1>0, <1>1 DEF ReminderInv, RowFacts, LockFacts, AnnouncedFacts
<1>a. reminder.rule # "none" => next \in Days
  <2>1. reminder.rule # "none" => Repeats(reminder.rule, reminder.anchor)
    BY <1>3, ReminderAssumption DEF IsRow, Repeats
  <2>2. reminder.at \in Days /\ Soon(Today)
    BY <1>3, TodayIsSoon DEF IsRow, ReminderInv, Surroundings
  <2> QED
    BY <1>3, <2>1, <2>2, NextIsFirst DEF next
<1>4. Attendees' = Attendees
  BY <1>1 DEF Attendees
<1>5. /\ IsRow(reminder)' /\ reminder'.exists
      /\ reminder'.kind = reminder.kind /\ reminder'.status = reminder.status
      /\ noted[s].row.rule = "none" => reminder'.notified
  BY <1>1, <1>3, <1>a DEF IsRow
<1>6. RowFacts' /\ LockFacts'
  BY <1>1, <1>2, <1>3, <1>4, <1>5 DEF ReminderInv, RowFacts, LockFacts
<1>7. AnnouncedFacts'
  BY <1>1, <1>3, <1>5 DEF AnnouncedFacts
<1>8. NoticesKnown'
  BY <1>1, <1>4, <1>5 DEF ReminderInv, NoticesKnown
<1>9. Surroundings'
  <2>1. /\ response' \in [Members -> {"none", "invited", "accepted", "declined"}]
        /\ toldOf' \in [Members -> {"none", "invite", "update", "cancelled"}]
    BY <1>1 DEF ReminderInv, Surroundings
  <2> QED
    BY <1>0, <1>1, <2>1, ReleasedTypes
<1> QED
  BY <1>6, <1>7, <1>8, <1>9 DEF ReminderInv

-----------------------------------------------------------------------------
(* updateReminder.                                                         *)

(* What the UPDATE makes of the row.                                       *)
LEMMA EditedRow ==
  ASSUME NEW r, IsRow(r), r.exists, NEW u \in Edits
  PROVE  /\ IsRow(Edited(r, u)) /\ Edited(r, u).exists = r.exists
         /\ Edited(r, u).notified = (r.notified /\ u.at = Same /\ u.status # "upcoming")
         /\ u.kind = Same => Edited(r, u).kind = r.kind
<1>1. /\ u.kind \in Kinds \cup {Same} /\ u.status \in Statuses \cup {Same} /\ u.chat \in Chats \cup {NoChat, Same}
      /\ u.at \in Times \cup {Same} /\ u.rule \in Rules \cup {Same} /\ u.anchor \in Anchors
  BY DEF Edits, Anchors
<1> DEFINE rule   == IF u.status \in {"completed", "cancelled"} THEN "none" ELSE Or(u.rule, r.rule)
           anchor == IF rule # "monthly" THEN 0 ELSE IF u.anchor # Same THEN u.anchor
                     ELSE IF r.anchor # 0 THEN r.anchor ELSE DayOf(Or(u.at, r.at))
           k == Or(u.kind, r.kind)
           st == Or(u.status, r.status)
           c  == Or(u.chat, r.chat)
           a  == Or(u.at, r.at)
           n  == r.notified /\ u.at = Same /\ u.status # "upcoming"
<1>2. k \in Kinds /\ st \in Statuses /\ n \in BOOLEAN /\ (u.kind = Same => k = r.kind)
  BY <1>1 DEF Or, IsRow
<1>a. a \in Days /\ DayOf(a) \in 1..31
  <2>1. a \in Days
    BY <1>1, CalendarAssumption DEF Or, IsRow
  <2> QED
    BY <2>1, DayInMonth
<1>b. c \in Chats \cup {NoChat} /\ rule \in Rules
  BY <1>1, ReminderAssumption DEF Or, IsRow
<1>c. anchor \in 0..31 /\ (rule = "monthly" => anchor \in 1..31)
  <2>1. (u.anchor # Same => u.anchor \in 1..31) /\ (r.anchor # 0 => r.anchor \in 1..31)
    BY <1>1 DEF Anchors, IsRow
  <2> HIDE DEF rule
  <2> QED
    BY <1>a, <2>1
<1>3. Edited(r, u) = [r EXCEPT !.kind = k, !.status = st, !.chat = c, !.at = a, !.rule = rule, !.anchor = anchor,
                                 !.notified = n]
  BY DEF Edited
<1> HIDE DEF rule, anchor, k, st, c, a, n
<1>4. Edited(r, u) = [exists |-> r.exists, kind |-> k, status |-> st, chat |-> c, rule |-> rule,
                        anchor |-> anchor, at |-> a, notified |-> n]
  BY <1>3 DEF IsRow
<1>5. IsRow(Edited(r, u)) /\ Edited(r, u).exists = r.exists /\ Edited(r, u).notified = n /\ Edited(r, u).kind = k
  BY <1>2, <1>4, <1>a, <1>b, <1>c DEF IsRow
<1> QED
  BY <1>2, <1>5 DEF n

(* Rows that differ in nothing a notice tells of have the same status.     *)
LEMMA RowsAlike ==
  ASSUME NEW r1, IsRow(r1), NEW r2, IsRow(r2),
         [r1 EXCEPT !.notified = FALSE, !.anchor = 0] = [r2 EXCEPT !.notified = FALSE, !.anchor = 0]
  PROVE  r1.status = r2.status /\ r1.kind = r2.kind
<1>1. \A r : IsRow(r) => [r EXCEPT !.notified = FALSE, !.anchor = 0].status = r.status
                         /\ [r EXCEPT !.notified = FALSE, !.anchor = 0].kind = r.kind
  BY DEF IsRow
<1> QED
  BY <1>1

(* Whom an update tells what, once it holds the row: with who attends      *)
(* before it, A, and after it, party.                                      *)
LEMMA SaveStep ==
  ASSUME ReminderInv, NEW h \in Handlers, NEW u \in Edits, Save(h, u)
  PROVE  ReminderInv'
<1> DEFINE old     == noted[h].row
           A       == Attendees
           new     == Edited(reminder, u)
           invite  == Or(u.invite, A # {})
           party   == IF new.kind # "meeting" THEN {}
                      ELSE IF new.status = "upcoming" /\ (u.invite # Same \/ u.chat # Same) THEN Synced(new.chat, invite)
                      ELSE A
           removed == noted[h].attendees \ party
           kept    == noted[h].attendees \cap party
           ends    == old.kind = "meeting" /\ (new.kind # "meeting" \/ (new.status = "cancelled" /\ old.status # "cancelled"))
           changed == u.details \/ [old EXCEPT !.notified = FALSE, !.anchor = 0] # [new EXCEPT !.notified = FALSE, !.anchor = 0]
           told    == Tell(party \ A, "invite", toldOf)
<1>1. /\ old.exists /\ reminder' = new
      /\ response' = Answers(party)
      /\ toldOf' = IF ends THEN Tell(noted[h].attendees, "cancelled", told)
                   ELSE IF new.kind # "meeting" THEN told
                   ELSE Tell(removed, "cancelled", IF changed /\ new.status = "upcoming" THEN Tell(kept, "update", told) ELSE told)
      /\ announced' = IF u.at # Same \/ u.status = "upcoming" THEN 0 ELSE announced
      /\ Release(h)
      /\ UNCHANGED <<inChat, moment>>
  BY DEF Save
<1>2. noted' = [q \in Handlers |-> noted'[q]] /\ \A q \in Handlers : ~noted'[q].row.exists
  BY <1>1, Released
<1>3. old = reminder /\ noted[h].attendees = A
  BY <1>1 DEF ReminderInv, LockFacts
<1>4. /\ IsRow(reminder) /\ IsRow(new) /\ new.exists = reminder.exists /\ reminder.exists
      /\ new.notified = (reminder.notified /\ u.at = Same /\ u.status # "upcoming")
  BY <1>1, <1>3, EditedRow DEF ReminderInv, RowFacts
<1>5. /\ response' = [m \in Members |-> response'[m]] /\ Attendees' = Members \cap party
      /\ response' \in [Members -> {"none", "invited", "accepted", "declined"}]
  BY <1>1, WhoAttends DEF ReminderInv
<1>a. toldOf' \in [Members -> {"none", "invite", "update", "cancelled"}]
  <2>1. \A m \in Members : toldOf[m] \in {"none", "invite", "update", "cancelled"}
    BY DEF ReminderInv, Surroundings
  <2> HIDE DEF old, A, new, invite, party, removed, kept, ends, changed
  <2>2. told \in [Members -> {"none", "invite", "update", "cancelled"}]
    BY <2>1, TellTypes
  <2>3. Tell(kept, "update", told) \in [Members -> {"none", "invite", "update", "cancelled"}]
    BY <2>2, TellTypes
  <2> HIDE DEF told
  <2>4. \A S0 : /\ Tell(S0, "cancelled", told) \in [Members -> {"none", "invite", "update", "cancelled"}]
               /\ Tell(S0, "cancelled", Tell(kept, "update", told)) \in [Members -> {"none", "invite", "update", "cancelled"}]
    BY <2>2, <2>3, TellTypes
  <2> QED
    BY <1>1, <2>2, <2>4
<1>6. new.kind # "meeting" => party = {}
  OBVIOUS
<1>7. new.kind = "meeting" /\ new.status # "upcoming" => party = A
  OBVIOUS
<1>8. reminder.kind # "meeting" => A = {}
  BY DEF ReminderInv, RowFacts
<1>9. ~changed => new.status = reminder.status
  BY <1>3, <1>4, RowsAlike
<1>10. \A m \in Members : told[m] = IF m \in party \ A THEN "invite" ELSE toldOf[m]
  BY DEF Tell
<1>11. \A m \in Members : toldOf'[m] =
         IF ends THEN IF m \in A THEN "cancelled" ELSE told[m]
         ELSE IF new.kind # "meeting" THEN told[m]
         ELSE IF m \in A \ party THEN "cancelled"
         ELSE IF changed /\ new.status = "upcoming" /\ m \in A \cap party THEN "update"
         ELSE told[m]
  BY <1>1, <1>3 DEF Tell
<1>12. ends = (reminder.kind = "meeting" /\ (new.kind # "meeting" \/ (new.status = "cancelled" /\ reminder.status # "cancelled")))
  BY <1>3
<1>b. noted[h].row.exists
  BY <1>1
<1> HIDE DEF old, A, new, invite, party, removed, kept, ends, changed, told
<1>13. RowFacts'
  BY <1>1, <1>2, <1>4, <1>5, <1>6 DEF RowFacts
<1>14. LockFacts'
  BY <1>2 DEF LockFacts
<1>15. AnnouncedFacts'
  BY <1>1, <1>4 DEF ReminderInv, AnnouncedFacts, IsRow
<1>16. \A m \in Members :
         /\ m \in A /\ reminder.status = "upcoming"  => toldOf[m] \in {"invite", "update"}
         /\ m \in A /\ reminder.status = "cancelled" => toldOf[m] = "cancelled"
         /\ m \notin A => toldOf[m] \in {"none", "cancelled"}
  BY DEF ReminderInv, NoticesKnown, A
<1>17. ASSUME NEW m \in Members
       PROVE  /\ m \in party /\ new.status = "upcoming"  => toldOf'[m] \in {"invite", "update"}
              /\ m \in party /\ new.status = "cancelled" => toldOf'[m] = "cancelled"
              /\ m \notin party => toldOf'[m] \in {"none", "cancelled"}
  <2>1. CASE ends
    BY <1>6, <1>7, <1>10, <1>11, <1>12, <1>16, <2>1
  <2>2. CASE ~ends /\ new.kind # "meeting"
    BY <1>6, <1>8, <1>10, <1>11, <1>12, <1>16, <2>2
  <2>3. CASE ~ends /\ new.kind = "meeting"
    <3>1. m \in party /\ new.status = "upcoming" => toldOf'[m] \in {"invite", "update"}
      BY <1>9, <1>10, <1>11, <1>16, <2>3
    <3>2. m \in party /\ new.status = "cancelled" => toldOf'[m] = "cancelled"
      BY <1>7, <1>8, <1>10, <1>11, <1>12, <1>16, <2>3
    <3>3. m \notin party => toldOf'[m] \in {"none", "cancelled"}
      BY <1>10, <1>11, <1>16, <2>3
    <3> QED
      BY <3>1, <3>2, <3>3
  <2> QED
    BY <2>1, <2>2, <2>3
<1>18. NoticesKnown'
  BY <1>1, <1>5, <1>17 DEF NoticesKnown
<1>19. Surroundings'
  BY <1>1, <1>3, <1>5, <1>a, <1>b, ReleasedTypes
<1> QED
  BY <1>13, <1>14, <1>15, <1>18, <1>19 DEF ReminderInv

-----------------------------------------------------------------------------
(* The component.                                                          *)

(* What coming, going and the passing of time leave of the invariant: what *)
(* was due still is.                                                       *)
LEMMA AroundStep ==
  ASSUME ReminderInv, UNCHANGED <<reminder, response, toldOf, reminderLock, noted, announced>>,
         inChat' \in [Chats -> SUBSET Members], moment' \in DOMAIN Moments, Today <= Today'
  PROVE  ReminderInv'
<1>1. Attendees' = Attendees
  BY DEF Attendees
<1>2. RowFacts' /\ AnnouncedFacts' /\ NoticesKnown'
  BY <1>1 DEF ReminderInv, RowFacts, IsRow, AnnouncedFacts, NoticesKnown
<1>3. Surroundings'
  BY DEF ReminderInv, Surroundings, IsRow
<1>4. Today \in Nat /\ Today' \in Nat
  <2>1. moment \in DOMAIN Moments /\ Moments \in Seq(Days)
    BY CalendarAssumption DEF ReminderInv, Surroundings
  <2>2. Today \in Days /\ Today' \in Days
    BY <2>1 DEF Today
  <2> QED
    BY <2>2 DEF Days
<1>5. ASSUME NEW h \in Handlers, noted'[h].row.exists
      PROVE  /\ reminderLock' = h /\ noted'[h].row = reminder' /\ noted'[h].attendees = Attendees'
             /\ h \in Schedulers => ~reminder'.notified /\ reminder'.at <= Today'
  <2>1. noted[h].row.exists
    BY <1>5
  <2>2. /\ reminderLock = h /\ noted[h].row = reminder /\ noted[h].attendees = Attendees
        /\ h \in Schedulers => ~reminder.notified /\ reminder.at <= Today
    BY <2>1 DEF ReminderInv, LockFacts
  <2>3. reminder.at \in Nat
    BY DEF ReminderInv, RowFacts, IsRow, Days
  <2> QED
    BY <1>1, <1>4, <2>2, <2>3
<1>6. LockFacts'
  BY <1>5 DEF LockFacts
<1> QED
  BY <1>2, <1>3, <1>6 DEF ReminderInv

LEMMA ReminderStep == ReminderInv /\ [ReminderNext]_reminderVars => ReminderInv'
<1> SUFFICES ASSUME ReminderInv, [ReminderNext]_reminderVars
             PROVE  ReminderInv'
  OBVIOUS
<1>1. /\ inChat \in [Chats -> SUBSET Members] /\ moment \in DOMAIN Moments
      /\ Moments \in Seq(Days) /\ \A d \in Days : d <= d
  BY CalendarAssumption DEF ReminderInv, Surroundings, Days
<1>2. ASSUME NEW k \in Kinds, NEW c \in Chats \cup {NoChat}, NEW r \in Rules, NEW t \in Times, NEW a \in Anchors,
             NEW i \in BOOLEAN, Create(k, c, r, t, a, i)
      PROVE  ReminderInv'
  BY <1>2, CreateStep
<1>3. ASSUME NEW h \in Editors, LockRow(h) \/ Delete(h) \/ (\E u \in Edits : Save(h, u))
      PROVE  ReminderInv'
  <2>1. h \in Handlers /\ h \notin Schedulers
    BY ReminderAssumption DEF Handlers
  <2> QED
    BY <1>3, <2>1, LockRowStep, DeleteStep, SaveStep
<1>4. ASSUME NEW s \in Schedulers, TakeDue(s) \/ Announce(s)
      PROVE  ReminderInv'
  <2>1. s \in Handlers
    BY DEF Handlers
  <2>2. CASE TakeDue(s)
    <3>1. LockRow(s) /\ ~reminder.notified /\ reminder.at <= Today
      BY <2>2 DEF TakeDue, ReminderDue
    <3> QED
      BY <2>1, <3>1, LockRowStep
  <2> QED
    BY <1>4, <2>2, AnnounceStep
<1>5. ASSUME NEW h \in Handlers, GiveUp(h)
      PROVE  ReminderInv'
  BY <1>5, FailStep
<1>6. ASSUME NEW m \in Members, (\E a \in {"accepted", "declined"} : Respond(m, a)) \/ (\E c \in Chats : ComeOrGo(m, c))
      PROVE  ReminderInv'
  <2>1. CASE \E a \in {"accepted", "declined"} : Respond(m, a)
    BY <2>1, RespondStep
  <2>2. CASE \E c \in Chats : ComeOrGo(m, c)
    <3>1. PICK c \in Chats : ComeOrGo(m, c)
      BY <2>2
    <3>2. inChat' \in [Chats -> SUBSET Members]
      BY <1>1, <3>1 DEF ComeOrGo
    <3>3. moment' \in DOMAIN Moments /\ Today <= Today'
      BY <1>1, <3>1 DEF ComeOrGo, Today
    <3> QED
      BY <3>1, <3>2, <3>3, AroundStep DEF ComeOrGo
  <2> QED
    BY <1>6, <2>1, <2>2
<1>7. CASE TimePasses
  <2>1. moment < Len(Moments) /\ moment' = moment + 1 /\ inChat' = inChat
    BY <1>7 DEF TimePasses
  <2>2. moment' \in DOMAIN Moments /\ moment < moment'
    BY <1>1, <2>1
  <2>3. Today <= Today'
    BY <1>1, <2>2, CalendarAssumption DEF Today
  <2> QED
    BY <1>1, <1>7, <2>1, <2>2, <2>3, AroundStep DEF TimePasses
<1>8. CASE UNCHANGED reminderVars
  <2>1. moment' \in DOMAIN Moments /\ Today <= Today' /\ inChat' \in [Chats -> SUBSET Members]
    BY <1>1, <1>8 DEF reminderVars, Today
  <2> QED
    BY <1>8, <2>1, AroundStep DEF reminderVars
<1> QED
  BY <1>2, <1>3, <1>4, <1>5, <1>6, <1>7, <1>8 DEF ReminderNext

(* A step of Sessions is none of Reminders.                                *)
LEMMA OneAccountPartSteps ==
  [AccountsNext]_accountsVars => [ReminderNext]_reminderVars
  BY DEF AccountsNext, accountsVars

(* The handlers and schedulers of reminders keep their invariant, for any  *)
(* number of members, requests and processes.                              *)
THEOREM RemindersInductive == AccountsSpec => []ReminderInv
<1>1. AccountsInit => ReminderInv
  BY ReminderInitOK DEF AccountsInit
<1>2. ReminderInv /\ [AccountsNext]_accountsVars => ReminderInv'
  BY OneAccountPartSteps, ReminderStep
<1> QED
  BY <1>1, <1>2, PTL DEF AccountsSpec

(* The last notice a member has of a meeting is true, whatever edits,      *)
(* deletions, answers and departures overlap (updateReminder).             *)
THEOREM NoticesTold == AccountsSpec => []NoticesKnown
<1>1. ReminderInv => NoticesKnown
  BY DEF ReminderInv
<1> QED
  BY <1>1, RemindersInductive, PTL

(* However many processes run dispatchDueReminders, they announce an       *)
(* occurrence once, also when it is edited meanwhile.                      *)
THEOREM OneAnnouncement == AccountsSpec => []AnnouncedOnce
<1>1. ReminderInv => AnnouncedOnce
  BY DEF ReminderInv, AnnouncedFacts, AnnouncedOnce
<1> QED
  BY <1>1, RemindersInductive, PTL

(* A step of Reminders is none of Sessions.                                *)
LEMMA OtherAccountPartSteps ==
  [AccountsNext]_accountsVars => [SessionNext]_sessionVars
  BY DEF AccountsNext, accountsVars

LEMMA SessionsBeside == AccountsSpec => SessionSpec
<1>1. AccountsInit => SessionInit
  BY DEF AccountsInit
<1> QED
  BY <1>1, OtherAccountPartSteps, PTL DEF AccountsSpec, SessionSpec

(* A row as the proofs have it is one of the type invariant.               *)
LEMMA RowsAreTyped == \A r : IsRow(r) => r \in ReminderRows
<1> SUFFICES ASSUME NEW r, IsRow(r)
             PROVE  r \in ReminderRows
  OBVIOUS
<1>1. /\ r = [exists |-> r.exists, kind |-> r.kind, status |-> r.status, chat |-> r.chat, rule |-> r.rule,
               anchor |-> r.anchor, at |-> r.at, notified |-> r.notified]
      /\ r.exists \in BOOLEAN /\ r.notified \in BOOLEAN /\ r.kind \in Kinds /\ r.status \in Statuses
      /\ r.chat \in Chats \cup {NoChat} /\ r.rule \in Rules /\ r.anchor \in 0..31 /\ r.at \in Days \cup {0}
  BY DEF IsRow
<1> QED
  BY <1>1 DEF ReminderRows

(* The tables and requests of Sessions and Reminders are well typed: every *)
(* day a reminder is moved to is a day of the calendar.                    *)
THEOREM AccountsTypes == AccountsSpec => []AccountsTypeOK
<1>1. ReminderInv => ReminderTypeOK
  <2> SUFFICES ASSUME ReminderInv
               PROVE  ReminderTypeOK
    OBVIOUS
  <2>1. reminder \in ReminderRows
    BY RowsAreTyped DEF ReminderInv, RowFacts
  <2>2. noted = [h \in Handlers |-> noted[h]]
    BY DEF ReminderInv, RowFacts
  <2>3. ASSUME NEW h \in Handlers
        PROVE  noted[h] \in [row : ReminderRows, attendees : SUBSET Members]
    <3>1. /\ noted[h] = [row |-> noted[h].row, attendees |-> noted[h].attendees]
          /\ IsRow(noted[h].row) /\ noted[h].attendees \in SUBSET Members
      BY DEF ReminderInv, Surroundings
    <3> QED
      BY <3>1, RowsAreTyped
  <2>4. noted \in [Handlers -> [row : ReminderRows, attendees : SUBSET Members]]
    BY <2>2, <2>3
  <2>5. announced \in Nat
    BY DEF ReminderInv, AnnouncedFacts
  <2> QED
    BY <2>1, <2>4, <2>5 DEF ReminderInv, Surroundings, ReminderTypeOK
<1>2. SessionTypeOK /\ ReminderInv => AccountsTypeOK
  BY <1>1 DEF AccountsTypeOK
<1> QED
  BY <1>2, SessionsBeside, SessionTypes, RemindersInductive, PTL

(* nextReminderOccurrence: however many occurrences it has missed, a       *)
(* reminder moves to the first one after today, and a monthly one keeps    *)
(* the day it was set for.                                                 *)
THEOREM MovesOn == AccountsSpec => MovesToNext
<1>1. ASSUME ReminderInv, NEW s \in Schedulers, Announce(s), noted[s].row.rule # "none"
      PROVE  LET after == {d \in Occurrences(noted[s].row) : d > Today} IN
             reminder'.at \in after /\ \A d \in after : reminder'.at <= d
  <2> DEFINE r == noted[s].row
             n == NextOccurrence(r.at, r.rule, r.anchor, Today)
  <2>1. r.exists /\ reminder' = [reminder EXCEPT !.at = n]
    BY <1>1 DEF Announce
  <2>2. r = reminder /\ reminder.at <= Today
    BY <1>1, <2>1 DEF ReminderInv, LockFacts, Handlers
  <2>3. IsRow(reminder)
    BY <1>1 DEF ReminderInv, RowFacts
  <2>4. Repeats(r.rule, r.anchor) /\ r.at \in Days
    BY <1>1, <2>1, <2>2, <2>3, ReminderAssumption DEF IsRow, Repeats
  <2>5. Soon(Today)
    BY <1>1, TodayIsSoon DEF ReminderInv, Surroundings
  <2>6. First(n, r.at, r.rule, r.anchor, Today)
    BY <2>2, <2>4, <2>5, NextIsFirst
  <2>7. Occurrences(r) = Coming(r.at, r.rule, r.anchor)
    BY <2>4, ComingDays DEF Repeats
  <2> HIDE DEF n
  <2>8. reminder'.at = n
    BY <2>1, <2>3 DEF IsRow
  <2> QED
    BY <2>6, <2>7, <2>8 DEF First
<1>2. ReminderInv => [\A s \in Schedulers : Announce(s) /\ noted[s].row.rule # "none" =>
        LET after == {d \in Occurrences(noted[s].row) : d > Today} IN
        reminder'.at \in after /\ \A d \in after : reminder'.at <= d]_reminder
  BY <1>1
<1> QED
  BY <1>2, RemindersInductive, PTL DEF MovesToNext
===============================================================================
