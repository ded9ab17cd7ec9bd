----------------------------- MODULE MCAccounts -----------------------------
(***************************************************************************)
(* Small instances of Sessions and Reminders.  They share no variable, so  *)
(* that one of them is chosen at the start and the other rests.            *)
(***************************************************************************)
EXTENDS Sessions, Reminders

VARIABLE part   \* the component that runs

AccountsInit ==
  /\ part \in {"sessions", "reminders"}
  /\ SessionInit /\ ReminderInit
  /\ part # "reminders" => inChat = [c \in Chats |-> {}]

AccountsNext ==
  \/ part = "sessions" /\ SessionNext /\ UNCHANGED <<part, reminderVars>>
  \/ part = "reminders" /\ ReminderNext /\ UNCHANGED <<part, sessionVars>>

accountsVars == <<part, sessionVars, reminderVars>>

AccountsSpec == AccountsInit /\ [][AccountsNext]_accountsVars

\* January to April, and the days on which something happens.
FourMonths == <<1, 32, 60, 91, 121>>
ThreeDays  == <<30, 33, 60>>

\* The type invariants of the two.
AccountsTypeOK == SessionTypeOK /\ ReminderTypeOK
=============================================================================
