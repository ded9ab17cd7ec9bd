----------------------------- MODULE MessageEdits -----------------------------
(***************************************************************************)
(* What changes a posted message: pinMessage and unpinMessage of chat.go,  *)
(* editMessage, deleteMessage and the expiry of disappearing messages of   *)
(* chat_management.go, for the text messages of one conversation.          *)
(***************************************************************************)
EXTENDS Naturals, FiniteSets

CONSTANTS
  Texts,       \* the messages
  Edits,       \* requests in progress at the same time
  Free,        \* nobody holds a lock
  PinMaximum   \* pins of a conversation, 3 in the code

VARIABLES
  body,      \* messages.body: "first", "edited", "" once deleted
  deleted,   \* messages.deleted_at is set
  pins,      \* message_pins
  rowLock,   \* who holds the row of each message
  pinLock,   \* who holds the advisory lock of the conversation's pins
  editing,   \* how far each request is
  subject,   \* the message it is about
  adds       \* whether the pin is to be inserted

editVars == <<body, deleted, pins, rowLock, pinLock, editing, subject, adds>>

EditTypeOK ==
  /\ body \in [Texts -> {"first", "edited", ""}]
  /\ deleted \in SUBSET Texts
  /\ pins \in SUBSET Texts
  /\ rowLock \in [Texts -> Edits \cup {Free}]
  /\ pinLock \in Edits \cup {Free}
  /\ editing \in [Edits -> {"idle", "found", "locked", "counted", "editing", "deleted"}]
  /\ subject \in [Edits -> Texts]
  /\ adds \in [Edits -> BOOLEAN]

EditInit ==
  /\ body = [m \in Texts |-> "first"]
  /\ deleted = {}
  /\ pins = {}
  /\ rowLock = [m \in Texts |-> Free]
  /\ pinLock = Free
  /\ editing = [r \in Edits |-> "idle"]
  /\ subject \in [Edits -> Texts]
  /\ adds = [r \in Edits |-> FALSE]

Goto(r, step) == editing' = [editing EXCEPT ![r] = step]

\* pinMessage finds the message undeleted before its transaction ...
FindToPin(r) ==
  /\ editing[r] = "idle"
  /\ subject[r] \notin deleted
  /\ Goto(r, "found")
  /\ UNCHANGED <<body, deleted, pins, rowLock, pinLock, subject, adds>>

\* Mutant: no advisory lock.
PinsShared == TRUE

\* ... takes the advisory lock ...
PinsFree == pinLock = Free

LockPins(r) ==
  /\ editing[r] = "found"
  /\ PinsFree
  /\ pinLock' = r
  /\ Goto(r, "locked")
  /\ UNCHANGED <<body, deleted, pins, rowLock, subject, adds>>

\* ... counts the pins of undeleted messages unless it is pinned already ...
CountPins(r) ==
  LET pinned == subject[r] \in pins
      full   == Cardinality(pins \ deleted) >= PinMaximum
  IN
  /\ editing[r] = "locked"
  /\ adds' = [adds EXCEPT ![r] = ~pinned]
  /\ IF ~pinned /\ full
     THEN Goto(r, "idle") /\ pinLock' = Free
     ELSE Goto(r, "counted") /\ UNCHANGED pinLock
  /\ UNCHANGED <<body, deleted, pins, rowLock, subject>>

\* ... and inserts the pin and commits.
AddPin(r) ==
  /\ editing[r] = "counted"
  /\ pins' = IF adds[r] THEN pins \cup {subject[r]} ELSE pins
  /\ pinLock' = Free
  /\ Goto(r, "idle")
  /\ UNCHANGED <<body, deleted, rowLock, subject, adds>>

Unpin(m) ==
  /\ m \in pins
  /\ pins' = pins \ {m}
  /\ UNCHANGED <<body, deleted, rowLock, pinLock, editing, subject, adds>>

\* Mutant: an edit that does not ask whether the message is deleted.
EditableUnlocked(m) == rowLock[m] = Free

\* editMessage locks the row of an undeleted message ...
Editable(m) == rowLock[m] = Free /\ m \notin deleted

LockToEdit(r) ==
  /\ editing[r] = "idle"
  /\ Editable(subject[r])
  /\ rowLock' = [rowLock EXCEPT ![subject[r]] = r]
  /\ Goto(r, "editing")
  /\ UNCHANGED <<body, deleted, pins, pinLock, subject, adds>>

\* ... and writes it by its id alone.
WriteEdit(r) ==
  /\ editing[r] = "editing"
  /\ body' = [body EXCEPT ![subject[r]] = "edited"]
  /\ rowLock' = [rowLock EXCEPT ![subject[r]] = Free]
  /\ Goto(r, "idle")
  /\ UNCHANGED <<deleted, pins, pinLock, subject, adds>>

\* deleteMessage empties the message ...
Unlocked(m) == rowLock[m] = Free

Empty(m) ==
  /\ m \notin deleted
  /\ Unlocked(m)
  /\ deleted' = deleted \cup {m}
  /\ body' = [body EXCEPT ![m] = ""]

Delete(r) ==
  /\ editing[r] = "idle"
  /\ Empty(subject[r])
  /\ Goto(r, "deleted")
  /\ UNCHANGED <<pins, rowLock, pinLock, subject, adds>>

\* ... and removes its pin in a statement of its own.
RemovePin(r) ==
  /\ editing[r] = "deleted"
  /\ pins' = pins \ {subject[r]}
  /\ Goto(r, "idle")
  /\ UNCHANGED <<body, deleted, rowLock, pinLock, subject, adds>>

\* expireConversationMessages, at the head of every listing.
Disappear(m) ==
  /\ Empty(m)
  /\ UNCHANGED <<pins, rowLock, pinLock, editing, subject, adds>>

\* The process stops or a statement fails: its locks go.
Interrupt(r) ==
  /\ editing[r] # "idle"
  /\ rowLock' = [m \in Texts |-> IF rowLock[m] = r THEN Free ELSE rowLock[m]]
  /\ pinLock' = IF pinLock = r THEN Free ELSE pinLock
  /\ Goto(r, "idle")
  /\ UNCHANGED <<body, deleted, pins, subject, adds>>

EditNext ==
  \/ \E r \in Edits :
       \/ FindToPin(r) \/ LockPins(r) \/ CountPins(r) \/ AddPin(r)
       \/ LockToEdit(r) \/ WriteEdit(r) \/ Delete(r) \/ RemovePin(r) \/ Interrupt(r)
  \/ \E m \in Texts : Unpin(m) \/ Disappear(m)

-----------------------------------------------------------------------------
\* No more than the maximum of undeleted messages are pinned, however requests
\* to pin overlap (pinMessage counts before it inserts).
PinsLimited == Cardinality(pins \ deleted) <= PinMaximum

\* An edit that overlaps a deletion does not bring a text back.
DeletedIsEmpty == \A m \in deleted : body[m] = ""
=============================================================================
