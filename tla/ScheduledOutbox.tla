--------------------------- MODULE ScheduledOutbox ---------------------------
(***************************************************************************)
(* What a scheduled message promises its author, without dispatchers,      *)
(* transactions, locks or clocks: a message is accepted, may be revised or *)
(* withdrawn while it is pending, and is then resolved once and for all,   *)
(* either posted to the chat with the text it has at that moment or        *)
(* rejected.  ScheduledMessages implements this specification.             *)
(***************************************************************************)
EXTENDS Sequences

CONSTANTS
  Items,    \* scheduled messages
  Bodies,   \* message texts
  NoBody    \* the text of an item that does not exist yet

VARIABLES
  entry,    \* status and current text of every item
  posted    \* the chat messages each item has produced, oldest first

outboxVars == <<entry, posted>>

Init ==
  /\ entry  = [i \in Items |-> [status |-> "none", text |-> NoBody]]
  /\ posted = [i \in Items |-> <<>>]

Accept(i, b) ==
  /\ entry[i].status = "none"
  /\ entry' = [entry EXCEPT ![i] = [status |-> "pending", text |-> b]]
  /\ UNCHANGED posted

Revise(i, b) ==
  /\ entry[i].status = "pending"
  /\ entry' = [entry EXCEPT ![i] = [status |-> "pending", text |-> b]]
  /\ UNCHANGED posted

Withdraw(i) ==
  /\ entry[i].status = "pending"
  /\ entry' = [entry EXCEPT ![i] = [status |-> "cancelled", text |-> entry[i].text]]
  /\ UNCHANGED posted

(* One dispatch resolves a whole batch: S is posted, F is rejected.        *)
Resolve(S, F) ==
  /\ S \cap F = {}
  /\ \A i \in S \cup F : entry[i].status = "pending"
  /\ entry' = [i \in Items |->
                 [status |-> IF i \in S THEN "sent"
                             ELSE IF i \in F THEN "failed" ELSE entry[i].status,
                  text   |-> entry[i].text]]
  /\ posted' = [i \in Items |->
                  IF i \in S THEN Append(posted[i], entry[i].text) ELSE posted[i]]

Next ==
  \/ \E i \in Items, b \in Bodies : Accept(i, b) \/ Revise(i, b)
  \/ \E i \in Items : Withdraw(i)
  \/ \E S, F \in SUBSET Items : Resolve(S, F)

Spec == Init /\ [][Next]_outboxVars
=============================================================================
