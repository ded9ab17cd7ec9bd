------------------------------- MODULE Posting -------------------------------
(***************************************************************************)
(* What idempotent sending promises (reliable_messages.go, with the unique *)
(* index of migration 000029): however often a client repeats a request    *)
(* with the same client_message_id, one message is posted, its chat is     *)
(* told at most once, and every answer names that message.                 *)
(***************************************************************************)
CONSTANTS Slots, Messages, None

VARIABLES
  posted,    \* the message a slot (a sender and his client_message_id) was used for
  told,      \* the slots whose message was announced to the chat
  answered   \* the messages the client was told of, for each slot

postingVars == <<posted, told, answered>>

PostingInit ==
  /\ posted = [s \in Slots |-> None]
  /\ told = {}
  /\ answered = [s \in Slots |-> {}]

Post(s, m) ==
  /\ posted[s] = None
  /\ posted' = [posted EXCEPT ![s] = m]
  /\ UNCHANGED <<told, answered>>

Tell(s) ==
  /\ posted[s] # None
  /\ s \notin told
  /\ told' = told \cup {s}
  /\ UNCHANGED <<posted, answered>>

Answer(s) ==
  /\ posted[s] # None
  /\ answered' = [answered EXCEPT ![s] = @ \cup {posted[s]}]
  /\ UNCHANGED <<posted, told>>

PostingNext ==
  \E s \in Slots : (\E m \in Messages : Post(s, m)) \/ Tell(s) \/ Answer(s)

PostingSpec == PostingInit /\ [][PostingNext]_postingVars
=============================================================================
