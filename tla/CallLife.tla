------------------------------ MODULE CallLife ------------------------------
(***************************************************************************)
(* The life of calls as their history tells it, without participants,      *)
(* requests or locks: a call rings, is answered at most once, and is over  *)
(* for good once it is missed, declined or ended.  Only a call that rings  *)
(* can be missed or declined.  Calls implements this specification.        *)
(***************************************************************************)
CONSTANT Ids

VARIABLES
  state,   \* "none" before the call exists
  talked   \* whether the call has been answered

lifeVars == <<state, talked>>

Init ==
  /\ state  = [c \in Ids |-> "none"]
  /\ talked = [c \in Ids |-> FALSE]

Ring(c) ==
  /\ state[c] = "none"
  /\ state' = [state EXCEPT ![c] = "ringing"]
  /\ UNCHANGED talked

Answer(c) ==
  /\ state[c] = "ringing"
  /\ state'  = [state EXCEPT ![c] = "answered"]
  /\ talked' = [talked EXCEPT ![c] = TRUE]

(* Calls that have rung for too long are given up together.                *)
Miss(S) ==
  /\ \A c \in S : state[c] = "ringing"
  /\ state' = [c \in Ids |-> IF c \in S THEN "missed" ELSE state[c]]
  /\ UNCHANGED talked

Decline(c) ==
  /\ state[c] = "ringing"
  /\ state' = [state EXCEPT ![c] = "declined"]
  /\ UNCHANGED talked

End(c) ==
  /\ state[c] \in {"ringing", "answered"}
  /\ state' = [state EXCEPT ![c] = "ended"]
  /\ UNCHANGED talked

Next ==
  \/ \E c \in Ids : Ring(c) \/ Answer(c) \/ Decline(c) \/ End(c)
  \/ \E S \in SUBSET Ids : Miss(S)

Spec == Init /\ [][Next]_lifeVars
=============================================================================
