------------------------------ MODULE MCCalls ------------------------------
(***************************************************************************)
(* Small instances of Calls.                                               *)
(***************************************************************************)
EXTENDS Calls, TLC

CONSTANT SecondOps   \* bound on requests in states with two calls

HandlerSymmetry == Permutations(Handlers)

\* The ids are used in order.  Two calls are followed less far than one, and only
\* among the two members of the direct conversation or of a meeting.
Bounded ==
  LET started == {c \in Ids : status[c] # "none"} IN
  /\ \A c \in started, d \in Ids : d < c => d \in started
  /\ Cardinality(started) > 1 => ops <= SecondOps /\ failures = 0 /\ \A c \in Ids : invited[c] \subseteq Pair
=============================================================================
