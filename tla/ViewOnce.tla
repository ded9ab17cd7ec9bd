------------------------------- MODULE ViewOnce -------------------------------
(***************************************************************************)
(* A view-once photo or video (view_once_media.go): openViewOnceMedia      *)
(* locks the message, records the opening and counts the openings in one   *)
(* transaction, and announces the count after it.                          *)
(***************************************************************************)
EXTENDS Naturals, FiniteSets

CONSTANTS
  Viewers,   \* the members other than the sender
  Opens,     \* requests in progress at the same time
  Free       \* nobody holds the row of the message

VARIABLES
  available,   \* the message is not deleted
  opened,      \* view_once_opens, committed
  mediaLock,   \* who holds the row of the message
  opening,     \* how far each request is
  viewer,      \* whose it is
  counted,     \* the count its transaction read
  granted      \* the answers with a link: the viewer and the count announced

viewVars == <<available, opened, mediaLock, opening, viewer, counted, granted>>

ViewTypeOK ==
  /\ available \in BOOLEAN
  /\ opened \in SUBSET Viewers
  /\ mediaLock \in Opens \cup {Free}
  /\ opening \in [Opens -> {"idle", "locked", "counted", "opened", "done"}]
  /\ viewer \in [Opens -> Viewers]
  /\ counted \in [Opens -> 0..Cardinality(Viewers)]
  /\ granted \in SUBSET (Viewers \X (1..Cardinality(Viewers)))

ViewInit ==
  /\ available = TRUE
  /\ opened = {}
  /\ mediaLock = Free
  /\ opening = [r \in Opens |-> "idle"]
  /\ viewer \in [Opens -> Viewers]
  /\ counted = [r \in Opens |-> 0]
  /\ granted = {}

\* Mutant: the message is read without FOR UPDATE.
MediaShared == TRUE

MediaFree == mediaLock = Free

\* FOR UPDATE OF m; who has opened it before is refused.
LockMedia(r) ==
  /\ opening[r] = "idle"
  /\ available
  /\ MediaFree
  /\ mediaLock' = r
  /\ viewer[r] \notin opened
  /\ opening' = [opening EXCEPT ![r] = "locked"]
  /\ UNCHANGED <<available, opened, viewer, counted, granted>>

\* The INSERT waits for one of the same viewer and is refused after its commit;
\* the count sees committed openings and its own.
Pending(r) == \E q \in Opens \ {r} : opening[q] = "counted" /\ viewer[q] = viewer[r]

RecordOpening(r) ==
  /\ opening[r] = "locked"
  /\ ~Pending(r)
  /\ viewer[r] \notin opened
  /\ counted' = [counted EXCEPT ![r] = Cardinality(opened \cup {viewer[r]})]
  /\ opening' = [opening EXCEPT ![r] = "counted"]
  /\ UNCHANGED <<available, opened, mediaLock, viewer, granted>>

CommitOpening(r) ==
  /\ opening[r] = "counted"
  /\ opened' = opened \cup {viewer[r]}
  /\ mediaLock' = Free
  /\ opening' = [opening EXCEPT ![r] = "opened"]
  /\ UNCHANGED <<available, viewer, counted, granted>>

\* The broadcast of the count and the answer with the link.
Grant(r) ==
  /\ opening[r] = "opened"
  /\ granted' = granted \cup {<<viewer[r], counted[r]>>}
  /\ opening' = [opening EXCEPT ![r] = "done"]
  /\ UNCHANGED <<available, opened, mediaLock, viewer, counted>>

\* A statement fails, the opening is refused by the primary key, or the process
\* stops: a committed opening is then lost to its viewer.
LoseOpening(r) ==
  /\ opening[r] \notin {"idle", "done"}
  /\ mediaLock' = IF mediaLock = r THEN Free ELSE mediaLock
  /\ opening' = [opening EXCEPT ![r] = "done"]
  /\ UNCHANGED <<available, opened, viewer, counted, granted>>

\* deleteMessage waits for the row.
DeleteMedia ==
  /\ available
  /\ MediaFree
  /\ available' = FALSE
  /\ UNCHANGED <<opened, mediaLock, opening, viewer, counted, granted>>

ViewNext ==
  \/ \E r \in Opens :
       LockMedia(r) \/ RecordOpening(r) \/ CommitOpening(r) \/ Grant(r) \/ LoseOpening(r)
  \/ DeleteMedia

-----------------------------------------------------------------------------
\* Each viewer gets one link, and the counts announced to the sender tell the
\* openings apart: two viewers who open it together are the first and the
\* second (openViewOnceMedia counts while it holds the message).
OpeningsCounted ==
  \A g, h \in granted : g[1] = h[1] \/ g[2] = h[2] => g = h
=============================================================================
