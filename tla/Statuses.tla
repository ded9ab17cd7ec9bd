------------------------------- MODULE Statuses -------------------------------
(***************************************************************************)
(* One photo or video status of a user (statuses.go).  Sharing it to chats *)
(* and replying to it hold its row FOR SHARE, so that deleting it waits.   *)
(* Every listing first sweeps away the expired statuses, in one statement: *)
(* what it knows of attachments is what had been committed when it began,  *)
(* however long it then waits for the row.                                 *)
(***************************************************************************)
EXTENDS Naturals, FiniteSets

CONSTANTS
  Contacts,   \* other users
  Sharing,    \* requests of the owner to share it
  Sweepers    \* requests that list statuses

VARIABLES
  story,     \* the row of statuses
  media,     \* the row of media_objects is there
  attached,  \* shares whose messages are committed, with their attachments
  allowed,   \* viewers who are contacts, in the audience and not blocked
  views,     \* status_views
  likes,     \* status_likes
  liked,     \* notifications of likes, for each viewer
  answering, \* how far each viewer's like or reply is
  shareStep, \* how far each share is
  sweepStep, \* how far each sweep is
  sawShared, \* sweeps that began when the media was attached to a message
  overtaken  \* a share was committed while a sweep waited for it

statusVars == <<story, media, attached, allowed, views, likes, liked, answering, shareStep, sweepStep, sawShared, overtaken>>

StatusTypeOK ==
  /\ story \in {"none", "active", "expired", "gone"}
  /\ media \in BOOLEAN /\ overtaken \in BOOLEAN
  /\ attached \in SUBSET Sharing
  /\ allowed \in SUBSET Contacts /\ views \in SUBSET Contacts /\ likes \in SUBSET Contacts
  /\ liked \in [Contacts -> Nat]
  /\ answering \in [Contacts -> {"idle", "liking", "replying"}]
  /\ shareStep \in [Sharing -> {"new", "sharing", "done"}]
  /\ sweepStep \in [Sweepers -> {"new", "sweeping", "done"}]
  /\ sawShared \in SUBSET Sweepers

StatusInit ==
  /\ story = "none" /\ media = FALSE /\ overtaken = FALSE
  /\ attached = {} /\ views = {} /\ likes = {} /\ sawShared = {}
  /\ allowed \in SUBSET Contacts
  /\ liked = [v \in Contacts |-> 0]
  /\ answering = [v \in Contacts |-> "idle"]
  /\ shareStep = [r \in Sharing |-> "new"]
  /\ sweepStep = [r \in Sweepers |-> "new"]

Exists     == story \in {"active", "expired"}
HeldShared == (\E r \in Sharing : shareStep[r] = "sharing") \/ (\E v \in Contacts : answering[v] = "replying")
seenBy     == <<views, likes, liked>>
handling   == <<answering, shareStep, sweepStep, sawShared, overtaken>>

\* createStatus and uploadStatus insert the media and the status.
CreateStatus ==
  /\ story = "none"
  /\ story' = "active" /\ media' = TRUE
  /\ UNCHANGED <<attached, allowed, seenBy, handling>>

ExpireStatus ==
  /\ story = "active"
  /\ story' = "expired"
  /\ UNCHANGED <<media, attached, allowed, seenBy, handling>>

\* updateStatusPrivacy, contacts and blocks.
ChangeAudience(v) ==
  /\ allowed' = IF v \in allowed THEN allowed \ {v} ELSE allowed \cup {v}
  /\ UNCHANGED <<story, media, attached, seenBy, handling>>

ViewStatus(v) ==
  /\ story = "active" /\ v \in allowed
  /\ views' = views \cup {v}
  /\ UNCHANGED <<story, media, attached, allowed, likes, liked, handling>>

\* setStatusLike checks who may, then saves view, like and notification, unless
\* the status is gone by then.
CheckLike(v) ==
  /\ answering[v] = "idle"
  /\ story = "active" /\ v \in allowed
  /\ liked[v] < 2                                            \* bound
  /\ answering' = [answering EXCEPT ![v] = "liking"]
  /\ UNCHANGED <<story, media, attached, allowed, seenBy, shareStep, sweepStep, sawShared, overtaken>>

SaveLike(v) ==
  /\ answering[v] = "liking"
  /\ answering' = [answering EXCEPT ![v] = "idle"]
  /\ IF story = "active"
     THEN /\ views' = views \cup {v}
          /\ likes' = likes \cup {v}
          /\ liked' = IF v \in likes THEN liked ELSE [liked EXCEPT ![v] = @ + 1]
     ELSE UNCHANGED seenBy
  /\ UNCHANGED <<story, media, attached, allowed, shareStep, sweepStep, sawShared, overtaken>>

Unlike(v) ==
  /\ v \in likes
  /\ likes' = likes \ {v}
  /\ UNCHANGED <<story, media, attached, allowed, views, liked, handling>>

\* replyToStatus and reactToStatus: the message quotes the status, and counts as a view.
BeginReply(v) ==
  /\ answering[v] = "idle"
  /\ story = "active" /\ v \in allowed
  /\ answering' = [answering EXCEPT ![v] = "replying"]
  /\ UNCHANGED <<story, media, attached, allowed, seenBy, shareStep, sweepStep, sawShared, overtaken>>

\* It commits, or a statement fails and nothing of it stays.
EndReply(v, commits) ==
  /\ answering[v] = "replying"
  /\ answering' = [answering EXCEPT ![v] = "idle"]
  /\ views' = IF commits THEN views \cup {v} ELSE views
  /\ UNCHANGED <<story, media, attached, allowed, likes, liked, shareStep, sweepStep, sawShared, overtaken>>

\* shareStatus: the row is held while the copies are checked and written.
BeginShare(r) ==
  /\ shareStep[r] = "new"
  /\ story = "active"
  /\ shareStep' = [shareStep EXCEPT ![r] = "sharing"]
  /\ UNCHANGED <<story, media, attached, allowed, seenBy, answering, sweepStep, sawShared, overtaken>>

EndShare(r, commits) ==
  /\ shareStep[r] = "sharing"
  /\ shareStep' = [shareStep EXCEPT ![r] = "done"]
  /\ attached' = IF commits THEN attached \cup {r} ELSE attached
  /\ overtaken' = (overtaken \/ (commits /\ \E s \in Sweepers \ sawShared : sweepStep[s] = "sweeping"))
  /\ UNCHANGED <<story, media, allowed, seenBy, answering, sweepStep, sawShared>>

\* The row goes, with the views and likes of the status.
RowGoes ==
  /\ ~HeldShared
  /\ story' = "gone" /\ views' = {} /\ likes' = {}
  /\ UNCHANGED <<attached, allowed, liked, answering, shareStep, overtaken>>

\* Mutant: deleteStatus that does not look for attachments.
DeleteStatusWithMedia ==
  /\ Exists
  /\ RowGoes
  /\ media' = FALSE
  /\ UNCHANGED <<sweepStep, sawShared>>

\* deleteStatus looks for attachments in a second statement, once it has the row.
DeleteStatus ==
  /\ Exists
  /\ RowGoes
  /\ media' = (attached # {})
  /\ UNCHANGED <<sweepStep, sawShared>>

BeginSweep(s) ==
  /\ sweepStep[s] = "new"
  /\ story = "expired"
  /\ sweepStep' = [sweepStep EXCEPT ![s] = "sweeping"]
  /\ sawShared' = IF attached # {} THEN sawShared \cup {s} ELSE sawShared
  /\ UNCHANGED <<story, media, attached, allowed, seenBy, answering, shareStep, overtaken>>

EndSweep(s) ==
  /\ sweepStep[s] = "sweeping"
  /\ sweepStep' = [sweepStep EXCEPT ![s] = "done"]
  /\ IF Exists THEN RowGoes /\ media' = (s \in sawShared)
               ELSE UNCHANGED <<story, media, attached, allowed, seenBy, answering, shareStep, overtaken>>
  /\ UNCHANGED sawShared

StatusNext ==
  \/ CreateStatus \/ ExpireStatus \/ DeleteStatus
  \/ \E v \in Contacts :
       ChangeAudience(v) \/ ViewStatus(v) \/ CheckLike(v) \/ SaveLike(v) \/ Unlike(v) \/ BeginReply(v)
       \/ EndReply(v, TRUE) \/ EndReply(v, FALSE)
  \/ \E r \in Sharing : BeginShare(r) \/ EndShare(r, TRUE) \/ EndShare(r, FALSE)
  \/ \E s \in Sweepers : BeginSweep(s) \/ EndSweep(s)

StatusSpec == StatusInit /\ [][StatusNext]_statusVars

-----------------------------------------------------------------------------
\* The messages a status was shared with keep its media when the status is
\* deleted or swept away, whatever overlaps, but for one case: a share that began
\* before the status expired is committed while a sweep waits for it.
SharedMediaKept == attached # {} => media \/ overtaken
===============================================================================
