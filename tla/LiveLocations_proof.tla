-------------------------- MODULE LiveLocations_proof --------------------------
(***************************************************************************)
(* Proofs about LiveLocations for any number of locations, chats, devices  *)
(* and requests: a chat has at most one active location of the user, a     *)
(* location that ended stays ended, and its message says what its row says.*)
(***************************************************************************)
EXTENDS LiveLocations, TLAPS

(* What the properties need to be inductive.                               *)

(* A handler holds the rows it locked, which stay active until it ends.    *)
HeldFacts ==
  \A h \in LiveHandlers, l \in Shares :
    stage[h] = "holding" /\ l \in held[h] => rowHolder[l] = h /\ Active(l)

(* A start holds the advisory lock of its chat, and all its active rows.   *)
StartFacts ==
  \A h \in LiveHandlers :
    /\ doing[h] = "start" => stage[h] \in {"waiting", "holding"} /\ chatHolder[wanted[h].chat] = h
    /\ doing[h] = "start" /\ stage[h] = "holding" =>
         \A l \in Shares : Active(l) /\ row[l].chat = wanted[h].chat => l \in held[h]

IInv ==
  /\ LiveTypeOK
  /\ HeldFacts
  /\ StartFacts
  /\ OneShare
  /\ AttachmentTrue
-----------------------------------------------------------------------------

(* The constants the records are made of.                                  *)
LEMMA Defaults ==
  /\ Absent \in Rows /\ Absent.state = "none"
  /\ Nothing \in [chat : Rooms, device : Devices, pos : Positions]
BY LiveAssumption DEF Absent, Rows, Nothing

(* What a message says is a note.                                          *)
LEMMA NoteType == \A r \in Rows : Note(r) \in Notes
BY DEF Note, Rows, Notes

(* The initial state satisfies all of it.                                  *)
LEMMA InitOK == LiveInit => IInv
<1> SUFFICES ASSUME LiveInit
             PROVE  IInv
  OBVIOUS
<1>1. LiveTypeOK
  BY Defaults, NoteType, LiveAssumption DEF LiveInit, LiveTypeOK, LiveHandlers
<1>2. HeldFacts /\ StartFacts /\ OneShare /\ AttachmentTrue
  BY Defaults DEF LiveInit, HeldFacts, StartFacts, OneShare, AttachmentTrue, Active
<1> QED
  BY <1>1, <1>2 DEF IInv

(* A stopped row, and one at a new position, are rows.                     *)
LEMMA NewRowType ==
  ASSUME LiveTypeOK, NEW h \in LiveHandlers, NEW l \in Shares
  PROVE  /\ NewRow(h, l, row[l]) \in Rows
         /\ NewRow(h, l, row[l]).chat = row[l].chat
         /\ NewRow(h, l, row[l]).state \in {"stopped", row[l].state}
         /\ Stopped(row[l]) \in Rows /\ Stopped(row[l]).state = "stopped"
<1>1. /\ row[l] \in Rows
      /\ wanted[h] \in [chat : Rooms, device : Devices, pos : Positions]
  BY DEF LiveTypeOK
<1> QED
  BY <1>1 DEF NewRow, Stopped, Rows

(* The end of a transaction that leaves the rows it is given.              *)
LEMMA FinishTypes ==
  ASSUME LiveTypeOK, NEW h \in LiveHandlers, NEW S \in SUBSET Shares, NEW rows \in [S -> Rows], Finish(h, rows)
  PROVE  LiveTypeOK'
<1>1. row' \in [Shares -> Rows]
  BY DEF LiveTypeOK, Finish
<1>2. attachment' \in [Shares -> Notes]
  BY NoteType DEF LiveTypeOK, Finish
<1>3. rowHolder' \in [Shares -> LiveHandlers \cup {Free}] /\ chatHolder' \in [Rooms -> LiveHandlers \cup {Free}]
  BY DEF LiveTypeOK, Finish
<1>4. /\ doing' \in [LiveHandlers -> {"none", "start", "update", "stop", "delete"}]
      /\ stage' \in [LiveHandlers -> {"idle", "waiting", "holding", "erasing"}]
      /\ held' \in [LiveHandlers -> SUBSET Shares]
      /\ wanted' \in [LiveHandlers -> [chat : Rooms, device : Devices, pos : Positions]]
  BY Defaults DEF LiveTypeOK, Finish, Rest
<1> QED
  BY <1>1, <1>2, <1>3, <1>4 DEF LiveTypeOK, Finish, world
-----------------------------------------------------------------------------

(* A handler that begins to update or to stop locks the active rows S.     *)
LEMMA LockStep ==
  ASSUME IInv, NEW h \in LiveHandlers, NEW job \in {"update", "stop"},
         NEW want \in [chat : Rooms, device : Devices, pos : Positions], Begin(h, job, want),
         NEW S \in SUBSET Shares, \A l \in S : Active(l), Hold(h, S),
         UNCHANGED <<rowsOf, world, chatHolder>>
  PROVE  IInv'
<1> USE DEF IInv, Begin, Hold, rowsOf, world
<1>1. LiveTypeOK'
  BY DEF LiveTypeOK
<1>2. HeldFacts'
  BY LiveAssumption DEF LiveTypeOK, HeldFacts, Active, Unheld, LiveHandlers
<1>3. StartFacts'
  BY DEF LiveTypeOK, StartFacts, Active
<1>4. OneShare' /\ AttachmentTrue'
  BY DEF OneShare, AttachmentTrue, Active
<1> QED
  BY <1>1, <1>2, <1>3, <1>4

(* createLiveLocation takes the advisory lock of the chat.                 *)
LEMMA LockChatStep ==
  ASSUME IInv, NEW h \in LiveHandlers, NEW c \in Rooms, NEW d \in Devices, LockChat(h, c, d)
  PROVE  IInv'
<1> USE DEF IInv, LockChat, Begin, rowsOf, world
<1>1. [Nothing EXCEPT !.chat = c, !.device = d] \in [chat : Rooms, device : Devices, pos : Positions]
  BY Defaults
<1>2. [Nothing EXCEPT !.chat = c, !.device = d].chat = c
  BY Defaults
<1>3. LiveTypeOK'
  BY <1>1 DEF LiveTypeOK
<1>4. HeldFacts'
  BY DEF LiveTypeOK, HeldFacts, Active
<1>5. StartFacts'
  BY <1>2, LiveAssumption DEF LiveTypeOK, StartFacts, Active, Alone, LiveHandlers
<1>6. OneShare' /\ AttachmentTrue'
  BY DEF OneShare, AttachmentTrue, Active
<1> QED
  BY <1>3, <1>4, <1>5, <1>6

(* It then locks the active rows of the chat.                              *)
LEMMA LockPreviousStep ==
  ASSUME IInv, NEW h \in LiveHandlers, LockPrevious(h)
  PROVE  IInv'
<1> USE DEF IInv, LockPrevious, Hold, rowsOf, world
<1>1. LiveTypeOK'
  BY DEF LiveTypeOK
<1>2. HeldFacts'
  BY LiveAssumption DEF LiveTypeOK, HeldFacts, Active, Unheld, LiveHandlers
<1>3. StartFacts'
  BY DEF LiveTypeOK, StartFacts, Active
<1>4. OneShare' /\ AttachmentTrue'
  BY DEF OneShare, AttachmentTrue, Active
<1> QED
  BY <1>1, <1>2, <1>3, <1>4

(* An update or a stop commits: it changes rows it holds, which stay in    *)
(* their chat and are active or stopped, together with their messages.     *)
LEMMA CommitStep ==
  ASSUME IInv, NEW h \in LiveHandlers, Commit(h)
  PROVE  IInv'
<1> DEFINE rows == [l \in held[h] |-> NewRow(h, l, row[l])]
<1>1. LiveTypeOK /\ HeldFacts /\ StartFacts /\ OneShare /\ AttachmentTrue /\ held[h] \in SUBSET Shares
  BY DEF IInv, LiveTypeOK
<1>2. rows \in [held[h] -> Rows]
  BY <1>1, NewRowType
<1>3. Finish(h, rows) /\ stage[h] = "holding" /\ doing[h] # "start"
  BY DEF Commit
<1>4. LiveTypeOK'
  BY <1>1, <1>2, <1>3, FinishTypes
<1>5. \A l \in Shares :
        /\ row'[l] = IF l \in held[h] THEN NewRow(h, l, row[l]) ELSE row[l]
        /\ row'[l].chat = row[l].chat
        /\ Active(l)' => Active(l)
        /\ l \notin held[h] => row'[l] = row[l]
  BY <1>1, <1>2, <1>3, NewRowType DEF Finish, Active
<1>6. HeldFacts'
  BY <1>1, <1>3, <1>5 DEF Finish, Rest, HeldFacts, LiveTypeOK, Active
<1>7. StartFacts'
  BY <1>1, <1>3, <1>5 DEF Finish, Rest, StartFacts, LiveTypeOK
<1>8. OneShare'
  BY <1>1, <1>5 DEF OneShare
<1>9. AttachmentTrue'
  BY <1>1, <1>2, <1>3, <1>5 DEF AttachmentTrue, Finish, Saved, LiveTypeOK
<1> QED
  BY <1>1, <1>4, <1>6, <1>7, <1>8, <1>9 DEF IInv

(* A start commits: its chat has no active location but the new one.       *)
LEMMA CommitStartStep ==
  ASSUME IInv, NEW h \in LiveHandlers, NEW l \in Shares, CommitStart(h, l)
  PROVE  IInv'
<1> DEFINE new  == [state |-> "active", pos |-> Start, chat |-> wanted[h].chat, device |-> wanted[h].device]
           rows == [k \in held[h] \cup {l} |-> IF k = l THEN new ELSE Stopped(row[k])]
<1>1. LiveTypeOK /\ HeldFacts /\ StartFacts /\ OneShare /\ AttachmentTrue /\ held[h] \in SUBSET Shares
  BY DEF IInv, LiveTypeOK
<1>2. new \in Rows
  BY <1>1, LiveAssumption DEF LiveTypeOK, Rows
<1>3. rows \in [held[h] \cup {l} -> Rows]
  BY <1>1, <1>2, NewRowType
<1>4. Finish(h, rows) /\ stage[h] = "holding" /\ doing[h] = "start" /\ row[l].state = "none"
  BY DEF CommitStart
<1>5. LiveTypeOK'
  BY <1>1, <1>3, <1>4, FinishTypes
<1>6. row'[l] = new /\ \A k \in Shares \ {l} : row'[k] = IF k \in held[h] THEN Stopped(row[k]) ELSE row[k]
  BY <1>1, <1>4 DEF Finish
<1>7. \A k \in Shares \ {l} : Active(k)' => Active(k) /\ k \notin held[h] /\ row'[k] = row[k] /\ row[k].chat # wanted[h].chat
  BY <1>1, <1>4, <1>6, NewRowType DEF StartFacts, Active
<1>8. HeldFacts'
  BY <1>1, <1>4, <1>6 DEF Finish, Rest, HeldFacts, LiveTypeOK, Active
<1>9. StartFacts'
  <2>1. \A g \in LiveHandlers \ {h} : doing[g] = "start" => wanted[g].chat # wanted[h].chat
    BY <1>1, <1>4 DEF StartFacts
  <2>2. SUFFICES ASSUME NEW g \in LiveHandlers, doing'[g] = "start"
                 PROVE  /\ stage'[g] \in {"waiting", "holding"} /\ chatHolder'[wanted'[g].chat] = g
                        /\ stage'[g] = "holding" =>
                             \A k \in Shares : Active(k)' /\ row'[k].chat = wanted'[g].chat => k \in held'[g]
    BY DEF StartFacts
  <2>3. g # h /\ stage'[g] = stage[g] /\ doing'[g] = doing[g] /\ held'[g] = held[g] /\ wanted'[g] = wanted[g]
    BY <1>1, <1>4, <2>2 DEF Finish, Rest, LiveTypeOK
  <2>4. stage[g] \in {"waiting", "holding"} /\ chatHolder[wanted[g].chat] = g
    BY <1>1, <2>2, <2>3 DEF StartFacts
  <2>5. wanted[g].chat \in Rooms
    BY <1>1 DEF LiveTypeOK
  <2>6. chatHolder'[wanted[g].chat] = g
    BY <1>4, <2>3, <2>4, <2>5 DEF Finish
  <2>7. \A k \in Shares : Active(k)' /\ row'[k].chat = wanted[g].chat => k # l /\ Active(k) /\ row[k].chat = wanted[g].chat
    BY <1>6, <1>7, <2>1, <2>2, <2>3
  <2>8. stage[g] = "holding" => \A k \in Shares : Active(k) /\ row[k].chat = wanted[g].chat => k \in held[g]
    BY <1>1, <2>2, <2>3 DEF StartFacts
  <2> QED
    BY <2>3, <2>4, <2>6, <2>7, <2>8
<1>10. OneShare'
  BY <1>1, <1>6, <1>7 DEF OneShare
<1>11. AttachmentTrue'
  BY <1>1, <1>3, <1>4, <1>6 DEF AttachmentTrue, Finish, Saved, LiveTypeOK
<1> QED
  BY <1>1, <1>5, <1>8, <1>9, <1>10, <1>11 DEF IInv

(* A transaction fails: it leaves its locks and nothing else.              *)
LEMMA RollBackStep ==
  ASSUME IInv, NEW h \in LiveHandlers, Undo(h)
  PROVE  IInv'
<1> USE DEF IInv, Undo, Rest, rowsOf
<1>1. LiveTypeOK'
  BY Defaults, LiveAssumption DEF LiveTypeOK
<1>2. HeldFacts'
  BY DEF LiveTypeOK, HeldFacts, Active
<1>3. StartFacts'
  BY DEF LiveTypeOK, StartFacts, Active
<1>4. OneShare' /\ AttachmentTrue'
  BY DEF OneShare, AttachmentTrue, Active
<1> QED
  BY <1>1, <1>2, <1>3, <1>4

(* deleteMessage reads its location without a lock.                        *)
LEMMA FindSharedStep ==
  ASSUME IInv, NEW h \in LiveHandlers, NEW l \in Shares, FindShared(h, l)
  PROVE  IInv'
<1> USE DEF IInv, FindShared, Begin, rowsOf, world
<1>1. LiveTypeOK'
  BY Defaults DEF LiveTypeOK
<1>2. HeldFacts'
  BY DEF LiveTypeOK, HeldFacts, Active
<1>3. StartFacts'
  BY DEF LiveTypeOK, StartFacts, Active
<1>4. OneShare' /\ AttachmentTrue'
  BY DEF OneShare, AttachmentTrue, Active
<1> QED
  BY <1>1, <1>2, <1>3, <1>4

(* It ends the location, which nobody holds, without its message.          *)
LEMMA CutShortStep ==
  ASSUME IInv, NEW h \in LiveHandlers, NEW l \in Shares, CutShort(h, l)
  PROVE  IInv'
<1> USE DEF IInv, CutShort, world
<1>1. LiveTypeOK'
  BY NewRowType DEF LiveTypeOK
<1>2. \A k \in Shares : row'[k] = IF k = l /\ Active(l) THEN Stopped(row[k]) ELSE row[k]
  BY DEF LiveTypeOK
<1>3. \A k \in Shares : Active(k)' => Active(k) /\ row'[k] = row[k]
  BY <1>2, NewRowType DEF Active
<1>4. HeldFacts'
  BY <1>2, LiveAssumption DEF LiveTypeOK, HeldFacts, Active, Unheld, LiveHandlers
<1>5. StartFacts'
  BY <1>3 DEF LiveTypeOK, StartFacts
<1>6. OneShare'
  BY <1>3 DEF OneShare
<1>7. AttachmentTrue'
  BY <1>2 DEF AttachmentTrue
<1> QED
  BY <1>1, <1>4, <1>5, <1>6, <1>7

(* The message goes.                                                       *)
LEMMA EraseMessageStep ==
  ASSUME IInv, NEW h \in LiveHandlers, NEW l \in Shares, EraseMessage(h, l)
  PROVE  IInv'
<1> USE DEF IInv, EraseMessage, Rest, world
<1>1. LiveTypeOK'
  BY Defaults DEF LiveTypeOK
<1>2. HeldFacts'
  BY DEF LiveTypeOK, HeldFacts, Active
<1>3. StartFacts'
  BY DEF LiveTypeOK, StartFacts, Active
<1>4. OneShare' /\ AttachmentTrue'
  BY DEF OneShare, AttachmentTrue, Active
<1> QED
  BY <1>1, <1>2, <1>3, <1>4

(* Time passes, and what may be shared changes.                            *)
LEMMA WorldStep ==
  ASSUME IInv, (\E l \in Shares : Lapse(l)) \/ (\E c \in Rooms : Permit(c))
  PROVE  IInv'
<1> USE DEF IInv, Lapse, Permit, rowsOf
<1>1. LiveTypeOK'
  <2>1. may' \in [Rooms -> BOOLEAN]
    BY Zenon DEF LiveTypeOK
  <2>2. mishaps' \in 0..MaxLapses
    BY LiveAssumption DEF LiveTypeOK
  <2> QED
    BY <2>1, <2>2 DEF LiveTypeOK
<1>2. HeldFacts' /\ StartFacts'
  BY DEF HeldFacts, StartFacts, Active
<1>3. OneShare' /\ AttachmentTrue'
  BY DEF OneShare, AttachmentTrue, Active
<1> QED
  BY <1>1, <1>2, <1>3
-----------------------------------------------------------------------------

(* Every step keeps the invariant.                                         *)
LEMMA StepOK ==
  ASSUME IInv, [LiveNext]_liveVars
  PROVE  IInv'
<1>1. ASSUME NEW h \in Requests, NEW c \in Rooms, NEW d \in Devices, LockChat(h, c, d)
      PROVE  IInv'
  BY <1>1, LockChatStep DEF LiveHandlers
<1>2. ASSUME NEW h \in Requests, NEW d \in Devices, NEW p \in Positions, LockDevice(h, d, p)
      PROVE  IInv'
  <2> DEFINE want == [Nothing EXCEPT !.device = d, !.pos = p]
             S    == {l \in Shares : Active(l) /\ row[l].device = d}
  <2>1. want \in [chat : Rooms, device : Devices, pos : Positions]
    BY Defaults
  <2>2. Begin(h, "update", want) /\ Hold(h, S) /\ UNCHANGED <<rowsOf, world, chatHolder>>
    BY <1>2 DEF LockDevice
  <2>3. h \in LiveHandlers /\ S \in SUBSET Shares /\ \A l \in S : Active(l)
    BY DEF LiveHandlers
  <2> HIDE DEF want, S
  <2> QED
    BY <2>1, <2>2, <2>3, LockStep
<1>3. ASSUME NEW h \in Requests, NEW S \in StopScopes, LockToStop(h, S)
      PROVE  IInv'
  <2> DEFINE A == {l \in S : Active(l)}
  <2>1. S \subseteq Shares
    BY DEF StopScopes
  <2>2. h \in LiveHandlers /\ A \in SUBSET Shares /\ \A l \in A : Active(l)
    BY <2>1 DEF LiveHandlers
  <2>3. Begin(h, "stop", Nothing) /\ Hold(h, A) /\ UNCHANGED <<rowsOf, world, chatHolder>>
    BY <1>3 DEF LockToStop
  <2> HIDE DEF A
  <2> QED
    BY <2>2, <2>3, Defaults, LockStep
<1>4. ASSUME NEW h \in Requests, NEW l \in Shares, FindShared(h, l)
      PROVE  IInv'
  BY <1>4, FindSharedStep DEF LiveHandlers
<1>5. ASSUME NEW h \in LiveHandlers, Proceed(h)
      PROVE  IInv'
  BY <1>5, LockPreviousStep, CommitStep, CommitStartStep, CutShortStep, EraseMessageStep DEF Proceed
<1>6. ASSUME NEW h \in LiveHandlers, Undo(h)
      PROVE  IInv'
  BY <1>6, RollBackStep
<1>7. ASSUME LiveTick
      PROVE  IInv'
  <2>1. PICK S \in SUBSET Shares : LockDue(S)
    BY <1>7 DEF LiveTick
  <2>2. Ticker \in LiveHandlers /\ \A l \in S : Active(l)
    BY <2>1 DEF LockDue, LiveHandlers, Due
  <2>3. Begin(Ticker, "stop", Nothing) /\ Hold(Ticker, S) /\ UNCHANGED <<rowsOf, world, chatHolder>>
    BY <2>1 DEF LockDue
  <2> QED
    BY <2>2, <2>3, Defaults, LockStep
<1>8. ASSUME UNCHANGED liveVars
      PROVE  IInv'
  BY <1>8 DEF liveVars, IInv, LiveTypeOK, HeldFacts, StartFacts, OneShare, AttachmentTrue, Active
<1> QED
  BY <1>1, <1>2, <1>3, <1>4, <1>5, <1>6, <1>7, <1>8, WorldStep DEF LiveNext

(* The invariant is inductive.                                             *)
THEOREM LiveInductive == LiveSpec => []IInv
BY InitOK, StepOK, PTL DEF LiveSpec

(* The state of LiveLocations is well typed.                               *)
THEOREM LiveTypes == LiveSpec => []LiveTypeOK
<1>1. IInv => LiveTypeOK
  BY DEF IInv
<1> QED
  BY <1>1, LiveInductive, PTL

(* createLiveLocation: however requests to start overlap, a chat has at    *)
(* most one active location of the user.                                   *)
THEOREM OneLocation == LiveSpec => []OneShare
<1>1. IInv => OneShare
  BY DEF IInv
<1> QED
  BY <1>1, LiveInductive, PTL

(* saveLiveLocationAttachment: a message says of its location what the row *)
(* says, unless the location was ended to delete the message.              *)
THEOREM MessageAgrees == LiveSpec => []AttachmentTrue
<1>1. IInv => AttachmentTrue
  BY DEF IInv
<1> QED
  BY <1>1, LiveInductive, PTL
-----------------------------------------------------------------------------

(* A committed transaction changes rows that were active or absent.        *)
LEMMA FinishSparesStopped ==
  ASSUME IInv, NEW h \in LiveHandlers, (\E l \in Shares : CommitStart(h, l)) \/ Commit(h), NEW k \in Shares, row[k].state = "stopped"
  PROVE  row'[k] = row[k]
<1>1. k \notin held[h] \/ stage[h] # "holding"
  BY DEF IInv, HeldFacts, Active
<1>2. CASE Commit(h)
  BY <1>1, <1>2 DEF Commit, Finish
<1>3. ASSUME NEW l \in Shares, CommitStart(h, l)
      PROVE  row'[k] = row[k]
  BY <1>1, <1>3 DEF CommitStart, Finish
<1> QED
  BY <1>2, <1>3

(* Nobody changes a row that is stopped.                                   *)
LEMMA StoppedStays ==
  ASSUME IInv, [LiveNext]_liveVars, NEW k \in Shares, row[k].state = "stopped"
  PROVE  row'[k] = row[k]
<1>1. ASSUME NEW h \in LiveHandlers, NEW l \in Shares, CutShort(h, l)
      PROVE  row'[k] = row[k]
  BY <1>1 DEF CutShort, Active, IInv, LiveTypeOK
<1>2. ASSUME NEW h \in LiveHandlers, Proceed(h)
      PROVE  row'[k] = row[k]
  BY <1>1, <1>2, FinishSparesStopped DEF Proceed, LockPrevious, EraseMessage, rowsOf
<1> QED
  BY <1>2 DEF LiveNext, LockChat, LockDevice, LockToStop, FindShared, Undo, LiveTick, LockDue, Lapse, Permit, rowsOf, liveVars

(* updateActiveLiveLocations and the others: what overlaps the end of a    *)
(* location neither moves it nor starts it again.                          *)
THEOREM StoppedForGood == LiveSpec => EndedForGood
<1>1. IInv /\ [LiveNext]_liveVars => [\A l \in Shares : row[l].state = "stopped" => row'[l] = row[l]]_row
  BY StoppedStays
<1> QED
  BY <1>1, LiveInductive, PTL DEF LiveSpec, EndedForGood
===============================================================================
