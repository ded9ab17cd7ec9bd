---------------------------- MODULE Messages_proof ----------------------------
(***************************************************************************)
(* Proofs about the components that run beside Delivery, for any number of *)
(* users, messages and requests: MessageEdits (E), Polls (P), ViewOnce     *)
(* (V), Statuses (S), Communities (C) and Forwarding (F).  Each has an     *)
(* invariant of its own, which no step of another component can disturb.   *)
(***************************************************************************)
EXTENDS MCMessages, Delivery_proof, Sequences, FiniteSetTheorems

(* Each component counts with the Cardinality of its own instance.         *)
LEMMA SameCardinality ==
  ASSUME NEW S0
  PROVE  E!Cardinality(S0) = Cardinality(S0) /\ P!Cardinality(S0) = Cardinality(S0) /\ V!Cardinality(S0) = Cardinality(S0)
         /\ F!Cardinality(S0) = Cardinality(S0)
<1>1. E!Cardinality(S0) = Cardinality(S0)
  BY Zenon DEF E!Cardinality, Cardinality
<1>2. P!Cardinality(S0) = Cardinality(S0)
  BY Zenon DEF P!Cardinality, Cardinality
<1>3. V!Cardinality(S0) = Cardinality(S0)
  BY Zenon DEF V!Cardinality, Cardinality
<1>4. F!Cardinality(S0) = Cardinality(S0)
  BY Zenon DEF F!Cardinality, Cardinality
<1> QED
  BY <1>1, <1>2, <1>3, <1>4

-----------------------------------------------------------------------------
(* Pins, edits and deletion of messages.                                   *)

(* Who holds the advisory lock has counted what is pinned, and who holds   *)
(* the row of a message has found it undeleted.                            *)
EditFacts ==
  \A r \in Edits :
    /\ editing[r] \in {"locked", "counted"} => pinLock = r
    /\ editing[r] = "counted" /\ adds[r] => Cardinality(pins \ deleted) < PinMaximum
    /\ editing[r] = "editing" => rowLock[subject[r]] = r /\ subject[r] \notin deleted

EditInv ==
  /\ E!EditTypeOK
  /\ EditFacts
  /\ PinsLimited
  /\ DeletedIsEmpty

(* The initial state.                                                      *)
LEMMA EditInitOK == E!EditInit => EditInv
<1> SUFFICES ASSUME E!EditInit
             PROVE  EditInv
  OBVIOUS
<1>1. E!EditTypeOK /\ EditFacts /\ DeletedIsEmpty
  BY DEF E!EditInit, E!EditTypeOK, EditFacts, DeletedIsEmpty, E!DeletedIsEmpty
<1>2. pins \ deleted = {}
  BY DEF E!EditInit
<1>3. Cardinality(pins \ deleted) <= PinMaximum
  BY <1>2, FS_EmptySet, MessagesAssumption
<1> QED
  BY <1>1, <1>3, SameCardinality DEF EditInv, PinsLimited, E!PinsLimited

(* Every step keeps the types.                                             *)
LEMMA EditTypes ==
  ASSUME E!EditTypeOK, E!EditNext
  PROVE  E!EditTypeOK'
<1> USE DEF E!EditTypeOK, E!Goto, E!Unlocked
<1>1. ASSUME NEW r \in Edits, E!FindToPin(r) \/ E!LockPins(r) \/ E!CountPins(r) \/ E!AddPin(r)
      PROVE  E!EditTypeOK'
  BY <1>1 DEF E!FindToPin, E!LockPins, E!CountPins, E!AddPin
<1>2. ASSUME NEW r \in Edits, E!LockToEdit(r)
      PROVE  E!EditTypeOK'
  BY <1>2 DEF E!LockToEdit
<1>3. ASSUME NEW r \in Edits, E!WriteEdit(r)
      PROVE  E!EditTypeOK'
  BY <1>3 DEF E!WriteEdit
<1>4. ASSUME NEW r \in Edits, E!RemovePin(r) \/ E!Interrupt(r)
      PROVE  E!EditTypeOK'
  BY <1>4 DEF E!RemovePin, E!Interrupt
<1>5. ASSUME NEW r \in Edits, E!Delete(r)
      PROVE  E!EditTypeOK'
  BY <1>5 DEF E!Delete, E!Empty
<1>6. ASSUME NEW m \in Texts, E!Unpin(m)
      PROVE  E!EditTypeOK'
  BY <1>6 DEF E!Unpin
<1>7. ASSUME NEW m \in Texts, E!Disappear(m)
      PROVE  E!EditTypeOK'
  BY <1>7 DEF E!Disappear, E!Empty
<1> QED
  BY <1>1, <1>2, <1>3, <1>4, <1>5, <1>6, <1>7 DEF E!EditNext

(* What is pinned and not deleted grows only when a pin is inserted.       *)
LEMMA PinsGrowOnlyByAddPin ==
  ASSUME E!EditTypeOK, E!EditNext, ~\E r \in Edits : E!AddPin(r)
  PROVE  pins' \ deleted' \subseteq pins \ deleted
<1>1. ASSUME NEW r \in Edits, E!FindToPin(r) \/ E!LockPins(r) \/ E!CountPins(r) \/ E!LockToEdit(r)
                              \/ E!WriteEdit(r) \/ E!Interrupt(r)
      PROVE  UNCHANGED <<pins, deleted>>
  BY <1>1 DEF E!FindToPin, E!LockPins, E!CountPins, E!LockToEdit, E!WriteEdit, E!Interrupt
<1>2. ASSUME NEW r \in Edits, E!Delete(r) \/ E!RemovePin(r)
      PROVE  pins' \subseteq pins /\ deleted \subseteq deleted'
  BY <1>2 DEF E!Delete, E!Empty, E!RemovePin
<1>3. ASSUME NEW m \in Texts, E!Unpin(m) \/ E!Disappear(m)
      PROVE  pins' \subseteq pins /\ deleted \subseteq deleted'
  BY <1>3 DEF E!Unpin, E!Disappear, E!Empty
<1> QED
  BY <1>1, <1>2, <1>3 DEF E!EditNext

(* The lock is held by who counts.                                         *)
LEMMA PinLockHeld ==
  ASSUME EditInv, E!EditNext, NEW r \in Edits, editing'[r] \in {"locked", "counted"}
  PROVE  pinLock' = r
<1>0. /\ \A q \in Edits : editing[q] \in {"locked", "counted"} => pinLock = q
      /\ Free \notin Edits
      /\ editing \in [Edits -> {"idle", "found", "locked", "counted", "editing", "deleted"}]
  BY MessagesAssumption DEF EditInv, EditFacts, E!EditTypeOK
<1> USE <1>0 DEF E!Goto
<1>1. ASSUME NEW q \in Edits, E!FindToPin(q) \/ E!LockToEdit(q) \/ E!WriteEdit(q) \/ E!RemovePin(q) \/ E!Delete(q)
      PROVE  pinLock' = r
  BY <1>1 DEF E!FindToPin, E!LockToEdit, E!WriteEdit, E!RemovePin, E!Delete
<1>2. ASSUME NEW q \in Edits, E!LockPins(q)
      PROVE  pinLock' = r
  BY <1>2 DEF E!LockPins, E!PinsFree
<1>3. ASSUME NEW q \in Edits, E!CountPins(q)
      PROVE  pinLock' = r
  BY <1>3 DEF E!CountPins
<1>4. ASSUME NEW q \in Edits, E!AddPin(q)
      PROVE  pinLock' = r
  BY <1>4 DEF E!AddPin
<1>5. ASSUME NEW q \in Edits, E!Interrupt(q)
      PROVE  pinLock' = r
  BY <1>5 DEF E!Interrupt
<1>6. ASSUME NEW m \in Texts, E!Unpin(m) \/ E!Disappear(m)
      PROVE  pinLock' = r
  BY <1>6 DEF E!Unpin, E!Disappear
<1> QED
  BY <1>1, <1>2, <1>3, <1>4, <1>5, <1>6 DEF E!EditNext

(* Who has counted to insert a pin had counted before, or finds fewer than *)
(* the maximum now.                                                        *)
LEMMA CountedStep ==
  ASSUME EditInv, E!EditNext, NEW r \in Edits, editing'[r] = "counted", adds'[r]
  PROVE  \/ editing[r] = "counted" /\ adds[r] /\ ~\E q \in Edits : E!AddPin(q)
         \/ UNCHANGED <<pins, deleted>> /\ Cardinality(pins \ deleted) < PinMaximum
<1>0. /\ editing \in [Edits -> {"idle", "found", "locked", "counted", "editing", "deleted"}]
      /\ adds \in [Edits -> BOOLEAN]
      /\ \A q \in Edits : editing[q] \in {"locked", "counted"} => pinLock = q
  BY DEF EditInv, EditFacts, E!EditTypeOK
<1> USE <1>0 DEF E!Goto
<1>1. ASSUME NEW q \in Edits, E!AddPin(q)
      PROVE  FALSE
  <2>1. editing[q] = "counted" /\ editing' = [editing EXCEPT ![q] = "idle"]
    BY <1>1 DEF E!AddPin
  <2> QED
    BY <2>1
<1>2. ASSUME NEW q \in Edits, E!FindToPin(q) \/ E!LockPins(q)
      PROVE  editing[r] = "counted" /\ adds[r]
  BY <1>2 DEF E!FindToPin, E!LockPins
<1>3. ASSUME NEW q \in Edits, E!LockToEdit(q) \/ E!WriteEdit(q)
      PROVE  editing[r] = "counted" /\ adds[r]
  BY <1>3 DEF E!LockToEdit, E!WriteEdit
<1>4. ASSUME NEW q \in Edits, E!RemovePin(q) \/ E!Delete(q)
      PROVE  editing[r] = "counted" /\ adds[r]
  BY <1>4 DEF E!RemovePin, E!Delete
<1>5. ASSUME NEW q \in Edits, E!Interrupt(q)
      PROVE  editing[r] = "counted" /\ adds[r]
  BY <1>5 DEF E!Interrupt
<1>6. ASSUME NEW m \in Texts, E!Unpin(m) \/ E!Disappear(m)
      PROVE  editing[r] = "counted" /\ adds[r]
  BY <1>6 DEF E!Unpin, E!Disappear
<1>7. ASSUME NEW q \in Edits, E!CountPins(q)
      PROVE  \/ editing[r] = "counted" /\ adds[r]
             \/ UNCHANGED <<pins, deleted>> /\ Cardinality(pins \ deleted) < PinMaximum
  <2>1. CASE q = r
    <3>1. UNCHANGED <<pins, deleted>> /\ ~(E!Cardinality(pins \ deleted) >= PinMaximum)
      BY <1>7, <2>1 DEF E!CountPins
    <3>2. Cardinality(pins \ deleted) \in Nat
      BY MessagesAssumption, FS_Subset, FS_CardinalityType DEF EditInv, E!EditTypeOK
    <3> QED
      BY <3>1, <3>2, SameCardinality, MessagesAssumption
  <2>2. CASE q # r
    <3>1. adds' = [adds EXCEPT ![q] = subject[q] \notin pins]
      BY <1>7 DEF E!CountPins
    <3>2. editing' = [editing EXCEPT ![q] = "idle"] \/ editing' = [editing EXCEPT ![q] = "counted"]
      BY <1>7 DEF E!CountPins
    <3> QED
      BY <3>1, <3>2, <2>2
  <2> QED
    BY <2>1, <2>2
<1> QED
  BY <1>1, <1>2, <1>3, <1>4, <1>5, <1>6, <1>7 DEF E!EditNext

(* The maximum is kept, and who has counted may still insert.              *)
LEMMA PinsStep ==
  ASSUME EditInv, E!EditNext
  PROVE  /\ Cardinality(pins' \ deleted') <= PinMaximum
         /\ \A r \in Edits : editing'[r] = "counted" /\ adds'[r] => Cardinality(pins' \ deleted') < PinMaximum
<1> DEFINE pinned == pins \ deleted
<1>1. IsFiniteSet(pinned) /\ Cardinality(pinned) \in Nat /\ Cardinality(pinned) <= PinMaximum /\ PinMaximum \in Nat
  BY MessagesAssumption, FS_Subset, FS_CardinalityType, SameCardinality
  DEF EditInv, E!EditTypeOK, PinsLimited, E!PinsLimited
<1>2. Cardinality(pins' \ deleted') <= PinMaximum
  <2>1. CASE ~\E q \in Edits : E!AddPin(q)
    <3>1. pins' \ deleted' \subseteq pinned
      BY <2>1, PinsGrowOnlyByAddPin DEF EditInv
    <3>2. Cardinality(pins' \ deleted') <= Cardinality(pinned) /\ Cardinality(pins' \ deleted') \in Nat
      BY <1>1, <3>1, FS_Subset, FS_CardinalityType
    <3> QED
      BY <1>1, <3>2
  <2>2. ASSUME NEW q \in Edits, E!AddPin(q)
        PROVE  Cardinality(pins' \ deleted') <= PinMaximum
    <3>1. CASE adds[q]
      <4>1. Cardinality(pinned) < PinMaximum
        BY <2>2, <3>1 DEF E!AddPin, EditInv, EditFacts
      <4>2. IsFiniteSet(pinned \cup {subject[q]}) /\ Cardinality(pinned \cup {subject[q]}) <= Cardinality(pinned) + 1
        <5> HIDE DEF pinned
        <5>1. IsFiniteSet(pinned \cup {subject[q]}) /\ \/ Cardinality(pinned \cup {subject[q]}) = Cardinality(pinned)
                                                       \/ Cardinality(pinned \cup {subject[q]}) = Cardinality(pinned) + 1
          BY <1>1, FS_AddElement
        <5> QED
          BY <1>1, <5>1
      <4>3. pins' \ deleted' \subseteq pinned \cup {subject[q]}
        BY <2>2 DEF E!AddPin
      <4>4. /\ Cardinality(pinned \cup {subject[q]}) \in Nat /\ Cardinality(pins' \ deleted') \in Nat
            /\ Cardinality(pins' \ deleted') <= Cardinality(pinned \cup {subject[q]})
        BY <4>2, <4>3, FS_Subset, FS_CardinalityType
      <4> HIDE DEF pinned
      <4> QED
        BY <1>1, <4>1, <4>2, <4>4
    <3>2. CASE ~adds[q]
      <4>1. pins' \ deleted' = pinned
        BY <2>2, <3>2 DEF E!AddPin
      <4> QED
        BY <1>1, <4>1
    <3> QED
      BY <3>1, <3>2
  <2> QED
    BY <2>1, <2>2
<1>3. ASSUME NEW r \in Edits, editing'[r] = "counted", adds'[r]
      PROVE  Cardinality(pins' \ deleted') < PinMaximum
  <2>1. CASE editing[r] = "counted" /\ adds[r] /\ ~\E q \in Edits : E!AddPin(q)
    <3>1. Cardinality(pinned) < PinMaximum
      BY <2>1 DEF EditInv, EditFacts
    <3>2. pins' \ deleted' \subseteq pinned
      BY <2>1, PinsGrowOnlyByAddPin DEF EditInv
    <3>3. Cardinality(pins' \ deleted') <= Cardinality(pinned) /\ Cardinality(pins' \ deleted') \in Nat
      BY <1>1, <3>2, FS_Subset, FS_CardinalityType
    <3> QED
      BY <1>1, <3>1, <3>3
  <2>2. CASE UNCHANGED <<pins, deleted>> /\ Cardinality(pinned) < PinMaximum
    BY <2>2
  <2> QED
    BY <1>3, <2>1, <2>2, CountedStep
<1> QED
  BY <1>2, <1>3

(* Who edits holds the row, and deleting waits for it.                     *)
LEMMA EditHolds ==
  ASSUME EditInv, E!EditNext, NEW r \in Edits, editing'[r] = "editing"
  PROVE  rowLock'[subject[r]] = r /\ subject[r] \notin deleted'
<1>0. /\ editing[r] = "editing" => rowLock[subject[r]] = r /\ subject[r] \notin deleted
      /\ \A q \in Edits : editing[q] = "editing" => rowLock[subject[q]] = q
      /\ Free \notin Edits /\ subject \in [Edits -> Texts] /\ rowLock \in [Texts -> Edits \cup {Free}]
      /\ editing \in [Edits -> {"idle", "found", "locked", "counted", "editing", "deleted"}]
  BY MessagesAssumption DEF EditInv, EditFacts, E!EditTypeOK
<1> USE <1>0 DEF E!Goto
<1>1. ASSUME NEW q \in Edits, E!FindToPin(q) \/ E!LockPins(q) \/ E!AddPin(q) \/ E!RemovePin(q)
      PROVE  rowLock'[subject[r]] = r /\ subject[r] \notin deleted'
  BY <1>1 DEF E!FindToPin, E!LockPins, E!AddPin, E!RemovePin
<1>2. ASSUME NEW q \in Edits, E!CountPins(q)
      PROVE  rowLock'[subject[r]] = r /\ subject[r] \notin deleted'
  <2>1. UNCHANGED <<rowLock, deleted>>
    BY <1>2 DEF E!CountPins
  <2>2. editing' = [editing EXCEPT ![q] = "idle"] \/ editing' = [editing EXCEPT ![q] = "counted"]
    BY <1>2 DEF E!CountPins
  <2> QED
    BY <2>1, <2>2
<1>3. ASSUME NEW q \in Edits, E!LockToEdit(q)
      PROVE  rowLock'[subject[r]] = r /\ subject[r] \notin deleted'
  BY <1>3 DEF E!LockToEdit, E!Editable
<1>4. ASSUME NEW q \in Edits, E!WriteEdit(q)
      PROVE  rowLock'[subject[r]] = r /\ subject[r] \notin deleted'
  BY <1>4 DEF E!WriteEdit
<1>5. ASSUME NEW q \in Edits, E!Delete(q)
      PROVE  rowLock'[subject[r]] = r /\ subject[r] \notin deleted'
  BY <1>5 DEF E!Delete, E!Empty, E!Unlocked
<1>6. ASSUME NEW q \in Edits, E!Interrupt(q)
      PROVE  rowLock'[subject[r]] = r /\ subject[r] \notin deleted'
  BY <1>6 DEF E!Interrupt
<1>7. ASSUME NEW m \in Texts, E!Unpin(m) \/ E!Disappear(m)
      PROVE  rowLock'[subject[r]] = r /\ subject[r] \notin deleted'
  BY <1>7 DEF E!Unpin, E!Disappear, E!Empty, E!Unlocked
<1> QED
  BY <1>1, <1>2, <1>3, <1>4, <1>5, <1>6, <1>7 DEF E!EditNext

(* An edit writes a message that is not deleted, a deletion empties it.    *)
LEMMA DeletedStaysEmpty ==
  ASSUME EditInv, E!EditNext
  PROVE  \A m \in deleted' : body'[m] = ""
<1>0. /\ \A m \in deleted : body[m] = ""
      /\ \A q \in Edits : editing[q] = "editing" => subject[q] \notin deleted
      /\ deleted \in SUBSET Texts /\ subject \in [Edits -> Texts]
      /\ body \in [Texts -> {"first", "edited", ""}]
  BY DEF EditInv, EditFacts, E!EditTypeOK, DeletedIsEmpty, E!DeletedIsEmpty
<1>1. ASSUME NEW q \in Edits, E!FindToPin(q) \/ E!LockPins(q) \/ E!AddPin(q) \/ E!RemovePin(q) \/ E!CountPins(q)
                              \/ E!LockToEdit(q) \/ E!Interrupt(q)
      PROVE  UNCHANGED <<body, deleted>>
  BY <1>1 DEF E!FindToPin, E!LockPins, E!CountPins, E!AddPin, E!RemovePin, E!LockToEdit, E!Interrupt
<1>2. ASSUME NEW q \in Edits, E!WriteEdit(q)
      PROVE  \A m \in deleted' : body'[m] = ""
  BY <1>0, <1>2 DEF E!WriteEdit
<1>3. ASSUME NEW t \in Texts, E!Empty(t)
      PROVE  \A m \in deleted' : body'[m] = ""
  BY <1>0, <1>3 DEF E!Empty
<1>4. ASSUME NEW q \in Edits, E!Delete(q)
      PROVE  \A m \in deleted' : body'[m] = ""
  BY <1>0, <1>3, <1>4 DEF E!Delete
<1>5. ASSUME NEW m \in Texts, E!Unpin(m)
      PROVE  UNCHANGED <<body, deleted>>
  BY <1>5 DEF E!Unpin
<1>6. ASSUME NEW m \in Texts, E!Disappear(m)
      PROVE  \A t \in deleted' : body'[t] = ""
  BY <1>3, <1>6 DEF E!Disappear
<1> QED
  BY <1>0, <1>1, <1>2, <1>4, <1>5, <1>6 DEF E!EditNext

(* Nothing changes what a request is about.                                *)
LEMMA SubjectStays == E!EditNext => UNCHANGED subject
  BY DEF E!EditNext, E!FindToPin, E!LockPins, E!CountPins, E!AddPin, E!LockToEdit, E!WriteEdit, E!Delete,
         E!RemovePin, E!Interrupt, E!Unpin, E!Disappear

(* The invariant is kept by every step, of this component and of others.   *)
LEMMA EditStep == EditInv /\ [E!EditNext]_editVars => EditInv'
<1> SUFFICES ASSUME EditInv, [E!EditNext]_editVars
             PROVE  EditInv'
  OBVIOUS
<1>1. CASE E!EditNext
  <2>1. E!EditTypeOK'
    BY <1>1, EditTypes DEF EditInv
  <2>2. EditFacts'
    BY <1>1, PinLockHeld, PinsStep, EditHolds, SubjectStays DEF EditFacts
  <2>3. PinsLimited'
    <3>1. E!Cardinality(pins' \ deleted') = Cardinality(pins' \ deleted')
      BY SameCardinality
    <3> QED
      BY <1>1, <3>1, PinsStep DEF PinsLimited, E!PinsLimited
  <2>4. DeletedIsEmpty'
    BY <1>1, DeletedStaysEmpty DEF DeletedIsEmpty, E!DeletedIsEmpty
  <2> QED
    BY <2>1, <2>2, <2>3, <2>4 DEF EditInv
<1>2. CASE UNCHANGED editVars
  BY <1>2 DEF editVars, EditInv, E!EditTypeOK, EditFacts, PinsLimited, E!PinsLimited, DeletedIsEmpty, E!DeletedIsEmpty
<1> QED
  BY <1>1, <1>2
-----------------------------------------------------------------------------
(* Polls.                                                                  *)

BallotRecords ==
  [step : {"idle", "locked", "dropped", "saved", "read", "counted"}, user : Voters, choice : SUBSET Options,
   dropped : SUBSET Options, closed : BOOLEAN, votes : P!Choices]

PollTypes ==
  /\ exists \in BOOLEAN /\ closed \in BOOLEAN
  /\ votes \in P!Choices
  /\ pollLock \in Ballots \cup {Free}
  /\ ballot \in [Ballots -> BallotRecords]
  /\ shown \in [closed : BOOLEAN, votes : P!Choices]

(* Who votes holds the row of an open poll, and has found all the votes of *)
(* his user; who read that the poll is closed will read the last votes.    *)
BallotFacts(b, r) ==
  /\ b.step \in {"locked", "dropped"} =>
       pollLock = r /\ ~closed /\ (AllowMultiple \/ P!Cardinality(b.choice) <= 1)
  /\ b.step = "dropped" => b.dropped = votes[b.user]
  /\ b.step \in {"read", "counted"} /\ b.closed => closed
  /\ b.step = "counted" /\ b.closed => b.votes = votes

PollInv ==
  /\ PollTypes
  /\ \A r \in Ballots : BallotFacts(ballot[r], r)
  /\ OneChoice
  /\ ClosedIsFinal

(* The ballot of nobody.                                                   *)
LEMMA NoBallotFields ==
  /\ P!NoBallot \in BallotRecords
  /\ P!NoBallot.step = "idle"
  /\ P!NoVotes \in P!Choices
  /\ \A u \in Voters : P!NoVotes[u] = {}
<1>1. (CHOOSE u \in Voters : TRUE) \in Voters
  BY MessagesAssumption
<1> QED
  BY <1>1 DEF P!NoBallot, P!NoVotes, P!Choices, BallotRecords

LEMMA PollInitOK == P!PollInit => PollInv
<1> SUFFICES ASSUME P!PollInit
             PROVE  PollInv
  OBVIOUS
<1>1. PollTypes
  BY NoBallotFields DEF P!PollInit, PollTypes
<1>2. \A r \in Ballots : BallotFacts(ballot[r], r)
  BY NoBallotFields DEF P!PollInit, BallotFacts
<1>3. OneChoice
  <2>1. P!Cardinality({}) = 0
    BY SameCardinality, FS_EmptySet
  <2> QED
    BY <2>1, NoBallotFields DEF P!PollInit, OneChoice, P!OneChoice
<1>4. ClosedIsFinal
  BY DEF P!PollInit, ClosedIsFinal, P!ClosedIsFinal
<1> QED
  BY <1>1, <1>2, <1>3, <1>4 DEF PollInv

(* What a step does to the ballot of its request, and to those of others.  *)
LEMMA BallotChanges ==
  ASSUME PollTypes, NEW r \in Ballots, NEW b \in BallotRecords, ballot' = [ballot EXCEPT ![r] = b]
  PROVE  /\ ballot' \in [Ballots -> BallotRecords]
         /\ ballot'[r] = b
         /\ \A q \in Ballots \ {r} : ballot'[q] = ballot[q]
  BY DEF PollTypes

(* setPollVotes.                                                           *)
LEMMA LockPollStep ==
  ASSUME PollInv, NEW r \in Ballots, NEW u \in Voters, NEW options \in SUBSET Options, P!LockPoll(r, u, options)
  PROVE  PollInv'
<1> DEFINE b == [ballot[r] EXCEPT !.step = "locked", !.user = u, !.choice = options]
<1>1. ballot[r] \in BallotRecords
  BY DEF PollInv, PollTypes
<1>2. b \in BallotRecords /\ b.step = "locked" /\ b.choice = options
  BY <1>1 DEF BallotRecords
<1>3. ballot' = [ballot EXCEPT ![r] = b]
  BY DEF P!LockPoll, P!At
<1>4. UNCHANGED <<exists, closed, votes, shown>> /\ pollLock' = r /\ pollLock = Free /\ ~closed
      /\ (AllowMultiple \/ P!Cardinality(options) <= 1)
  BY DEF P!LockPoll, P!RowFree
<1> HIDE DEF b
<1>5. /\ ballot' \in [Ballots -> BallotRecords]
      /\ ballot'[r] = b
      /\ \A q \in Ballots \ {r} : ballot'[q] = ballot[q]
  BY <1>2, <1>3, BallotChanges DEF PollInv
<1>6. PollTypes'
  BY <1>4, <1>5 DEF PollInv, PollTypes
<1>7. \A q \in Ballots : BallotFacts(ballot[q], q)'
  <2>1. BallotFacts(ballot[r], r)'
    BY <1>2, <1>4, <1>5 DEF BallotFacts
  <2>2. ASSUME NEW q \in Ballots \ {r}
        PROVE  BallotFacts(ballot[q], q)'
    <3>1. BallotFacts(ballot[q], q) /\ q # Free
      BY MessagesAssumption DEF PollInv
    <3> QED
      BY <1>4, <1>5, <3>1 DEF BallotFacts
  <2> QED
    BY <2>1, <2>2
<1>8. OneChoice' /\ ClosedIsFinal'
  BY <1>4 DEF PollInv, OneChoice, P!OneChoice, ClosedIsFinal, P!ClosedIsFinal
<1> QED
  BY <1>6, <1>7, <1>8 DEF PollInv

(* A step that leaves the votes and the closing alone keeps the ballots of *)
(* other requests and what the room was shown.                             *)
LEMMA BallotSteps ==
  ASSUME PollInv, NEW r \in Ballots, NEW b \in BallotRecords, ballot' = [ballot EXCEPT ![r] = b],
         UNCHANGED <<exists, closed, votes>>, pollLock' = pollLock \/ (pollLock = r /\ pollLock' = Free),
         BallotFacts(ballot[r], r)', shown' \in [closed : BOOLEAN, votes : P!Choices], ClosedIsFinal'
  PROVE  PollInv'
<1>1. /\ ballot' \in [Ballots -> BallotRecords]
      /\ ballot'[r] = b
      /\ \A q \in Ballots \ {r} : ballot'[q] = ballot[q]
  BY BallotChanges DEF PollInv
<1>2. PollTypes'
  BY <1>1 DEF PollInv, PollTypes
<1>3. ASSUME NEW q \in Ballots \ {r}
      PROVE  BallotFacts(ballot[q], q)'
  BY <1>1 DEF PollInv, BallotFacts
<1>4. OneChoice'
  BY DEF PollInv, OneChoice, P!OneChoice
<1> QED
  BY <1>1, <1>2, <1>3, <1>4 DEF PollInv

LEMMA DropVotesStep ==
  ASSUME PollInv, NEW r \in Ballots, P!DropVotes(r)
  PROVE  PollInv'
<1> DEFINE b == [ballot[r] EXCEPT !.step = "dropped", !.dropped = votes[ballot[r].user]]
<1>1. ballot[r] \in BallotRecords /\ votes[ballot[r].user] \in SUBSET Options /\ BallotFacts(ballot[r], r)
  BY DEF PollInv, PollTypes, BallotRecords, P!Choices
<1>2. /\ b \in BallotRecords /\ b.step = "dropped"
      /\ b.choice = ballot[r].choice /\ b.dropped = votes[b.user]
  BY <1>1 DEF BallotRecords
<1>3. /\ ballot' = [ballot EXCEPT ![r] = b] /\ ballot[r].step = "locked"
      /\ UNCHANGED <<exists, closed, votes, pollLock, shown>>
  BY DEF P!DropVotes, P!At
<1> HIDE DEF b
<1>4. ballot'[r] = b
  BY <1>2, <1>3, BallotChanges DEF PollInv
<1>5. BallotFacts(ballot[r], r)'
  BY <1>1, <1>2, <1>3, <1>4 DEF BallotFacts
<1>6. ClosedIsFinal' /\ shown' \in [closed : BOOLEAN, votes : P!Choices]
  BY <1>3 DEF PollInv, PollTypes, ClosedIsFinal, P!ClosedIsFinal
<1> QED
  BY <1>2, <1>3, <1>5, <1>6, BallotSteps

LEMMA ReadPollStep ==
  ASSUME PollInv, NEW r \in Ballots, P!ReadPoll(r) \/ P!ReadVotes(r)
  PROVE  PollInv'
<1> DEFINE p == [ballot[r] EXCEPT !.step = "read", !.closed = closed]
           v == [ballot[r] EXCEPT !.step = "counted", !.votes = votes]
<1>1. ballot[r] \in BallotRecords /\ votes \in P!Choices /\ closed \in BOOLEAN /\ BallotFacts(ballot[r], r)
  BY DEF PollInv, PollTypes
<1>2. /\ p \in BallotRecords /\ p.step = "read" /\ p.closed = closed
      /\ v \in BallotRecords /\ v.step = "counted" /\ v.closed = ballot[r].closed /\ v.votes = votes
  BY <1>1 DEF BallotRecords
<1>3. /\ \/ ballot' = [ballot EXCEPT ![r] = p]
         \/ ballot' = [ballot EXCEPT ![r] = v] /\ ballot[r].step = "read"
      /\ UNCHANGED <<exists, closed, votes, pollLock, shown>>
  BY DEF P!ReadPoll, P!ReadVotes, P!At
<1> HIDE DEF p, v
<1>4. ballot'[r] = p \/ (ballot'[r] = v /\ ballot[r].step = "read")
  BY <1>2, <1>3, BallotChanges DEF PollInv
<1>5. BallotFacts(ballot[r], r)'
  BY <1>1, <1>2, <1>3, <1>4 DEF BallotFacts
<1>6. ClosedIsFinal' /\ shown' \in [closed : BOOLEAN, votes : P!Choices]
  BY <1>3 DEF PollInv, PollTypes, ClosedIsFinal, P!ClosedIsFinal
<1> QED
  BY <1>2, <1>3, <1>5, <1>6, BallotSteps

LEMMA ShowStep ==
  ASSUME PollInv, NEW r \in Ballots, P!Show(r) \/ P!GiveUp(r)
  PROVE  PollInv'
<1>1. ballot[r] \in BallotRecords /\ BallotFacts(ballot[r], r)
  BY DEF PollInv, PollTypes
<1>2. /\ ballot' = [ballot EXCEPT ![r] = P!NoBallot]
      /\ UNCHANGED <<exists, closed, votes>>
      /\ pollLock' = pollLock \/ (pollLock = r /\ pollLock' = Free)
      /\ \/ shown' = shown
         \/ shown' = [closed |-> ballot[r].closed, votes |-> ballot[r].votes] /\ ballot[r].step = "counted"
  BY DEF P!Show, P!GiveUp, P!At
<1>3. BallotFacts(ballot[r], r)'
  <2>1. ballot'[r] = P!NoBallot
    BY <1>2, NoBallotFields, BallotChanges DEF PollInv
  <2> QED
    BY <2>1, NoBallotFields DEF BallotFacts
<1>4. shown' \in [closed : BOOLEAN, votes : P!Choices]
  BY <1>1, <1>2 DEF PollInv, PollTypes, BallotRecords
<1>5. ClosedIsFinal'
  BY <1>1, <1>2 DEF PollInv, BallotFacts, ClosedIsFinal, P!ClosedIsFinal
<1> QED
  BY <1>2, <1>3, <1>4, <1>5, NoBallotFields, BallotSteps

(* The votes a request saves are all that its user has.                    *)
LEMMA SaveVotesStep ==
  ASSUME PollInv, NEW r \in Ballots, P!SaveVotes(r)
  PROVE  PollInv'
<1> DEFINE b == [P!NoBallot EXCEPT !.step = "saved"]
<1>1. /\ ballot[r] \in BallotRecords /\ BallotFacts(ballot[r], r) /\ votes \in P!Choices
      /\ \A q \in Ballots : BallotFacts(ballot[q], q)
  BY DEF PollInv, PollTypes
<1>2. b \in BallotRecords /\ b.step = "saved"
  BY NoBallotFields DEF BallotRecords
<1>3. /\ ballot[r].step = "dropped" /\ ballot' = [ballot EXCEPT ![r] = b]
      /\ votes' = [votes EXCEPT ![ballot[r].user] = (@ \ ballot[r].dropped) \cup ballot[r].choice]
      /\ pollLock' = Free /\ UNCHANGED <<exists, closed, shown>>
  BY DEF P!SaveVotes, P!At
<1> HIDE DEF b
<1>4. /\ pollLock = r /\ ~closed /\ (AllowMultiple \/ P!Cardinality(ballot[r].choice) <= 1)
      /\ ballot[r].dropped = votes[ballot[r].user]
  BY <1>1, <1>3 DEF BallotFacts
<1>5. ballot[r].user \in Voters /\ ballot[r].choice \in SUBSET Options
  BY <1>1 DEF BallotRecords
<1>6. votes' = [votes EXCEPT ![ballot[r].user] = ballot[r].choice]
  BY <1>1, <1>3, <1>4, <1>5 DEF P!Choices
<1>7. votes' \in P!Choices
  BY <1>1, <1>5, <1>6 DEF P!Choices
<1>8. /\ ballot' \in [Ballots -> BallotRecords]
      /\ ballot'[r] = b
      /\ \A q \in Ballots \ {r} : ballot'[q] = ballot[q]
  BY <1>2, <1>3, BallotChanges DEF PollInv
<1>9. PollTypes'
  BY <1>3, <1>7, <1>8 DEF PollInv, PollTypes
<1>10. ASSUME NEW q \in Ballots
       PROVE  BallotFacts(ballot[q], q)'
  BY <1>1, <1>2, <1>3, <1>4, <1>8 DEF BallotFacts
<1>11. OneChoice'
  <2>1. CASE ~AllowMultiple
    <3>1. \A u \in Voters : votes'[u] = ballot[r].choice \/ votes'[u] = votes[u]
      BY <1>1, <1>5, <1>6 DEF P!Choices
    <3>2. \A u \in Voters : P!Cardinality(votes[u]) <= 1
      BY <2>1 DEF PollInv, OneChoice, P!OneChoice
    <3> QED
      BY <1>4, <2>1, <3>1, <3>2 DEF OneChoice, P!OneChoice
  <2>2. CASE AllowMultiple
    BY <2>2 DEF OneChoice, P!OneChoice
  <2> QED
    BY <2>1, <2>2
<1>12. ClosedIsFinal'
  BY <1>3, <1>4 DEF PollInv, ClosedIsFinal, P!ClosedIsFinal
<1> QED
  BY <1>9, <1>10, <1>11, <1>12 DEF PollInv

(* Nobody votes while a poll is closed: the row is free.                   *)
LEMMA ClosePollStep ==
  ASSUME PollInv, NEW r \in Ballots, P!ClosePoll(r)
  PROVE  PollInv'
<1> DEFINE b == [ballot[r] EXCEPT !.step = "saved"]
<1>1. ballot[r] \in BallotRecords /\ \A q \in Ballots : BallotFacts(ballot[q], q) /\ q # Free
  BY MessagesAssumption DEF PollInv, PollTypes
<1>2. b \in BallotRecords /\ b.step = "saved"
  BY <1>1 DEF BallotRecords
<1>3. /\ ballot' = [ballot EXCEPT ![r] = b] /\ pollLock = Free /\ closed' = TRUE
      /\ UNCHANGED <<exists, votes, pollLock, shown>>
  BY DEF P!ClosePoll, P!RowFree
<1> HIDE DEF b
<1>4. /\ ballot' \in [Ballots -> BallotRecords]
      /\ ballot'[r] = b
      /\ \A q \in Ballots \ {r} : ballot'[q] = ballot[q]
  BY <1>2, <1>3, BallotChanges DEF PollInv
<1>5. PollTypes'
  BY <1>3, <1>4 DEF PollInv, PollTypes
<1>6. ASSUME NEW q \in Ballots
      PROVE  BallotFacts(ballot[q], q)'
  BY <1>1, <1>2, <1>3, <1>4 DEF BallotFacts
<1>7. OneChoice' /\ ClosedIsFinal'
  BY <1>3 DEF PollInv, OneChoice, P!OneChoice, ClosedIsFinal, P!ClosedIsFinal
<1> QED
  BY <1>5, <1>6, <1>7 DEF PollInv

LEMMA PollStep == PollInv /\ [P!PollNext]_pollVars => PollInv'
<1> SUFFICES ASSUME PollInv, [P!PollNext]_pollVars
             PROVE  PollInv'
  OBVIOUS
<1>1. CASE P!CreatePoll
  BY <1>1 DEF P!CreatePoll, PollInv, PollTypes, BallotFacts, OneChoice, P!OneChoice, ClosedIsFinal, P!ClosedIsFinal
<1>2. CASE UNCHANGED pollVars
  BY <1>2 DEF pollVars, PollInv, PollTypes, BallotFacts, OneChoice, P!OneChoice, ClosedIsFinal, P!ClosedIsFinal
<1>3. ASSUME NEW r \in Ballots,
             \/ \E u \in Voters, options \in SUBSET Options : P!LockPoll(r, u, options)
             \/ P!DropVotes(r) \/ P!SaveVotes(r) \/ P!ClosePoll(r)
             \/ P!ReadPoll(r) \/ P!ReadVotes(r) \/ P!Show(r) \/ P!GiveUp(r)
      PROVE  PollInv'
  BY <1>3, LockPollStep, DropVotesStep, SaveVotesStep, ClosePollStep, ReadPollStep, ShowStep
<1> QED
  BY <1>1, <1>2, <1>3 DEF P!PollNext

-----------------------------------------------------------------------------
(* View-once media.                                                        *)

(* What has been announced or is about to be.                              *)
Announced == granted \cup {<<viewer[r], counted[r]>> : r \in {q \in Opens : opening[q] = "opened"}}

(* Who holds the message is new to it, and has counted one more than are   *)
(* committed; what is announced is of committed openings.                  *)
ViewFacts ==
  /\ \A r \in Opens : opening[r] \in {"locked", "counted"} => mediaLock = r /\ viewer[r] \notin opened
  /\ \A r \in Opens : opening[r] = "counted" => counted[r] = Cardinality(opened) + 1
  /\ \A g \in Announced : g[1] \in opened /\ g[2] \in Nat \ {0} /\ g[2] <= Cardinality(opened)
  /\ \A g, h \in Announced : g[1] = h[1] \/ g[2] = h[2] => g = h

ViewInv == V!ViewTypeOK /\ ViewFacts

(* Openings can be counted.                                                *)
LEMMA ViewersCountable ==
  /\ IsFiniteSet(Viewers) /\ Cardinality(Viewers) \in Nat /\ V!Cardinality(Viewers) = Cardinality(Viewers)
  /\ \A S0 \in SUBSET Viewers : IsFiniteSet(S0) /\ Cardinality(S0) \in Nat /\ Cardinality(S0) <= Cardinality(Viewers)
<1>1. IsFiniteSet(Viewers) /\ Cardinality(Viewers) \in Nat /\ V!Cardinality(Viewers) = Cardinality(Viewers)
  BY MessagesAssumption, FS_CardinalityType, SameCardinality
<1>2. ASSUME NEW S0 \in SUBSET Viewers
      PROVE  IsFiniteSet(S0) /\ Cardinality(S0) \in Nat /\ Cardinality(S0) <= Cardinality(Viewers)
  BY <1>1, FS_Subset, FS_CardinalityType
<1> QED
  BY <1>1, <1>2

LEMMA ViewInitOK == V!ViewInit => ViewInv
<1> SUFFICES ASSUME V!ViewInit
             PROVE  ViewInv
  OBVIOUS
<1>1. V!ViewTypeOK
  BY ViewersCountable DEF V!ViewInit, V!ViewTypeOK
<1>2. Announced = {}
  BY DEF V!ViewInit, Announced
<1>3. ViewFacts
  BY <1>2 DEF V!ViewInit, ViewFacts
<1> QED
  BY <1>1, <1>3 DEF ViewInv

(* A step that commits nothing announces nothing new.                      *)
LEMMA ViewQuiet ==
  ASSUME ViewInv, V!ViewTypeOK', UNCHANGED <<opened, viewer>>, Announced' \subseteq Announced,
         \A r \in Opens : opening'[r] \in {"locked", "counted"} => mediaLock' = r /\ viewer[r] \notin opened,
         \A r \in Opens : opening'[r] = "counted" => counted'[r] = Cardinality(opened) + 1
  PROVE  ViewInv'
  BY DEF ViewInv, ViewFacts

LEMMA LockMediaStep ==
  ASSUME ViewInv, NEW r \in Opens, V!LockMedia(r)
  PROVE  ViewInv'
<1>0. V!ViewTypeOK /\ (\A q \in Opens : opening[q] \in {"locked", "counted"} => mediaLock = q) /\ Free \notin Opens
  BY MessagesAssumption DEF ViewInv, ViewFacts
<1>1. V!ViewTypeOK'
  BY <1>0 DEF V!ViewTypeOK, V!LockMedia, V!MediaFree
<1>2. /\ mediaLock = Free /\ mediaLock' = r /\ viewer[r] \notin opened /\ opening[r] = "idle"
      /\ opening' = [opening EXCEPT ![r] = "locked"] /\ UNCHANGED <<opened, viewer, counted, granted>>
  BY DEF V!LockMedia, V!MediaFree
<1>3. \A q \in Opens : opening'[q] = (IF q = r THEN "locked" ELSE opening[q])
  BY <1>0, <1>2 DEF V!ViewTypeOK
<1>4. Announced' = Announced
  BY <1>2, <1>3 DEF Announced
<1>5. \A q \in Opens : opening'[q] \in {"locked", "counted"} => q = r
  BY <1>0, <1>2, <1>3
<1> QED
  BY <1>1, <1>2, <1>3, <1>4, <1>5, ViewQuiet

LEMMA RecordOpeningStep ==
  ASSUME ViewInv, NEW r \in Opens, V!RecordOpening(r)
  PROVE  ViewInv'
<1>0. /\ V!ViewTypeOK
      /\ \A q \in Opens : opening[q] \in {"locked", "counted"} => mediaLock = q /\ viewer[q] \notin opened
  BY DEF ViewInv, ViewFacts
<1>1. /\ opening[r] = "locked" /\ opening' = [opening EXCEPT ![r] = "counted"]
      /\ counted' = [counted EXCEPT ![r] = V!Cardinality(opened \cup {viewer[r]})]
      /\ viewer[r] \notin opened /\ UNCHANGED <<available, opened, mediaLock, viewer, granted>>
  BY DEF V!RecordOpening
<1>2. viewer[r] \in Viewers /\ opened \in SUBSET Viewers /\ opened \cup {viewer[r]} \in SUBSET Viewers
  BY <1>0 DEF V!ViewTypeOK
<1>3. /\ V!Cardinality(opened \cup {viewer[r]}) = Cardinality(opened) + 1
      /\ Cardinality(opened) + 1 \in 0..V!Cardinality(Viewers)
  <2>1. IsFiniteSet(opened) /\ Cardinality(opened \cup {viewer[r]}) \in Nat /\ Cardinality(opened) \in Nat
        /\ Cardinality(opened \cup {viewer[r]}) <= Cardinality(Viewers)
    BY <1>2, ViewersCountable
  <2>2. Cardinality(opened \cup {viewer[r]}) = Cardinality(opened) + 1
    BY <1>1, <2>1, FS_AddElement
  <2> QED
    BY <2>1, <2>2, ViewersCountable, SameCardinality
<1>4. counted' = [counted EXCEPT ![r] = Cardinality(opened) + 1]
  BY <1>1, <1>3
<1>5. V!ViewTypeOK'
  BY <1>0, <1>1, <1>3, <1>4 DEF V!ViewTypeOK
<1>6. \A q \in Opens : /\ opening'[q] = (IF q = r THEN "counted" ELSE opening[q])
                       /\ counted'[q] = (IF q = r THEN Cardinality(opened) + 1 ELSE counted[q])
  BY <1>0, <1>1, <1>4 DEF V!ViewTypeOK
<1>7. Announced' = Announced
  BY <1>1, <1>6 DEF Announced
<1>8. \A q \in Opens : opening'[q] \in {"locked", "counted"} => q = r
  BY <1>0, <1>1, <1>6
<1> QED
  BY <1>0, <1>1, <1>5, <1>6, <1>7, <1>8, ViewQuiet

(* The opening committed last is the only one counted so high.             *)
LEMMA CommitOpeningStep ==
  ASSUME ViewInv, NEW r \in Opens, V!CommitOpening(r)
  PROVE  ViewInv'
<1>0. /\ V!ViewTypeOK
      /\ \A q \in Opens : opening[q] \in {"locked", "counted"} => mediaLock = q /\ viewer[q] \notin opened
      /\ Free \notin Opens
  BY MessagesAssumption DEF ViewInv, ViewFacts
<1>1. /\ opening[r] = "counted" /\ opening' = [opening EXCEPT ![r] = "opened"]
      /\ opened' = opened \cup {viewer[r]} /\ mediaLock' = Free
      /\ UNCHANGED <<available, viewer, counted, granted>>
  BY DEF V!CommitOpening
<1>2. viewer[r] \in Viewers \ opened /\ opened \in SUBSET Viewers /\ counted[r] = Cardinality(opened) + 1
  BY <1>0, <1>1 DEF V!ViewTypeOK, ViewInv, ViewFacts
<1>3. V!ViewTypeOK'
  BY <1>0, <1>1, <1>2 DEF V!ViewTypeOK
<1>4. Cardinality(opened) \in Nat /\ Cardinality(opened') = Cardinality(opened) + 1
  BY <1>1, <1>2, ViewersCountable, FS_AddElement
<1>5. \A q \in Opens : opening'[q] = (IF q = r THEN "opened" ELSE opening[q])
  BY <1>0, <1>1 DEF V!ViewTypeOK
<1>6. Announced' = Announced \cup {<<viewer[r], counted[r]>>}
  BY <1>1, <1>5 DEF Announced
<1>7. \A q \in Opens : opening'[q] \notin {"locked", "counted"}
  BY <1>0, <1>1, <1>5
<1>8. \A g \in Announced : g[1] \in opened /\ g[2] \in Nat \ {0} /\ g[2] <= Cardinality(opened)
  BY DEF ViewInv, ViewFacts
<1>9. \A g \in Announced' : g[1] \in opened' /\ g[2] \in Nat \ {0} /\ g[2] <= Cardinality(opened')
  BY <1>1, <1>2, <1>4, <1>6, <1>8
<1>10. \A g \in Announced : g[1] # viewer[r] /\ g[2] # counted[r]
  BY <1>2, <1>4, <1>8
<1>11. \A g, h \in Announced' : g[1] = h[1] \/ g[2] = h[2] => g = h
  BY <1>6, <1>10 DEF ViewInv, ViewFacts
<1> QED
  BY <1>3, <1>7, <1>9, <1>11 DEF ViewInv, ViewFacts

LEMMA GrantStep ==
  ASSUME ViewInv, NEW r \in Opens, V!Grant(r)
  PROVE  ViewInv'
<1>0. /\ V!ViewTypeOK
      /\ \A q \in Opens : opening[q] \in {"locked", "counted"} => mediaLock = q /\ viewer[q] \notin opened
      /\ \A q \in Opens : opening[q] = "counted" => counted[q] = Cardinality(opened) + 1
  BY DEF ViewInv, ViewFacts
<1>1. /\ opening[r] = "opened" /\ opening' = [opening EXCEPT ![r] = "done"]
      /\ granted' = granted \cup {<<viewer[r], counted[r]>>}
      /\ UNCHANGED <<available, opened, mediaLock, viewer, counted>>
  BY DEF V!Grant
<1>2. <<viewer[r], counted[r]>> \in Announced
  BY <1>1 DEF Announced
<1>3. viewer[r] \in Viewers /\ counted[r] \in 1..V!Cardinality(Viewers)
  <2>1. viewer[r] \in opened /\ counted[r] \in 0..V!Cardinality(Viewers) /\ viewer[r] \in Viewers
    BY <1>0, <1>2 DEF ViewInv, ViewFacts, V!ViewTypeOK
  <2>2. counted[r] # 0
    BY <1>2 DEF ViewInv, ViewFacts
  <2> QED
    BY <2>1, <2>2, ViewersCountable
<1>4. V!ViewTypeOK'
  BY <1>0, <1>1, <1>3 DEF V!ViewTypeOK
<1>5. \A q \in Opens : opening'[q] = (IF q = r THEN "done" ELSE opening[q])
  BY <1>0, <1>1 DEF V!ViewTypeOK
<1>6. Announced' \subseteq Announced
  BY <1>1, <1>2, <1>5 DEF Announced
<1> QED
  BY <1>0, <1>1, <1>4, <1>5, <1>6, ViewQuiet

LEMMA LoseOpeningStep ==
  ASSUME ViewInv, NEW r \in Opens, V!LoseOpening(r)
  PROVE  ViewInv'
<1>0. /\ V!ViewTypeOK
      /\ \A q \in Opens : opening[q] \in {"locked", "counted"} => mediaLock = q /\ viewer[q] \notin opened
      /\ \A q \in Opens : opening[q] = "counted" => counted[q] = Cardinality(opened) + 1
  BY DEF ViewInv, ViewFacts
<1>1. /\ opening' = [opening EXCEPT ![r] = "done"]
      /\ mediaLock' = IF mediaLock = r THEN Free ELSE mediaLock
      /\ UNCHANGED <<available, opened, viewer, counted, granted>>
  BY DEF V!LoseOpening
<1>2. V!ViewTypeOK'
  BY <1>0, <1>1 DEF V!ViewTypeOK
<1>3. \A q \in Opens : opening'[q] = (IF q = r THEN "done" ELSE opening[q])
  BY <1>0, <1>1 DEF V!ViewTypeOK
<1>4. Announced' \subseteq Announced
  BY <1>1, <1>3 DEF Announced
<1> QED
  BY <1>0, <1>1, <1>2, <1>3, <1>4, ViewQuiet

LEMMA ViewStep == ViewInv /\ [V!ViewNext]_viewVars => ViewInv'
<1> SUFFICES ASSUME ViewInv, [V!ViewNext]_viewVars
             PROVE  ViewInv'
  OBVIOUS
<1>1. CASE V!DeleteMedia \/ UNCHANGED viewVars
  <2>1. /\ available' \in {available, FALSE}
        /\ UNCHANGED <<opened, mediaLock, opening, viewer, counted, granted>>
    BY <1>1 DEF V!DeleteMedia, viewVars
  <2>2. Announced' = Announced
    BY <2>1 DEF Announced
  <2>3. V!ViewTypeOK'
    BY <2>1 DEF ViewInv, V!ViewTypeOK
  <2> QED
    BY <2>1, <2>2, <2>3 DEF ViewInv, ViewFacts
<1> QED
  BY <1>1, LockMediaStep, RecordOpeningStep, CommitOpeningStep, GrantStep, LoseOpeningStep DEF V!ViewNext

(* What was announced is a part of what is counted apart.                  *)
LEMMA ViewCounted == ViewInv => OpeningsCounted
  BY DEF ViewInv, ViewFacts, Announced, OpeningsCounted, V!OpeningsCounted

-----------------------------------------------------------------------------
(* Statuses.                                                               *)

(* A status that exists has its media; who shares it keeps it; a sweep     *)
(* that does not know of a committed share has been overtaken.             *)
MediaFacts ==
  /\ S!Exists => media
  /\ story = "none" => attached = {}
  /\ \A r \in Sharing : shareStep[r] = "sharing" => S!Exists
  /\ \A s \in Sweepers : sweepStep[s] = "sweeping" /\ attached # {} => s \in sawShared \/ overtaken

StatusInv ==
  /\ S!StatusTypeOK
  /\ MediaFacts
  /\ SharedMediaKept

LEMMA StatusInitOK == S!StatusInit => StatusInv
<1> SUFFICES ASSUME S!StatusInit
             PROVE  StatusInv
  OBVIOUS
<1>1. S!StatusTypeOK
  BY DEF S!StatusInit, S!StatusTypeOK
<1>2. MediaFacts /\ SharedMediaKept
  BY DEF S!StatusInit, MediaFacts, S!Exists, SharedMediaKept, S!SharedMediaKept
<1> QED
  BY <1>1, <1>2 DEF StatusInv

(* Likes, replies and views concern neither the media nor its shares.      *)
LEMMA AudienceStep ==
  ASSUME StatusInv, NEW v \in Contacts,
         \/ S!ChangeAudience(v) \/ S!ViewStatus(v) \/ S!CheckLike(v) \/ S!SaveLike(v) \/ S!Unlike(v)
         \/ S!BeginReply(v) \/ (\E commits \in BOOLEAN : S!EndReply(v, commits))
  PROVE  StatusInv'
<1>1. UNCHANGED <<story, media, attached, shareStep, sweepStep, sawShared, overtaken>>
  BY DEF S!ChangeAudience, S!ViewStatus, S!CheckLike, S!SaveLike, S!Unlike, S!BeginReply, S!EndReply, S!handling, S!seenBy
<1>2. S!StatusTypeOK
  BY DEF StatusInv
<1>3. /\ allowed' \in SUBSET Contacts /\ views' \in SUBSET Contacts /\ likes' \in SUBSET Contacts
      /\ liked' \in [Contacts -> Nat] /\ answering' \in [Contacts -> {"idle", "liking", "replying"}]
  <2> USE <1>2 DEF S!StatusTypeOK, S!handling, S!seenBy
  <2>1. CASE S!ChangeAudience(v) \/ S!ViewStatus(v) \/ S!Unlike(v)
    BY <2>1 DEF S!ChangeAudience, S!ViewStatus, S!Unlike
  <2>2. CASE S!CheckLike(v) \/ S!BeginReply(v) \/ (\E commits \in BOOLEAN : S!EndReply(v, commits))
    BY <2>2 DEF S!CheckLike, S!BeginReply, S!EndReply
  <2>3. CASE S!SaveLike(v)
    BY <2>3 DEF S!SaveLike
  <2> QED
    BY <2>1, <2>2, <2>3
<1>4. S!StatusTypeOK'
  BY <1>1, <1>2, <1>3 DEF S!StatusTypeOK
<1> QED
  BY <1>1, <1>4 DEF StatusInv, MediaFacts, S!Exists, SharedMediaKept, S!SharedMediaKept

LEMMA StatusBegins ==
  ASSUME StatusInv, S!CreateStatus \/ S!ExpireStatus
  PROVE  StatusInv'
  BY DEF S!CreateStatus, S!ExpireStatus, S!handling, S!seenBy,
         StatusInv, S!StatusTypeOK, MediaFacts, S!Exists, SharedMediaKept, S!SharedMediaKept

LEMMA ShareStep ==
  ASSUME StatusInv, NEW r \in Sharing, S!BeginShare(r) \/ S!EndShare(r, TRUE) \/ S!EndShare(r, FALSE)
  PROVE  StatusInv'
<1> USE DEF S!Exists, SharedMediaKept, S!SharedMediaKept
<1>1. CASE S!BeginShare(r)
  BY <1>1 DEF S!BeginShare, S!seenBy, StatusInv, S!StatusTypeOK, MediaFacts
<1>2. CASE S!EndShare(r, FALSE)
  BY <1>2 DEF S!EndShare, S!seenBy, StatusInv, S!StatusTypeOK, MediaFacts
<1>3. CASE S!EndShare(r, TRUE)
  <2>1. /\ shareStep[r] = "sharing" /\ shareStep' = [shareStep EXCEPT ![r] = "done"]
        /\ attached' = attached \cup {r}
        /\ overtaken' = (overtaken \/ \E s \in Sweepers \ sawShared : sweepStep[s] = "sweeping")
        /\ UNCHANGED <<story, media, allowed, views, likes, liked, answering, sweepStep, sawShared>>
    BY <1>3 DEF S!EndShare, S!seenBy
  <2>2. S!StatusTypeOK'
    BY <2>1 DEF StatusInv, S!StatusTypeOK
  <2>3. story \in {"active", "expired"} /\ media
    BY <2>1 DEF StatusInv, MediaFacts
  <2>4. \A s \in Sweepers : sweepStep'[s] = "sweeping" => s \in sawShared' \/ overtaken'
    BY <2>1
  <2>5. \A q \in Sharing : shareStep'[q] = "sharing" => S!Exists'
    BY <2>1, <2>3
  <2>6. MediaFacts'
    BY <2>1, <2>3, <2>4, <2>5 DEF MediaFacts
  <2> QED
    BY <2>1, <2>2, <2>3, <2>6 DEF StatusInv
<1> QED
  BY <1>1, <1>2, <1>3

(* The row goes only when nobody shares it.                                *)
LEMMA RowGoesStep ==
  ASSUME StatusInv, S!RowGoes, media' \in BOOLEAN, attached # {} => media' \/ overtaken,
         sweepStep' \in [Sweepers -> {"new", "sweeping", "done"}], UNCHANGED sawShared,
         \A s \in Sweepers : sweepStep'[s] = "sweeping" => sweepStep[s] = "sweeping"
  PROVE  StatusInv'
<1>1. /\ story' = "gone" /\ views' = {} /\ likes' = {}
      /\ UNCHANGED <<attached, allowed, liked, answering, shareStep, overtaken>>
      /\ \A r \in Sharing : shareStep[r] # "sharing"
  BY DEF S!RowGoes, S!HeldShared
<1>2. S!StatusTypeOK'
  BY <1>1 DEF StatusInv, S!StatusTypeOK
<1>3. MediaFacts'
  BY <1>1 DEF StatusInv, MediaFacts, S!Exists
<1> QED
  BY <1>1, <1>2, <1>3 DEF StatusInv, SharedMediaKept, S!SharedMediaKept

LEMMA SweepStep ==
  ASSUME StatusInv, NEW s \in Sweepers, S!BeginSweep(s) \/ S!EndSweep(s)
  PROVE  StatusInv'
<1>0. S!StatusTypeOK /\ MediaFacts /\ SharedMediaKept
  BY DEF StatusInv
<1>1. CASE S!BeginSweep(s)
  BY <1>1 DEF S!BeginSweep, S!seenBy, StatusInv, S!StatusTypeOK, MediaFacts, S!Exists, SharedMediaKept, S!SharedMediaKept
<1>2. CASE S!EndSweep(s)
  <2>1. /\ sweepStep[s] = "sweeping" /\ sweepStep' = [sweepStep EXCEPT ![s] = "done"] /\ UNCHANGED sawShared
        /\ \/ S!RowGoes /\ media' = (s \in sawShared)
           \/ UNCHANGED <<story, media, attached, allowed, views, likes, liked, answering, shareStep, overtaken>>
    BY <1>2 DEF S!EndSweep, S!seenBy
  <2>2. /\ sweepStep' \in [Sweepers -> {"new", "sweeping", "done"}]
        /\ \A t \in Sweepers : sweepStep'[t] = "sweeping" => sweepStep[t] = "sweeping"
    BY <1>0, <2>1 DEF S!StatusTypeOK
  <2>3. CASE S!RowGoes /\ media' = (s \in sawShared)
    <3>1. media' \in BOOLEAN
      BY <2>3
    <3>2. attached # {} => s \in sawShared \/ overtaken
      BY <1>0, <2>1 DEF MediaFacts
    <3>3. attached # {} => media' \/ overtaken
      BY <2>3, <3>2
    <3> QED
      BY <2>1, <2>2, <2>3, <3>1, <3>3, RowGoesStep
  <2>4. CASE UNCHANGED <<story, media, attached, allowed, views, likes, liked, answering, shareStep, overtaken>>
    BY <1>0, <2>1, <2>2, <2>4 DEF StatusInv, S!StatusTypeOK, MediaFacts, S!Exists, SharedMediaKept, S!SharedMediaKept
  <2> QED
    BY <2>1, <2>3, <2>4
<1> QED
  BY <1>1, <1>2

LEMMA StoryStep == StatusInv /\ [S!StatusNext]_statusVars => StatusInv'
<1> SUFFICES ASSUME StatusInv, [S!StatusNext]_statusVars
             PROVE  StatusInv'
  OBVIOUS
<1>1. CASE S!DeleteStatus
  <2>1. S!RowGoes /\ media' = (attached # {}) /\ UNCHANGED <<sweepStep, sawShared>>
    BY <1>1 DEF S!DeleteStatus
  <2>2. sweepStep' \in [Sweepers -> {"new", "sweeping", "done"}] /\ media' \in BOOLEAN
    BY <2>1 DEF StatusInv, S!StatusTypeOK
  <2> QED
    BY <2>1, <2>2, RowGoesStep
<1>2. CASE UNCHANGED statusVars
  BY <1>2 DEF statusVars, StatusInv, S!StatusTypeOK, MediaFacts, S!Exists, SharedMediaKept, S!SharedMediaKept
<1> QED
  BY <1>1, <1>2, AudienceStep, StatusBegins, ShareStep, SweepStep DEF S!StatusNext

-----------------------------------------------------------------------------
(* Communities.                                                            *)

(* A request holds the memberships by which its actor is an admin.         *)
HoldsRole(r, c) ==
  roleHolder[<<wants[r].by, c>>] = r /\ role[<<wants[r].by, c>>] = "admin"

CommunityInv ==
  /\ C!CommunityTypeOK
  /\ \A r \in Linking :
       /\ wants[r].what \in {"add", "remove"} => HoldsRole(r, Community)
       /\ wants[r].what = "add" => HoldsRole(r, wants[r].group)

LEMMA NothingWanted ==
  C!Nothing \in [what : {"nothing", "add", "remove", "update"}, by : Admins, group : Groups] /\ C!Nothing.what = "nothing"
<1>1. (CHOOSE u \in Admins : TRUE) \in Admins /\ (CHOOSE g \in Groups : TRUE) \in Groups
  BY MessagesAssumption
<1> QED
  BY <1>1 DEF C!Nothing

LEMMA CommunityInitOK == C!CommunityInit => CommunityInv
<1> SUFFICES ASSUME C!CommunityInit
             PROVE  CommunityInv
  OBVIOUS
<1>1. C!CommunityTypeOK
  BY NothingWanted DEF C!CommunityInit, C!CommunityTypeOK
<1>2. \A r \in Linking : wants[r].what = "nothing"
  BY NothingWanted DEF C!CommunityInit
<1> QED
  BY <1>1, <1>2 DEF CommunityInv

(* What a request holds is released by itself alone.                       *)
LEMMA UnlockStep ==
  ASSUME CommunityInv, NEW r \in Linking, C!Unlock(r), UNCHANGED role,
         linked' \in SUBSET Groups, named' \in Nat, recorded' \in Nat
  PROVE  CommunityInv'
<1>0. C!CommunityTypeOK
  BY DEF CommunityInv
<1>1. /\ convHolder' = [c \in C!Conversations |-> IF convHolder[c] = r THEN Unheld ELSE convHolder[c]]
      /\ roleHolder' = [p \in Admins \X C!Conversations |-> IF roleHolder[p] = r THEN Unheld ELSE roleHolder[p]]
      /\ wants' = [wants EXCEPT ![r] = C!Nothing]
  BY DEF C!Unlock
<1>2. C!CommunityTypeOK'
  BY <1>0, <1>1, NothingWanted DEF C!CommunityTypeOK
<1>3. ASSUME NEW q \in Linking, NEW c \in C!Conversations, wants'[q].what # "nothing", HoldsRole(q, c)
      PROVE  HoldsRole(q, c)'
  <2>1. q # r /\ wants'[q] = wants[q] /\ <<wants[q].by, c>> \in Admins \X C!Conversations
    BY <1>0, <1>1, <1>3, NothingWanted DEF C!CommunityTypeOK
  <2> QED
    BY <1>1, <1>3, <2>1 DEF HoldsRole
<1>4. ASSUME NEW q \in Linking, wants'[q].what # "nothing"
      PROVE  wants'[q] = wants[q] /\ Community \in C!Conversations /\ wants[q].group \in C!Conversations
  BY <1>0, <1>1, <1>4, NothingWanted DEF C!CommunityTypeOK, C!Conversations
<1>5. \A q \in Linking :
        /\ wants'[q].what \in {"add", "remove"} => HoldsRole(q, Community)'
        /\ wants'[q].what = "add" => HoldsRole(q, wants[q].group)'
  BY <1>3, <1>4 DEF CommunityInv
<1> QED
  BY <1>2, <1>4, <1>5 DEF CommunityInv, HoldsRole

(* A request locks memberships that nobody holds.                          *)
LEMMA LockStep ==
  ASSUME CommunityInv, NEW r \in Linking, NEW u \in Admins, NEW g \in Groups, NEW S0, NEW C0 \in SUBSET C!Conversations,
         NEW what \in {"add", "remove", "update"}, C!Lock(r, what, u, g, S0, C0),
         what \in {"add", "remove"} => Community \in C0,
         what = "add" => g \in C0
  PROVE  CommunityInv'
<1>0. C!CommunityTypeOK /\ Unheld \notin Linking
  BY MessagesAssumption DEF CommunityInv
<1> DEFINE w == [what |-> what, by |-> u, group |-> g]
<1>1. /\ \A c \in C0 : roleHolder[<<u, c>>] = Unheld /\ role[<<u, c>>] = "admin"
      /\ convHolder' = [c \in C!Conversations |-> IF c \in S0 THEN r ELSE convHolder[c]]
      /\ roleHolder' = [p \in Admins \X C!Conversations |-> IF p[1] = u /\ p[2] \in C0 THEN r ELSE roleHolder[p]]
      /\ wants' = [wants EXCEPT ![r] = w]
      /\ wants[r] = C!Nothing
      /\ UNCHANGED <<role, linked, named, recorded>>
  BY DEF C!Lock, C!MayAct
<1>2. C!CommunityTypeOK'
  BY <1>0, <1>1 DEF C!CommunityTypeOK
<1>3. wants'[r] = w /\ \A q \in Linking \ {r} : wants'[q] = wants[q]
  BY <1>0, <1>1 DEF C!CommunityTypeOK
<1>4. ASSUME NEW c \in C0
      PROVE  HoldsRole(r, c)'
  BY <1>1, <1>3 DEF HoldsRole
<1>5. ASSUME NEW q \in Linking \ {r}, NEW c \in C!Conversations, HoldsRole(q, c)
      PROVE  HoldsRole(q, c)'
  <2>1. wants[q].by \in Admins
    BY <1>0 DEF C!CommunityTypeOK
  <2>2. ~(wants[q].by = u /\ c \in C0)
    BY <1>0, <1>1, <1>5 DEF HoldsRole
  <2> QED
    BY <1>1, <1>3, <1>5, <2>1, <2>2 DEF HoldsRole
<1>6. \A q \in Linking : Community \in C!Conversations /\ wants[q].group \in C!Conversations
  BY <1>0 DEF C!CommunityTypeOK, C!Conversations
<1>7. \A q \in Linking \ {r} :
        /\ wants'[q].what \in {"add", "remove"} => HoldsRole(q, Community)'
        /\ wants'[q].what = "add" => HoldsRole(q, wants[q].group)'
  BY <1>3, <1>5, <1>6 DEF CommunityInv
<1>8. /\ wants'[r].what \in {"add", "remove"} => HoldsRole(r, Community)'
      /\ wants'[r].what = "add" => HoldsRole(r, g)'
      /\ wants'[r].group = g
  BY <1>3, <1>4
<1>9. ASSUME NEW q \in Linking
      PROVE  /\ wants'[q].what \in {"add", "remove"} => HoldsRole(q, Community)'
             /\ wants'[q].what = "add" => roleHolder'[<<wants'[q].by, wants'[q].group>>] = q /\ role'[<<wants'[q].by, wants'[q].group>>] = "admin"
  BY <1>3, <1>7, <1>8 DEF HoldsRole
<1> QED
  BY <1>2, <1>9 DEF CommunityInv, HoldsRole

LEMMA ChangeRoleStep ==
  ASSUME CommunityInv, NEW u \in Admins, NEW c \in C!Conversations, C!ChangeRole(u, c)
  PROVE  CommunityInv'
<1>0. C!CommunityTypeOK /\ Unheld \notin Linking
  BY MessagesAssumption DEF CommunityInv
<1>1. /\ roleHolder[<<u, c>>] = Unheld
      /\ role' = [role EXCEPT ![<<u, c>>] = IF @ = "admin" THEN "member" ELSE "admin"]
      /\ UNCHANGED <<linked, named, recorded, convHolder, roleHolder, wants>>
  BY DEF C!ChangeRole
<1>2. C!CommunityTypeOK'
  BY <1>0, <1>1 DEF C!CommunityTypeOK
<1>3. ASSUME NEW q \in Linking, NEW d \in C!Conversations, HoldsRole(q, d)
      PROVE  HoldsRole(q, d)'
  <2>1. <<wants[q].by, d>> # <<u, c>> /\ <<wants[q].by, d>> \in Admins \X C!Conversations
    BY <1>0, <1>1, <1>3 DEF C!CommunityTypeOK, HoldsRole
  <2>2. role'[<<wants[q].by, d>>] = role[<<wants[q].by, d>>]
    BY <1>0, <1>1, <2>1 DEF C!CommunityTypeOK
  <2> QED
    BY <1>1, <1>3, <2>2 DEF HoldsRole
<1>4. \A q \in Linking : Community \in C!Conversations /\ wants[q].group \in C!Conversations
  BY <1>0 DEF C!CommunityTypeOK, C!Conversations
<1>5. ASSUME NEW q \in Linking
      PROVE  /\ wants[q].what \in {"add", "remove"} => HoldsRole(q, Community)'
             /\ wants[q].what = "add" => roleHolder'[<<wants'[q].by, wants[q].group>>] = q /\ role'[<<wants'[q].by, wants[q].group>>] = "admin"
  <2>1. wants[q].what = "add" => HoldsRole(q, wants[q].group)
    BY DEF CommunityInv
  <2>2. ASSUME NEW d \in C!Conversations, HoldsRole(q, d)
        PROVE  roleHolder'[<<wants'[q].by, d>>] = q /\ role'[<<wants'[q].by, d>>] = "admin"
    BY <1>3, <2>2 DEF HoldsRole
  <2> QED
    BY <1>3, <1>4, <2>1, <2>2 DEF CommunityInv
<1> QED
  BY <1>1, <1>2, <1>5 DEF CommunityInv, HoldsRole

LEMMA CommunityStep == CommunityInv /\ [C!CommunityNext]_communityVars => CommunityInv'
<1> SUFFICES ASSUME CommunityInv, [C!CommunityNext]_communityVars
             PROVE  CommunityInv'
  OBVIOUS
<1>0. /\ linked \in SUBSET Groups /\ named \in Nat /\ recorded \in Nat
      /\ \A r \in Linking : wants[r].group \in Groups
      /\ C!Nothing.group \in Groups
  BY NothingWanted DEF CommunityInv, C!CommunityTypeOK
<1>1. ASSUME NEW r \in Linking, NEW u \in Admins,
             C!LockToUpdate(r, u) \/ \E g \in Groups : C!LockToAdd(r, u, g) \/ C!LockToRemove(r, u, g)
      PROVE  CommunityInv'
  <2>1. CASE C!LockToUpdate(r, u)
    BY <1>0, <2>1, LockStep DEF C!LockToUpdate, C!Conversations
  <2>2. ASSUME NEW g \in Groups, C!LockToAdd(r, u, g)
        PROVE  CommunityInv'
    <3>1. {Community, g} \in SUBSET C!Conversations
      BY DEF C!Conversations
    <3> QED
      BY <2>2, <3>1, LockStep DEF C!LockToAdd
  <2>3. ASSUME NEW g \in Groups, C!LockToRemove(r, u, g)
        PROVE  CommunityInv'
    <3>1. {Community} \in SUBSET C!Conversations
      BY DEF C!Conversations
    <3> QED
      BY <2>3, <3>1, LockStep DEF C!LockToRemove
  <2> QED
    BY <1>1, <2>1, <2>2, <2>3
<1>2. ASSUME NEW r \in Linking, C!AddGroup(r) \/ C!RemoveGroup(r) \/ C!UpdateCommunity(r) \/ C!GiveUp(r)
      PROVE  CommunityInv'
  <2>1. /\ C!Unlock(r) /\ UNCHANGED role
        /\ linked' \in SUBSET Groups /\ named' \in Nat /\ recorded' \in Nat
    BY <1>0, <1>2 DEF C!AddGroup, C!RemoveGroup, C!UpdateCommunity, C!GiveUp
  <2> QED
    BY <2>1, UnlockStep
<1>3. CASE UNCHANGED communityVars
  BY <1>3 DEF communityVars, CommunityInv, C!CommunityTypeOK, HoldsRole
<1> QED
  BY <1>1, <1>2, <1>3, ChangeRoleStep DEF C!CommunityNext

(* Who holds the memberships is an admin when the change commits.          *)
LEMMA LinkedByAdminStep ==
  ASSUME CommunityInv, NEW r \in Linking
  PROVE  /\ C!AddGroup(r)    => C!MayAct(wants[r].by, {Community, wants[r].group})
         /\ C!RemoveGroup(r) => C!MayAct(wants[r].by, {Community})
  BY DEF CommunityInv, HoldsRole, C!AddGroup, C!RemoveGroup, C!MayAct

-----------------------------------------------------------------------------
(* Forwarding.                                                             *)

(* What the properties need to be inductive: connections are conserved, and *)
(* only who is in a transaction holds a chat.                               *)
ForwardFacts ==
  /\ idle \in Nat /\ idle + Cardinality(F!Using) = Connections
  /\ forwarding \in [Transactions -> F!Steps]
  /\ todo \in [Transactions -> Seq(Destinations)]
  /\ chatLock \in [Destinations -> Transactions \cup {Free}]
  /\ \A c \in Destinations : chatLock[c] \in F!Using \cup {Free}
  /\ \A r \in Transactions : forwarding[r] \in {"asking", "writing"} => todo[r] # <<>>

LEMMA UsingFinite ==
  /\ IsFiniteSet(F!Using) /\ IsFiniteSet(F!Asking)
  /\ Cardinality(F!Using) \in Nat /\ Cardinality(F!Asking) \in Nat
<1>1. F!Using \subseteq Transactions /\ F!Asking \subseteq Transactions
  BY DEF F!Using, F!Asking
<1> QED
  BY <1>1, MessagesAssumption, FS_Subset, FS_CardinalityType

(* How many connections are in use after a transaction begins or ends.     *)
LEMMA UsingChanges ==
  ASSUME ForwardFacts, NEW r \in Transactions, NEW step \in F!Steps \ {"new"}, F!Becomes(r, step)
  PROVE  /\ forwarding' = [forwarding EXCEPT ![r] = step] /\ forwarding' \in [Transactions -> F!Steps]
         /\ F!Using' = IF step = "done" THEN F!Using \ {r} ELSE F!Using \cup {r}
         /\ r \notin F!Using /\ step # "done" => Cardinality(F!Using') = Cardinality(F!Using) + 1
         /\ r \in F!Using /\ step = "done" => Cardinality(F!Using') = Cardinality(F!Using) - 1
<1>1. forwarding' = [forwarding EXCEPT ![r] = step] /\ forwarding \in [Transactions -> F!Steps]
  BY DEF F!Becomes, ForwardFacts
<1>2. forwarding' \in [Transactions -> F!Steps]
  BY <1>1
<1>3. F!Using' = IF step = "done" THEN F!Using \ {r} ELSE F!Using \cup {r}
  BY <1>1 DEF F!Using, F!Steps
<1> QED
  BY <1>1, <1>2, <1>3, UsingFinite, FS_AddElement, FS_RemoveElement

LEMMA ForwardInitOK == F!ForwardInit => ForwardFacts
<1> SUFFICES ASSUME F!ForwardInit
             PROVE  ForwardFacts
  OBVIOUS
<1>1. F!Using = {}
  BY DEF F!ForwardInit, F!Using
<1>2. idle \in Nat /\ idle + Cardinality(F!Using) = Connections
  BY <1>1, FS_EmptySet, MessagesAssumption DEF F!ForwardInit
<1>3. \A s \in F!Lists : s \in Seq(Destinations)
  <2> SUFFICES ASSUME NEW n \in 0..MaxChats, NEW s \in [1..n -> Destinations]
               PROVE  s \in Seq(Destinations)
    BY DEF F!Lists
  <2>1. n \in Nat
    OBVIOUS
  <2> QED
    BY <2>1
<1>4. todo \in [Transactions -> Seq(Destinations)]
  BY <1>3 DEF F!ForwardInit
<1> QED
  BY <1>2, <1>4 DEF F!ForwardInit, ForwardFacts, F!Steps

(* A transaction that ends returns its connection and its chats.           *)
LEMMA EndStep ==
  ASSUME ForwardFacts, NEW r \in F!Using, F!EndForward(r)
  PROVE  ForwardFacts'
<1>1. /\ F!Becomes(r, "done") /\ UNCHANGED todo /\ idle' = idle + 1
      /\ chatLock' = [c \in Destinations |-> IF chatLock[c] = r THEN Free ELSE chatLock[c]]
  BY DEF F!EndForward, F!Release
<1>2. r \in Transactions /\ "done" \in F!Steps \ {"new"}
  BY DEF F!Using, F!Steps
<1>3. /\ forwarding' = [forwarding EXCEPT ![r] = "done"] /\ forwarding' \in [Transactions -> F!Steps]
      /\ F!Using' = F!Using \ {r} /\ Cardinality(F!Using') = Cardinality(F!Using) - 1
  BY <1>1, <1>2, UsingChanges
<1>4. idle' \in Nat /\ idle' + Cardinality(F!Using') = Connections
  BY <1>1, <1>3, UsingFinite DEF ForwardFacts
<1>5. /\ chatLock' \in [Destinations -> Transactions \cup {Free}]
      /\ \A c \in Destinations : chatLock'[c] \in F!Using' \cup {Free}
  BY <1>1, <1>3 DEF ForwardFacts
<1>6. \A q \in Transactions : forwarding'[q] \in {"asking", "writing"} => todo'[q] # <<>>
  BY <1>1, <1>2, <1>3 DEF ForwardFacts
<1> QED
  BY <1>1, <1>3, <1>4, <1>5, <1>6 DEF ForwardFacts

(* A step within a transaction, which keeps its connection.                *)
LEMMA InsideStep ==
  ASSUME ForwardFacts, NEW r \in F!Using, NEW step \in {"admitting", "asking", "writing"}, F!Becomes(r, step),
         UNCHANGED idle, todo' \in [Transactions -> Seq(Destinations)],
         step # "admitting" => todo'[r] # <<>>, \A q \in Transactions \ {r} : todo'[q] = todo[q],
         chatLock' \in [Destinations -> Transactions \cup {Free}],
         \A c \in Destinations : chatLock'[c] \in {chatLock[c], r}
  PROVE  ForwardFacts'
<1>1. r \in Transactions /\ step \in F!Steps \ {"new"} /\ step # "done"
  BY DEF F!Using, F!Steps
<1>2. /\ forwarding' = [forwarding EXCEPT ![r] = step] /\ forwarding' \in [Transactions -> F!Steps]
      /\ F!Using' = F!Using \cup {r}
  BY <1>1, UsingChanges
<1>3. F!Using' = F!Using
  BY <1>2
<1>4. \A c \in Destinations : chatLock'[c] \in F!Using' \cup {Free}
  BY <1>3 DEF ForwardFacts
<1>5. \A q \in Transactions : forwarding'[q] \in {"asking", "writing"} => todo'[q] # <<>>
  BY <1>1, <1>2 DEF ForwardFacts
<1> QED
  BY <1>2, <1>3, <1>4, <1>5 DEF ForwardFacts

LEMMA ForwardStepOK ==
  ASSUME ForwardFacts, [F!ForwardNext]_forwardVars
  PROVE  ForwardFacts'
<1>1. ASSUME NEW r \in Transactions, F!BeginForward(r)
      PROVE  ForwardFacts'
  <2>1. /\ forwarding[r] = "new" /\ idle > 0 /\ idle' = idle - 1 /\ F!Becomes(r, "admitting")
        /\ UNCHANGED <<todo, chatLock>>
    BY <1>1 DEF F!BeginForward
  <2>2. r \notin F!Using /\ "admitting" \in F!Steps \ {"new"}
    BY <2>1 DEF F!Using, F!Steps
  <2>3. /\ forwarding' = [forwarding EXCEPT ![r] = "admitting"] /\ forwarding' \in [Transactions -> F!Steps]
        /\ F!Using' = F!Using \cup {r} /\ Cardinality(F!Using') = Cardinality(F!Using) + 1
    BY <2>1, <2>2, UsingChanges
  <2>4. idle' \in Nat /\ idle' + Cardinality(F!Using') = Connections
    BY <2>1, <2>3, UsingFinite DEF ForwardFacts
  <2>5. \A c \in Destinations : chatLock'[c] \in F!Using' \cup {Free}
    BY <2>1, <2>3 DEF ForwardFacts
  <2>6. \A q \in Transactions : forwarding'[q] \in {"asking", "writing"} => todo'[q] # <<>>
    BY <2>1, <2>3 DEF ForwardFacts
  <2> QED
    BY <2>1, <2>3, <2>4, <2>5, <2>6 DEF ForwardFacts
<1>2. ASSUME NEW r \in Transactions, F!Admit(r)
      PROVE  ForwardFacts'
  <2>1. /\ forwarding[r] = "admitting" /\ todo[r] # <<>> /\ UNCHANGED <<idle, todo, chatLock>>
        /\ F!Becomes(r, "asking") \/ F!Becomes(r, "writing")
    BY <1>2 DEF F!Admit
  <2>2. r \in F!Using
    BY <2>1 DEF F!Using
  <2>3. /\ todo' \in [Transactions -> Seq(Destinations)] /\ todo' = todo
        /\ chatLock' \in [Destinations -> Transactions \cup {Free}] /\ chatLock' = chatLock /\ idle' = idle
    BY <2>1 DEF ForwardFacts
  <2> QED
    BY <2>1, <2>2, <2>3, InsideStep
<1>3. ASSUME NEW r \in Transactions, F!CheckChat(r)
      PROVE  ForwardFacts'
  <2>1. /\ forwarding[r] = "asking" /\ F!Becomes(r, "writing") /\ UNCHANGED <<idle, todo, chatLock>>
    BY <1>3 DEF F!CheckChat
  <2>2. r \in F!Using
    BY <2>1 DEF F!Using
  <2>3. todo[r] # <<>>
    BY <2>1 DEF ForwardFacts
  <2> QED
    BY <2>1, <2>2, <2>3, InsideStep DEF ForwardFacts
<1>4. ASSUME NEW r \in Transactions, F!WriteCopy(r)
      PROVE  ForwardFacts'
  <2>1. /\ forwarding[r] = "writing" /\ F!Becomes(r, "admitting") /\ UNCHANGED idle
        /\ chatLock' = [chatLock EXCEPT ![Head(todo[r])] = r] /\ todo' = [todo EXCEPT ![r] = Tail(@)]
    BY <1>4 DEF F!WriteCopy
  <2>2. r \in F!Using
    BY <2>1 DEF F!Using
  <2>3. todo[r] \in Seq(Destinations) /\ todo[r] # <<>>
    BY <2>1 DEF ForwardFacts
  <2>4. Head(todo[r]) \in Destinations /\ Tail(todo[r]) \in Seq(Destinations)
    BY <2>3
  <2>5. todo' \in [Transactions -> Seq(Destinations)] /\ \A q \in Transactions \ {r} : todo'[q] = todo[q]
    BY <2>1, <2>4 DEF ForwardFacts
  <2>6. /\ chatLock' \in [Destinations -> Transactions \cup {Free}]
        /\ \A c \in Destinations : chatLock'[c] \in {chatLock[c], r}
    BY <2>1, <2>4 DEF ForwardFacts
  <2> QED
    BY <2>1, <2>2, <2>5, <2>6, InsideStep
<1>5. ASSUME NEW r \in Transactions, F!SkipChat(r)
      PROVE  ForwardFacts'
  <2>1. /\ forwarding[r] = "admitting" /\ todo[r] # <<>> /\ todo' = [todo EXCEPT ![r] = Tail(@)]
        /\ UNCHANGED <<idle, forwarding, chatLock>>
    BY <1>5 DEF F!SkipChat
  <2>2. Tail(todo[r]) \in Seq(Destinations)
    BY <2>1 DEF ForwardFacts
  <2>3. todo' \in [Transactions -> Seq(Destinations)] /\ \A q \in Transactions \ {r} : todo'[q] = todo[q]
    BY <2>1, <2>2 DEF ForwardFacts
  <2>4. F!Using' = F!Using
    BY <2>1 DEF F!Using
  <2>5. \A q \in Transactions : forwarding'[q] \in {"asking", "writing"} => todo'[q] # <<>>
    BY <2>1, <2>3 DEF ForwardFacts
  <2> QED
    BY <2>1, <2>3, <2>4, <2>5 DEF ForwardFacts
<1>6. ASSUME NEW r \in Transactions, F!CommitForward(r) \/ F!RefuseForward(r) \/ F!BreakDeadlock(r)
      PROVE  ForwardFacts'
  <2>1. F!EndForward(r) /\ r \in F!Using
    BY <1>6 DEF F!CommitForward, F!RefuseForward, F!BreakDeadlock, F!Deadlocked, F!WaitsIn, F!Using
  <2> QED
    BY <2>1, EndStep
<1>7. ASSUME NEW r \in Transactions, F!GiveUpForward(r)
      PROVE  ForwardFacts'
  <2>1. forwarding[r] = "new" /\ F!Becomes(r, "done") /\ UNCHANGED <<idle, todo, chatLock>>
    BY <1>7 DEF F!GiveUpForward
  <2>2. r \notin F!Using /\ "done" \in F!Steps \ {"new"}
    BY <2>1 DEF F!Using, F!Steps
  <2>3. /\ forwarding' = [forwarding EXCEPT ![r] = "done"] /\ forwarding' \in [Transactions -> F!Steps]
        /\ F!Using' = F!Using
    BY <2>1, <2>2, UsingChanges
  <2>4. \A q \in Transactions : forwarding'[q] \in {"asking", "writing"} => todo'[q] # <<>>
    BY <2>1, <2>3 DEF ForwardFacts
  <2> QED
    BY <2>1, <2>3, <2>4 DEF ForwardFacts
<1>8. CASE UNCHANGED forwardVars
  BY <1>8 DEF forwardVars, ForwardFacts, F!Using
<1> QED
  BY <1>1, <1>2, <1>3, <1>4, <1>5, <1>6, <1>7, <1>8 DEF F!ForwardNext, F!ForwardStep

-----------------------------------------------------------------------------
(* The components together.                                                *)

MessagesInv ==
  /\ EditInv
  /\ PollInv
  /\ ViewInv
  /\ StatusInv
  /\ CommunityInv
  /\ ForwardFacts

(* A step of one component is a step of that component, and none of any    *)
(* other.                                                                  *)
LEMMA OnePartSteps ==
  [MessagesNext]_messageVars =>
    /\ [Next]_vars
    /\ [E!EditNext]_editVars
    /\ [P!PollNext]_pollVars
    /\ [V!ViewNext]_viewVars
    /\ [S!StatusNext]_statusVars
    /\ [C!CommunityNext]_communityVars
    /\ [F!ForwardNext]_forwardVars
  BY DEF MessagesNext, messageVars

(* The handlers of messages, polls, view-once media, statuses, communities *)
(* and forwards keep their invariants, for any number of requests.         *)
THEOREM MessagesInductive == MessagesSpec => []MessagesInv
<1>1. MessagesInit => MessagesInv
  BY EditInitOK, PollInitOK, ViewInitOK, StatusInitOK, CommunityInitOK, ForwardInitOK DEF MessagesInit, MessagesInv
<1>2. MessagesInv /\ [MessagesNext]_messageVars => MessagesInv'
  BY OnePartSteps, EditStep, PollStep, ViewStep, StoryStep, CommunityStep, ForwardStepOK DEF MessagesInv
<1> QED
  BY <1>1, <1>2, PTL DEF MessagesSpec

(* What is proved of Delivery holds of it beside the others.               *)
LEMMA DeliveryBeside == MessagesSpec => Spec
<1>1. MessagesInit => Init
  BY DEF MessagesInit
<1> QED
  BY <1>1, OnePartSteps, PTL DEF MessagesSpec, Spec

(* The tables and requests of Delivery, MessageEdits, Polls, ViewOnce,     *)
(* Statuses, Communities and Forwarding are well typed.                    *)
THEOREM MessagesTypes == MessagesSpec => []MessagesTypeOK
<1>1. PollInv => P!PollTypeOK
  BY DEF PollInv, PollTypes, BallotRecords, P!PollTypeOK
<1>2. ForwardFacts => F!ForwardTypeOK
  <2> SUFFICES ASSUME ForwardFacts
               PROVE  idle \in 0..Connections
    BY DEF ForwardFacts, F!ForwardTypeOK
  <2> QED
    BY UsingFinite, MessagesAssumption DEF ForwardFacts
<1>3. TypeOK /\ MessagesInv => MessagesTypeOK
  BY <1>1, <1>2 DEF MessagesInv, MessagesTypeOK, EditInv, ViewInv, StatusInv, CommunityInv
<1> QED
  BY <1>3, MessagesInductive, DeliveryBeside, DeliveryTypes, PTL

(* pinMessage never pins more undeleted messages than the maximum, however *)
(* its requests overlap each other and deletions.                          *)
THEOREM PinsBounded == MessagesSpec => []PinsLimited
<1>1. MessagesInv => PinsLimited
  BY DEF MessagesInv, EditInv
<1> QED
  BY <1>1, MessagesInductive, PTL

(* editMessage never brings back the text of a deleted message.            *)
THEOREM DeletedForGood == MessagesSpec => []DeletedIsEmpty
<1>1. MessagesInv => DeletedIsEmpty
  BY DEF MessagesInv, EditInv
<1> QED
  BY <1>1, MessagesInductive, PTL

(* setPollVotes leaves each user one option in a poll of a single choice.  *)
THEOREM SingleChoice == MessagesSpec => []OneChoice
<1>1. MessagesInv => OneChoice
  BY DEF MessagesInv, PollInv
<1> QED
  BY <1>1, MessagesInductive, PTL

(* What loadPollSnapshot shows of a closed poll is its final result.       *)
THEOREM FinalResult == MessagesSpec => []ClosedIsFinal
<1>1. MessagesInv => ClosedIsFinal
  BY DEF MessagesInv, PollInv
<1> QED
  BY <1>1, MessagesInductive, PTL

(* openViewOnceMedia gives each viewer one link and counts openings apart. *)
THEOREM OpenedOnce == MessagesSpec => []OpeningsCounted
<1>1. MessagesInv => OpeningsCounted
  BY ViewCounted DEF MessagesInv
<1> QED
  BY <1>1, MessagesInductive, PTL

(* deleteStatus and the sweep keep the media of shared statuses, unless a  *)
(* share overtakes a sweep that waits.                                     *)
THEOREM MediaKept == MessagesSpec => []SharedMediaKept
<1>1. MessagesInv => SharedMediaKept
  BY DEF MessagesInv, StatusInv
<1> QED
  BY <1>1, MessagesInductive, PTL

(* Groups are linked and unlinked by who is an admin when it commits.      *)
THEOREM AdminsLink == MessagesSpec => LinkedByAdmin
<1>1. MessagesInv => [\A r \in Linking :
                        /\ C!AddGroup(r)    => C!MayAct(wants[r].by, {Community, wants[r].group})
                        /\ C!RemoveGroup(r) => C!MayAct(wants[r].by, {Community})]_linked
  BY LinkedByAdminStep DEF MessagesInv
<1> QED
  BY <1>1, MessagesInductive, PTL DEF LinkedByAdmin, C!LinkedByAdmin

(* Transactions are stuck only when they hold every connection and one of  *)
(* them asks for another: otherwise one that may begin, ask or write is     *)
(* left, or all those in progress wait for chats that others of them hold,  *)
(* which PostgreSQL ends.                                                   *)
THEOREM OnlyPoolStops == MessagesSpec => []OnlyPoolBlocks
<1>1. ForwardFacts => OnlyPoolBlocks
  <2> SUFFICES ASSUME ForwardFacts, F!Stuck
               PROVE  Cardinality(F!Using) = Connections /\ F!Asking # {}
    BY SameCardinality DEF OnlyPoolBlocks, F!OnlyPoolBlocks
  <2>1. \A r \in Transactions : ~F!MayGo(r)
    BY DEF F!Stuck
  <2>2. PICK r \in Transactions : forwarding[r] # "done"
    BY DEF F!Stuck
  \* One that neither asks nor writes may go on.
  <2>3. \A q \in F!Using \ F!Asking : forwarding[q] = "writing" /\ ~F!HasChat(q) /\ ~F!Deadlocked(q)
    BY <2>1 DEF F!Using, F!Asking, F!MayGo
  \* It waits for a chat of another, so that they cannot all do so.
  <2>4. \A q \in F!Using \ F!Asking : F!WaitsIn(q, F!Using)
    <3> SUFFICES ASSUME NEW q \in F!Using \ F!Asking
                 PROVE  chatLock[Head(todo[q])] \in F!Using \ {q}
      BY <2>3 DEF F!WaitsIn
    <3>1. q \in Transactions /\ forwarding[q] = "writing"
      BY <2>3 DEF F!Using
    <3>2. todo[q] \in Seq(Destinations) /\ todo[q] # <<>>
      BY <3>1 DEF ForwardFacts
    <3>3. Head(todo[q]) \in Destinations
      BY <3>2
    <3>4. chatLock[Head(todo[q])] \notin {Free, q}
      BY <2>3 DEF F!HasChat
    <3> QED
      BY <3>3, <3>4 DEF ForwardFacts
  <2>5. F!Using # {} => F!Asking # {}
    <3> SUFFICES ASSUME F!Asking = {}, NEW q \in F!Using
                 PROVE  FALSE
      OBVIOUS
    <3>1. F!Using \in SUBSET Transactions /\ \A p \in F!Using : F!WaitsIn(p, F!Using)
      BY <2>4 DEF F!Using
    <3>2. F!Deadlocked(q)
      BY <3>1 DEF F!Deadlocked
    <3> QED
      BY <2>3, <3>2
  <2>6. idle = 0
    <3> SUFFICES ASSUME idle # 0
                 PROVE  FALSE
      OBVIOUS
    <3>1. idle > 0
      BY DEF ForwardFacts
    <3>2. forwarding[r] # "new" /\ F!Asking = {}
      BY <2>1, <3>1 DEF F!MayGo, F!Asking
    <3>3. r \in F!Using
      BY <2>2, <3>2 DEF ForwardFacts, F!Steps, F!Using
    <3> QED
      BY <2>5, <3>2, <3>3
  <2>7. Cardinality(F!Using) = Connections
    BY <2>6, UsingFinite DEF ForwardFacts
  <2>8. F!Using # {}
    BY <2>7, FS_EmptySet, MessagesAssumption
  <2> QED
    BY <2>5, <2>7, <2>8
<1>2. MessagesInv => OnlyPoolBlocks
  BY <1>1 DEF MessagesInv
<1> QED
  BY <1>2, MessagesInductive, PTL

(* usersBlocked and isConversationPeerOnline wait without a limit: once as  *)
(* many transactions ask for a connection as the pool has, none of them     *)
(* ever moves again, whatever others and their clients do.                  *)
THEOREM PoolStaysTaken ==
  MessagesSpec => [][Cardinality(F!Asking) = Connections => F!Asking' = F!Asking /\ UNCHANGED <<idle, todo, chatLock>>]_forwardVars
<1>1. ASSUME ForwardFacts, [F!ForwardNext]_forwardVars, Cardinality(F!Asking) = Connections
      PROVE  F!Asking' = F!Asking /\ UNCHANGED <<idle, todo, chatLock>>
  <2>1. F!Asking \subseteq F!Using
    BY DEF F!Asking, F!Using
  <2>2. Cardinality(F!Asking) <= Cardinality(F!Using)
    BY <2>1, UsingFinite, FS_Subset
  <2>3. idle = 0 /\ Cardinality(F!Using) = Cardinality(F!Asking)
    BY <1>1, <2>2, UsingFinite, MessagesAssumption DEF ForwardFacts
  <2>4. F!Asking = F!Using
    BY <2>1, <2>3, UsingFinite, FS_Subset
  <2>5. \A r \in Transactions : forwarding[r] \notin {"admitting", "writing"}
    BY <2>4 DEF F!Asking, F!Using
  <2>6. ASSUME NEW r \in Transactions, F!ForwardStep(r) \/ F!RefuseForward(r)
        PROVE  FALSE
    BY <2>3, <2>5, <2>6 DEF F!ForwardStep, F!BeginForward, F!Admit, F!CheckChat, F!WriteCopy, F!SkipChat,
         F!CommitForward, F!BreakDeadlock, F!Deadlocked, F!WaitsIn, F!RefuseForward
  <2>7. ASSUME NEW r \in Transactions, F!GiveUpForward(r)
        PROVE  F!Asking' = F!Asking /\ UNCHANGED <<idle, todo, chatLock>>
    BY <1>1, <2>7 DEF F!GiveUpForward, F!Becomes, F!Asking, ForwardFacts
  <2>8. CASE UNCHANGED forwardVars
    BY <2>8 DEF forwardVars, F!Asking
  <2> QED
    BY <1>1, <2>6, <2>7, <2>8 DEF F!ForwardNext
<1>2. MessagesInv /\ [MessagesNext]_messageVars
        => [Cardinality(F!Asking) = Connections => F!Asking' = F!Asking /\ UNCHANGED <<idle, todo, chatLock>>]_forwardVars
  BY <1>1, OnePartSteps DEF MessagesInv
<1> QED
  BY <1>2, MessagesInductive, PTL DEF MessagesSpec
===============================================================================
