------------------------- MODULE MCScheduledMessages -------------------------
(***************************************************************************)
(* A small instance of ScheduledMessages.                                  *)
(***************************************************************************)
EXTENDS ScheduledMessages, TLC

CONSTANTS i1, i2, u1, c1

(* Two messages of one member of a group. *)
OneGroupSender == i1 :> u1 @@ i2 :> u1
OneGroupChat   == i1 :> c1 @@ i2 :> c1
OneGroupKind   == c1 :> "group"
=============================================================================
