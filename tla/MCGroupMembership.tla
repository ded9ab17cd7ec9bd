-------------------------- MODULE MCGroupMembership --------------------------
(***************************************************************************)
(* Small instances of GroupMembership.                                     *)
(***************************************************************************)
EXTENDS GroupMembership, TLC

HandlerSymmetry == Permutations(Handlers)
=============================================================================
