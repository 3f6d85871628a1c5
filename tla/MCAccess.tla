------------------------------ MODULE MCAccess ------------------------------
(***************************************************************************)
(* Three accounts, two requests at a time.                                 *)
(***************************************************************************)
EXTENDS Access, TLC

Alike == Permutations(Users) \cup Permutations(Calls)
=============================================================================
