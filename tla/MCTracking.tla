----------------------------- MODULE MCTracking -----------------------------
(***************************************************************************)
(* Two links that may use the same slug, two visitors, two calls back.     *)
(***************************************************************************)
EXTENDS Tracking, TLC

Alike == Permutations(Links) \cup Permutations(Visits) \cup Permutations(Posts)
=============================================================================
