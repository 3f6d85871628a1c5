---------------------------- MODULE MCSessions ----------------------------
(***************************************************************************)
(* One browser with two tabs.                                              *)
(***************************************************************************)
EXTENDS Sessions, TLC

\* For the safety runs only.
Alike == Permutations(Tabs) \cup Permutations(Calls) \cup Permutations(Ids)
=============================================================================
