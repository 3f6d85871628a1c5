---------------------------- MODULE MCTwoFactor ----------------------------
(***************************************************************************)
(* Two browsers of one account, two requests at a time.                    *)
(***************************************************************************)
EXTENDS TwoFactor, TLC

Alike == Permutations(Calls) \cup Permutations(Browsers) \cup Permutations(Tokens)
           \cup Permutations(Secrets) \cup Permutations(Devices)
=============================================================================
