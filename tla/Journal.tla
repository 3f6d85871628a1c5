------------------------------ MODULE Journal ------------------------------
(***************************************************************************)
(* What tracking promises, without requests and faults: a visit is entered *)
(* at most once, a conversion only for a call that came in within the      *)
(* visit's window, and nothing that was entered changes or goes away, nor  *)
(* does the link it refers to.  It does not promise that what came in in   *)
(* time is entered in time: the clock is looked at once.                   *)
(***************************************************************************)
EXTENDS Naturals

CONSTANTS
  Links,
  Visits,
  Posts,
  Window,
  None      \* nothing entered

VARIABLES
  clock,
  open,     \* the links there are
  visits,   \* [link, until] of each visit entered
  admitted, \* the visit each call was let in for
  posts     \* the visit each conversion was entered for

vars == <<clock, open, visits, admitted, posts>>

Init ==
  /\ clock = 0
  /\ open = {}
  /\ visits = [v \in Visits |-> None]
  /\ admitted = [p \in Posts |-> None]
  /\ posts = [p \in Posts |-> None]

Referred == { l \in Links : \E v \in Visits : visits[v] # None /\ visits[v].link = l }

\* The catalogue changes, but for the links the journal refers to.
Rearrange ==
  /\ open' \in SUBSET Links
  /\ Referred \subseteq open'
  /\ UNCHANGED <<clock, visits, admitted, posts>>

\* at: when the visitor came.
EnterVisit(v, l, at) ==
  /\ visits[v] = None /\ l \in open
  /\ visits' = [visits EXCEPT ![v] = [link |-> l, until |-> at + Window]]
  /\ UNCHANGED <<clock, open, admitted, posts>>

Admit(p, v) ==
  /\ admitted[p] = None
  /\ visits[v] # None /\ clock <= visits[v].until
  /\ admitted' = [admitted EXCEPT ![p] = v]
  /\ UNCHANGED <<clock, open, visits, posts>>

EnterPost(p) ==
  /\ posts[p] = None /\ admitted[p] # None
  /\ posts' = [posts EXCEPT ![p] = admitted[p]]
  /\ UNCHANGED <<clock, open, visits, admitted>>

Pass ==
  /\ clock' = clock + 1
  /\ UNCHANGED <<open, visits, admitted, posts>>

Next ==
  \/ Rearrange
  \/ \E v \in Visits, l \in Links, at \in 0 .. clock : EnterVisit(v, l, at)
  \/ \E p \in Posts, v \in Visits : Admit(p, v)
  \/ \E p \in Posts : EnterPost(p)
  \/ Pass

Spec == Init /\ [][Next]_vars
=============================================================================
