------------------------------ MODULE Backlog ------------------------------
(***************************************************************************)
(* The oldest-first, capped queue of src/shared/forwarding/forwarding.go.  *)
(* FetchBacklog reads at most `limit` unsent leads and at most `limit`     *)
(* unsent actions, each oldest first, merges the two by timestamp and      *)
(* truncates the result to `limit`.                                        *)
(*                                                                         *)
(* A batch is a set: the code keeps it as a slice sorted by timestamp, and *)
(* since neither ORDER BY nor sort.Slice breaks ties, every order of equal *)
(* timestamps is possible.  A set of records with the rule "take one that  *)
(* has no strictly older record beside it" is exactly that slice.          *)
(***************************************************************************)
EXTENDS Integers, FiniteSets

CONSTANTS
  Records,   \* clicks and postbacks, of every link
  Stamp      \* clicked_at / received_at of a record; ties allowed

ASSUME StampAssumption == Stamp \in [Records -> Nat]

Smaller(m, n) == IF m <= n THEN m ELSE n

\* `rows` cut by ORDER BY <timestamp> ASC LIMIT limit: any choice of the
\* oldest ones, ties broken by the database as it likes.
OldestFirst(rows, limit) ==
  { batch \in SUBSET rows :
      /\ Cardinality(batch) = Smaller(limit, Cardinality(rows))
      /\ \A r \in batch, x \in rows \ batch : Stamp[r] <= Stamp[x] }

\* A mistake the merge could have: truncating before sorting, so that leads,
\* appended first, always win.
MergeUnsorted(leads, actions, limit) ==
  IF Cardinality(leads) >= limit
    THEN {leads}
    ELSE { leads \cup extra :
             extra \in OldestFirst(actions, limit - Cardinality(leads)) }

\* What FetchBacklog may return for the two query results.
Merge(leads, actions, limit) == OldestFirst(leads \cup actions, limit)

\* The records of a batch that may be dispatched next: those at its front.
Front(batch) == { r \in batch : \A x \in batch : Stamp[r] <= Stamp[x] }
=============================================================================
