---------------------------- MODULE AtLeastOnce ----------------------------
(***************************************************************************)
(* What forwarding promises, without runs, batches or faults: records      *)
(* become known, the third party takes them in, possibly more than once,   *)
(* and only what it took in is marked settled.  Overlapping says whether   *)
(* two senders may work at once; only then may a settled record become     *)
(* open again.                                                             *)
(***************************************************************************)
CONSTANTS
  Records,
  Overlapping

VARIABLES
  known,
  reached,   \* taken in by the third party at least once
  settled    \* marked as sent

vars == <<known, reached, settled>>

Init == known = {} /\ reached = {} /\ settled = {}

Learn(r) ==
  /\ known' = known \cup {r}
  /\ UNCHANGED <<reached, settled>>

Deliver(parcel) ==
  /\ parcel \subseteq known
  /\ reached' = reached \cup parcel
  /\ UNCHANGED <<known, settled>>

Settle(r) ==
  /\ r \in reached
  /\ settled' = settled \cup {r}
  /\ UNCHANGED <<known, reached>>

Reopen(r) ==
  /\ Overlapping
  /\ settled' = settled \ {r}
  /\ UNCHANGED <<known, reached>>

Next ==
  \/ \E r \in Records : Learn(r) \/ Settle(r) \/ Reopen(r)
  \/ \E parcel \in SUBSET Records : Deliver(parcel)

Spec == Init /\ [][Next]_vars
=============================================================================
