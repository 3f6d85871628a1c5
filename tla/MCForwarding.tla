--------------------------- MODULE MCForwarding ---------------------------
(***************************************************************************)
(* One link, a click c1 with a postback a1 of the same timestamp, and a    *)
(* later click c2.                                                         *)
(***************************************************************************)
EXTENDS Forwarding

CONSTANTS l1, c1, c2, a1

MCLinkOf == [r \in Leads |-> l1]
MCClickOf == [r \in Actions |-> c1]
MCStamp == [r \in Records |-> IF r = c2 THEN 2 ELSE 1]
=============================================================================
