----------------------------- MODULE MCListView -----------------------------
(***************************************************************************)
(* Three rows of each table, two of them from the start, on pages of two;  *)
(* those of the links are pages of one, so that there is a next page and a *)
(* previous one.                                                           *)
(***************************************************************************)
EXTENDS ListView

MCPerPage == [k \in Kinds |-> IF k = "links" THEN 1 ELSE 2]
=============================================================================
