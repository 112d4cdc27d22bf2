------------------------------ MODULE MCWantList ------------------------------
(* WantList on two CIDs, with a priority below High and one above Urgent. *)
EXTENDS WantList, TLC

Sym == Permutations(Cids)
===============================================================================
