------------------------------- MODULE MCSession -------------------------------
(* Sessions of three threads and two blocks. *)
EXTENDS Session

AnyOps == AllOps

\* Callers of both kinds, with and without an event sender.
AnyUsages == [callers : {"any", "orderly"}, events : BOOLEAN]
================================================================================
