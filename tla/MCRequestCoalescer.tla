--------------------------- MODULE MCRequestCoalescer ---------------------------
(***************************************************************************)
(* RequestCoalescer with four callers and a limit of three waiters.        *)
(***************************************************************************)
EXTENDS RequestCoalescer
================================================================================
