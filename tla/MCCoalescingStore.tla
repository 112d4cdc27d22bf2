--------------------------- MODULE MCCoalescingStore ----------------------------
(***************************************************************************)
(* CoalescingStore with three blocks, batches of two, two callers and the  *)
(* background task.                                                        *)
(***************************************************************************)
EXTENDS CoalescingStore
================================================================================
