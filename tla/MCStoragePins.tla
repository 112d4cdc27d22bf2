------------------------------ MODULE MCStoragePins -----------------------------
(***************************************************************************)
(* StoragePins over a DAG of three blocks: r and s both link to x.         *)
(***************************************************************************)
EXTENDS StoragePins, TLC

CONSTANTS r, s, x

MCLinks == (r :> {x}) @@ (s :> {x}) @@ (x :> {})

================================================================================
