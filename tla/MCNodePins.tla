------------------------------- MODULE MCNodePins -------------------------------
(***************************************************************************)
(* A small DAG for NodePins: r2 links to r1, r1 links to x, so that two    *)
(* recursive pins share an indirect one.                                   *)
(***************************************************************************)
EXTENDS NodePins, TLC

CONSTANTS r1, r2, x

MCLinks == (r1 :> {x}) @@ (r2 :> {r1}) @@ (x :> {})

\* All the blocks, or one in the middle of the DAG missing.
MCStores == {Cids, Cids \ {r1}}

================================================================================
