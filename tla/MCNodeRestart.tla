------------------------------ MODULE MCNodeRestart ------------------------------
(***************************************************************************)
(* NodeRestart on the DAG of MCNodePins.                                   *)
(***************************************************************************)
EXTENDS NodeRestart, MCNodePins

\* The threads are interchangeable.
Symmetry == Permutations(Threads)

================================================================================
