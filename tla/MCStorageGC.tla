------------------------------- MODULE MCStorageGC ------------------------------
(***************************************************************************)
(* StorageGC over a block r and its link x.                                *)
(***************************************************************************)
EXTENDS StorageGC, TLC

CONSTANTS r, x

MCLinks == (r :> {x}) @@ (x :> {})

\* Both blocks.
MCStores == {Cids}

Config(max, incremental, batch, dry) ==
    [max |-> max, incremental |-> incremental, batch |-> batch, dry |-> dry]

\* Incremental collections with batches of one block and of two, a dry run, and a
\* collection that is not incremental, all with a limit of one block.
MCConfigs ==
    {Config(1, TRUE, 1, FALSE), Config(1, TRUE, 2, FALSE), Config(1, FALSE, 2, TRUE),
     Config(1, FALSE, 2, FALSE)}

\* The tasks of the scheduler are interchangeable.
Symmetry == Permutations(Tasks \ Direct)

================================================================================
