--------------------------------- MODULE NodeGC ---------------------------------
(***************************************************************************)
(* GarbageCollector::collect of the node (gc.rs): mark what the pins       *)
(* reach, list the block store, delete what is not marked.  Each block is  *)
(* read and deleted behind an await, so that pins are added and removed    *)
(* and blocks stored while a collection runs.  One collection runs at a    *)
(* time.                                                                   *)
(***************************************************************************)
EXTENDS NodePins

CONSTANTS
    MaxBlocks,  \* the values of max_blocks_per_run, 0 for no limit
    MaxGcs      \* bound: collections run

ASSUME GcAssumption == MaxBlocks \subseteq Nat /\ MaxGcs \in Nat

VARIABLES
    gc,         \* the collection under way
    gcs         \* collections started so far

gvars == <<nvars, gc, gcs>>

NoGc == [at |-> "idle"]

GcAt(step) == gc.at = step

GInit == NInit /\ gc = NoGc /\ gcs = 0

Pinned == {c \in Cids : pins[c] # "none"}

\* The roots are read under the lock on the pins.  roots and blocks record
\* what was pinned and stored at this moment.
GcStart(max, dry) ==
    /\ GcAt("idle") /\ gcs < MaxGcs /\ PinsFree
    /\ gcs' = gcs + 1
    /\ gc' = [at |-> "mark", reachable |-> Pinned, toVisit |-> Pinned, todo |-> {},
              collected |-> 0, max |-> max, dry |-> dry,
              roots |-> Pinned, blocks |-> store]
    /\ UNCHANGED nvars

\* Mutant: a CID that is new is marked but its links are not followed.
GcMarkShallow(c) ==
    /\ GcAt("mark") /\ c \in gc.toVisit
    /\ LET links == IF c \in store THEN Links[c] \ gc.reachable ELSE {}
       IN  gc' = [gc EXCEPT !.reachable = @ \cup links, !.toVisit = @ \ {c}]
    /\ UNCHANGED <<nvars, gcs>>

\* mark_reachable reads the next block and marks what it links to.
GcMark(c) ==
    /\ GcAt("mark") /\ c \in gc.toVisit
    /\ LET links == IF c \in store THEN Links[c] \ gc.reachable ELSE {}
       IN  gc' = [gc EXCEPT !.reachable = @ \cup links,
                            !.toVisit = (@ \ {c}) \cup links]
    /\ UNCHANGED <<nvars, gcs>>

\* The store is listed once the marking is over; what is marked is skipped.
GcList ==
    /\ GcAt("mark") /\ gc.toVisit = {}
    /\ gc' = [gc EXCEPT !.at = "sweep", !.todo = store \ gc.reachable]
    /\ UNCHANGED <<nvars, gcs>>

\* Mutant: the limit is noticed one block late.
LimitReachedLate == gc.max > 0 /\ gc.collected > gc.max

LimitReached == gc.max > 0 /\ gc.collected >= gc.max

\* The next block is deleted, and counted if it is still there.
GcSweep(c) ==
    /\ GcAt("sweep") /\ c \in gc.todo /\ ~ LimitReached
    /\ gc' = [gc EXCEPT !.todo = @ \ {c},
                        !.collected = IF c \in store THEN @ + 1 ELSE @]
    /\ store' = IF gc.dry THEN store ELSE store \ {c}
    /\ UNCHANGED <<maps, call, calls, gaps, gcs>>

GcEnd ==
    /\ GcAt("sweep") /\ (gc.todo = {} \/ LimitReached)
    /\ gc' = NoGc
    /\ UNCHANGED <<nvars, gcs>>

\* A read, the listing or a delete fails, and collect returns the error.
GcFails ==
    /\ ~ GcAt("idle")
    /\ gc' = NoGc
    /\ UNCHANGED <<nvars, gcs>>

GcStep ==
    \/ \E max \in MaxBlocks, dry \in BOOLEAN : GcStart(max, dry)
    \/ \E c \in Cids : GcMark(c) \/ GcSweep(c)
    \/ GcList
    \/ GcEnd \/ GcFails

GNext == (NNext /\ UNCHANGED <<gc, gcs>>) \/ GcStep

GSpec == GInit /\ [][GNext]_gvars

--------------------------------------------------------------------------------
(* Properties                                                                   *)

Collections ==
    [at : {"mark", "sweep"}, reachable : SUBSET Cids, toVisit : SUBSET Cids,
     todo : SUBSET Cids, collected : Nat, max : MaxBlocks, dry : BOOLEAN,
     roots : SUBSET Cids, blocks : SUBSET Cids]

\* The values the collector's state takes; a run with a limit counts no more
\* blocks than the limit.
GTypeOK ==
    /\ store \in SUBSET Cids
    /\ gc \in {NoGc} \cup Collections
    /\ gcs \in 0..MaxGcs
    /\ ~ GcAt("idle") /\ gc.max > 0 => gc.collected <= gc.max

\* A collection never deletes a block that was stored when it began and could
\* be reached from what was then pinned, whatever is pinned, unpinned, cleared
\* or stored while it marks and sweeps.
ReachableSurvives ==
    ~ GcAt("idle") => Reach(gc.roots, gc.blocks) \cap gc.blocks \subseteq store
================================================================================
