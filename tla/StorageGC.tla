------------------------------- MODULE StorageGC --------------------------------
(***************************************************************************)
(* GarbageCollector and GcScheduler of ipfrs-storage (gc.rs): a collection *)
(* lists the pins, marks what they reach, lists the store and deletes the  *)
(* rest in batches, while threads pin, unpin and store blocks and one of   *)
(* them cancels it.                                                        *)
(***************************************************************************)
EXTENDS StoragePins

CONSTANTS
    Tasks,          \* the tasks that run the collector
    Direct,         \* those of them that call collect() past the scheduler
    Configs,        \* GcConfig: max_blocks_per_run, incremental, batch_size, dry_run
    Stores,         \* what the store may hold at first
    MaxRuns         \* bound: collections

ASSUME StorageGcAssumption ==
    /\ Configs \subseteq [max : Nat, incremental : BOOLEAN, batch : Nat \ {0}, dry : BOOLEAN]
    /\ Direct \subseteq Tasks /\ MaxRuns \in Nat
    /\ IsFiniteSet(Cids) /\ Stores \subseteq SUBSET Cids

VARIABLES
    config,
    store,
    cancelled,      \* the collector's cancel flag
    running,        \* the scheduler's running flag
    gc,             \* what each task is doing; kept and there are history: the CIDs
                    \* pinned, and the blocks stored and not pinned as Indirect, ever
                    \* since its collection began, without the blocks whose links it
                    \* could not get or did not get round to
    runs            \* collections so far

sgvars == <<pvars, config, store, cancelled, running, gc, runs>>

GcAt(g, step) == gc[g].at = step

GcGoes(g, state) == gc' = [gc EXCEPT ![g] = state]

SgInit ==
    /\ SpInit
    /\ config \in Configs /\ store \in Stores
    /\ cancelled = FALSE /\ running = FALSE
    /\ gc = [g \in Tasks |-> Idle] /\ runs = 0

--------------------------------------------------------------------------------
(* A collection.                                                               *)

\* maybe_run starts one collection at a time; collect() forgets an earlier cancel, also
\* one that another collection has not yet noticed.
Start(g) ==
    /\ GcAt(g, "idle") /\ runs < MaxRuns
    /\ g \in Direct \/ ~ running
    /\ running' = (running \/ g \notin Direct)
    /\ runs' = runs + 1
    /\ cancelled' = FALSE
    /\ GcGoes(g, [at |-> "list", todo |-> Cids, marked |-> {}, queue |-> {},
                  batch |-> {}, collected |-> 0,
                  kept |-> {c \in Cids : IsPinned(c)},
                  there |-> {c \in store : Links[c] # {} /\ pins[c].type # "Indirect"}])
    /\ UNCHANGED <<pvars, config, store>>

\* Mutant: a root goes on the queue and only the other pins are marked.
ListPinRootUnmarked(g, c) ==
    /\ GcAt(g, "list") /\ c \in gc[g].todo
    /\ GcGoes(g, [gc[g] EXCEPT !.todo = @ \ {c},
           !.marked = IF pins[c].type = "Indirect" THEN @ \cup {c} ELSE @,
           !.queue = IF pins[c].type \in {"Direct", "Recursive"} THEN @ \cup {c} ELSE @,
           !.at = IF gc[g].todo = {c} THEN "mark" ELSE "list"])
    /\ UNCHANGED <<pvars, config, store, cancelled, running, runs>>

\* Mutant: only recursive pins are roots, and only roots are marked.
ListPinRecursiveOnly(g, c) ==
    /\ GcAt(g, "list") /\ c \in gc[g].todo
    /\ GcGoes(g, [gc[g] EXCEPT !.todo = @ \ {c},
           !.marked = IF pins[c].type = "Recursive" THEN @ \cup {c} ELSE @,
           !.queue = IF pins[c].type = "Recursive" THEN @ \cup {c} ELSE @,
           !.at = IF gc[g].todo = {c} THEN "mark" ELSE "list"])
    /\ UNCHANGED <<pvars, config, store, cancelled, running, runs>>

\* list_pins meets the entries one shard after the other.  Direct and recursive pins
\* are roots, and every pin is marked.
ListPin(g, c) ==
    /\ GcAt(g, "list") /\ c \in gc[g].todo
    /\ GcGoes(g, [gc[g] EXCEPT !.todo = @ \ {c},
           !.marked = IF IsPinned(c) THEN @ \cup {c} ELSE @,
           !.queue = IF pins[c].type \in {"Direct", "Recursive"} THEN @ \cup {c} ELSE @,
           !.at = IF gc[g].todo = {c} THEN "mark" ELSE "list"])
    /\ UNCHANGED <<pvars, config, store, cancelled, running, runs>>

\* The links of the next block are marked.  The resolver reads the block: it fails if
\* the block is missing, may fail if it is not, and the error is only written down.
Mark(g, c) ==
    /\ GcAt(g, "mark") /\ ~ cancelled /\ c \in gc[g].queue
    /\ \E ok \in BOOLEAN :
         LET new == IF ok THEN Links[c] \ gc[g].marked ELSE {}
         IN  /\ ok => c \in store
             /\ GcGoes(g, [gc[g] EXCEPT !.marked = @ \cup new,
                                        !.queue = (@ \ {c}) \cup new,
                                        !.there = IF ok THEN @ ELSE @ \ {c}])
    /\ UNCHANGED <<pvars, config, store, cancelled, running, runs>>

\* Marking breaks off when the collection was cancelled.
MarkBreaks(g) ==
    /\ GcAt(g, "mark") /\ cancelled /\ gc[g].queue # {}
    /\ GcGoes(g, [gc[g] EXCEPT !.at = "check", !.queue = {}, !.there = @ \ gc[g].queue])
    /\ UNCHANGED <<pvars, config, store, cancelled, running, runs>>

\* should_stop, once marking is over: a cancelled collection, or one past its time
\* limit, ends here.  One that another collect() has revived goes on with what it has.
Check(g) ==
    /\ GcAt(g, "check") \/ (GcAt(g, "mark") /\ gc[g].queue = {})
    /\ \/ ~ cancelled /\ GcGoes(g, [gc[g] EXCEPT !.at = "sweep", !.todo = store])
       \/ GcGoes(g, [gc[g] EXCEPT !.at = "end"])
    /\ UNCHANGED <<pvars, config, store, cancelled, running, runs>>

\* Mutant: the limit is noticed one block late.
LimitReachedLate(g) == config.max > 0 /\ gc[g].collected > config.max

LimitReached(g) == config.max > 0 /\ gc[g].collected >= config.max

\* How many dead blocks make a batch: in a collection that is not incremental, all.
BatchSize == IF config.incremental THEN config.batch ELSE Cardinality(Cids)

\* How many of them the sweep takes before it awaits: a batch, or in a dry run those up
\* to the limit.
Room(g) == IF config.dry /\ config.max > 0 THEN config.max - gc[g].collected ELSE BatchSize

\* The sweep goes over the listing until a batch is full, or to its end, which a
\* cancel, the time limit or max_blocks_per_run may bring early.  Nothing of this is
\* seen outside, so it is one step.  A dry run only counts.
Sweep(g) ==
    /\ GcAt(g, "sweep")
    /\ \E scanned \in SUBSET gc[g].todo :
         LET dead == IF LimitReached(g) THEN {} ELSE scanned \ gc[g].marked
             full == config.incremental /\ Cardinality(dead) = config.batch
             todo == IF full THEN gc[g].todo \ scanned ELSE {}
         IN  /\ Cardinality(dead) <= Room(g)
             /\ GcGoes(g, IF config.dry
                    THEN [gc[g] EXCEPT !.at = IF todo = {} THEN "end" ELSE "sweep",
                            !.todo = todo, !.collected = @ + Cardinality(dead)]
                    ELSE [gc[g] EXCEPT !.at = IF dead = {} THEN "end" ELSE "delete",
                            !.todo = todo, !.batch = dead])
    /\ UNCHANGED <<pvars, config, store, cancelled, running, runs>>

\* delete_batch deletes the next block; a failure is only written down.  What is on
\* the batch is deleted though the collection is cancelled meanwhile.
Delete(g, c) ==
    /\ GcAt(g, "delete") /\ c \in gc[g].batch
    /\ \E ok \in BOOLEAN :
         /\ store' = IF ok THEN store \ {c} ELSE store
         /\ gc' = [h \in Tasks |->
                LET next == IF h # g THEN gc[h]
                            ELSE [gc[h] EXCEPT !.batch = @ \ {c},
                                    !.collected = IF ok THEN @ + 1 ELSE @,
                                    !.at = IF gc[h].batch # {c} THEN "delete"
                                           ELSE IF gc[h].todo = {} THEN "end" ELSE "sweep"]
                IN  IF GcAt(h, "idle") THEN next ELSE [next EXCEPT !.there = @ \cap store']]
    /\ UNCHANGED <<pvars, config, cancelled, running, runs>>

\* Mutant: the flag is set back only when something was collected.
EndBusy(g) ==
    /\ GcAt(g, "end")
    /\ running' = (running /\ (g \in Direct \/ gc[g].collected = 0))
    /\ GcGoes(g, Idle)
    /\ UNCHANGED <<pvars, config, store, cancelled, runs>>

End(g) ==
    /\ GcAt(g, "end")
    /\ running' = (running /\ g \in Direct)
    /\ GcGoes(g, Idle)
    /\ UNCHANGED <<pvars, config, store, cancelled, runs>>

GcStep(g) ==
    \/ \E c \in Cids : ListPin(g, c) \/ Mark(g, c) \/ Delete(g, c)
    \/ MarkBreaks(g) \/ Check(g) \/ Sweep(g) \/ End(g)

--------------------------------------------------------------------------------

\* A cancel with no collection under way is forgotten when the next one begins.
Cancel ==
    /\ ~ cancelled /\ \E g \in Tasks : ~ GcAt(g, "idle")
    /\ cancelled' = TRUE
    /\ UNCHANGED <<pvars, config, store, running, gc, runs>>

\* External: a thread stores a block.
Put(t, c) ==
    /\ c \notin store /\ Call(t, Idle)
    /\ store' = store \cup {c}
    /\ UNCHANGED <<pins, direct, recursive, config, cancelled, running, gc, runs>>

\* A step of a thread; kept and there follow the entries.
ThreadStep(t) ==
    /\ PinStep(t)
    /\ gc' = [g \in Tasks |-> IF GcAt(g, "idle") THEN gc[g]
               ELSE [gc[g] EXCEPT !.kept = {c \in @ : pins'[c] # NoPin},
                                  !.there = {c \in @ : pins'[c].type # "Indirect"}]]
    /\ UNCHANGED <<config, store, cancelled, running, runs>>

SgNext ==
    \/ \E t \in Threads : ThreadStep(t) \/ \E c \in Cids : Put(t, c)
    \/ \E g \in Tasks : Start(g) \/ GcStep(g)
    \/ Cancel

SgSpec == SgInit /\ [][SgNext]_sgvars

--------------------------------------------------------------------------------
(* Properties.                                                                 *)

Collections ==
    {k \in [at : {"list", "mark", "check", "sweep", "delete", "end"}, todo : SUBSET Cids,
            marked : SUBSET Cids, queue : SUBSET Cids, batch : SUBSET Cids,
            collected : Nat, kept : SUBSET Cids, there : SUBSET Cids] :
        k.queue \subseteq k.marked}

\* The types of the collector's state; and whatever mark_phase has put on its queue, it
\* has marked, so that it comes there once.
SgTypeOK ==
    /\ SpTypeOK
    /\ config \in Configs /\ store \subseteq Cids
    /\ cancelled \in BOOLEAN /\ running \in BOOLEAN /\ runs \in Nat
    /\ gc \in [Tasks -> [at : {"idle"}] \cup Collections]

\* What is linked from c through the blocks of there.
ReachedFrom(c, there) ==
    {d \in Cids : \A S \in SUBSET Cids :
        c \in S /\ (\A e \in S \cap there : Links[e] \subseteq S) => d \in S}

\* What a collection owes to the pins that were there all along: the pinned blocks, and
\* what is below a direct or recursive pin through blocks whose links it followed.
Owed(g) ==
    gc[g].kept \cup
    UNION {ReachedFrom(c, gc[g].there) : c \in {d \in gc[g].kept : pins[d].type # "Indirect"}}

\* What was pinned when a collection began and has been since is never on the batch it
\* deletes, whatever is pinned, unpinned, stored or cancelled meanwhile, whatever fails
\* and whatever other collections do.  Nor is what is below it, as far as the collection
\* followed the links: mark_phase does not follow those of an indirect pin, those of a
\* block on which the resolver fails, and those left on its queue when a cancel cuts it
\* off; and a second collect() revives that collection, which then sweeps.  In these
\* three cases blocks of a pinned DAG are deleted, though the module says that it marks
\* all that the roots reach "to ensure pinned blocks are retained" (gc.rs:4).
PinnedRetained == \A g \in Tasks : GcAt(g, "delete") => gc[g].batch \cap Owed(g) = {}

\* max_blocks_per_run, the "maximum blocks to collect in a single run" (gc.rs:33), is
\* looked at before a block goes on a batch, and compared with what has been deleted: a
\* collection exceeds it by less than a batch, and a dry run, which counts at once, not
\* at all.  One that is not incremental has all the blocks on its one batch.
CollectedBounded ==
    \A g \in Tasks : gc[g].at # "idle" /\ config.max > 0
        => gc[g].collected < config.max + (IF config.dry THEN 1 ELSE BatchSize)

\* maybe_run's flag is set while a collection of the scheduler is under way and at no
\* other time: two of them never run at once, and however one ends, failed, cancelled or
\* past its time limit, and whatever collect() is called past the scheduler, the next may
\* begin.
FlagIsKept ==
    /\ running <=> \E g \in Tasks \ Direct : ~ GcAt(g, "idle")
    /\ \A g, h \in Tasks \ Direct : ~ GcAt(g, "idle") /\ ~ GcAt(h, "idle") => g = h
================================================================================
