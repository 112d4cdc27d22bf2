------------------------------- MODULE NodeRestart -------------------------------
(***************************************************************************)
(* A node whose owner saves its pins to a file and loads them again        *)
(* (PinManager::save and load, pin.rs): the pins live in memory, the       *)
(* blocks and the file on disk, and the node may crash at any moment, also *)
(* while the file is written.  The owner saves and loads one at a time and *)
(* loads before it lets a new node save its pins or collect garbage.       *)
(***************************************************************************)
EXTENDS NodeGC

CONSTANT
    MaxEvents   \* bound: pin calls, saves, loads and crashes

ASSUME RestartAssumption == MaxEvents \in Nat

VARIABLES
    file,       \* the saved pins, Torn when there is no file that can be read
    save,       \* the save under way
    ready,      \* the node is not new, or its owner has loaded the pins
    durable,    \* history: the pins that were saved and have not been removed since,
                \* with all their blocks in the store and nobody collecting
    loaded,     \* history: the pins have been loaded
    events      \* saves, loads and crashes so far

owner == <<file, save, ready, durable, loaded, events>>
rvars == <<gvars, owner>>

Torn == [c \in Cids |-> "torn"]

NoSave == [at |-> "idle", index |-> Torn, sound |-> {}]

RInit ==
    /\ GInit
    /\ file = Torn /\ save = NoSave /\ ready = TRUE /\ durable = {}
    /\ loaded = FALSE /\ events = 0

\* The owner does something, or the node crashes.
Event == calls + events < MaxEvents /\ events' = events + 1

\* The pins whose blocks are all there and safe from the collection under way.
Sound == {c \in Pinned : c \in durable \/ (GcAt("idle") /\ Reach({c}, Cids) \subseteq store)}

\* A step of the node: a pin that is removed is no longer promised anything.
NodeStep ==
    /\ GNext /\ (ready \/ gcs' = gcs) /\ calls' + events <= MaxEvents
    /\ LET gone == {c \in Pinned : pins'[c] = "none"}
       IN  durable' = durable \ gone /\ save' = [save EXCEPT !.sound = @ \ gone]
    /\ UNCHANGED <<file, ready, loaded, events>>

\* save reads the pins under their lock ...
SaveRead ==
    /\ Event /\ save.at = "idle" /\ ready /\ PinsFree
    /\ save' = [at |-> "write", index |-> pins, sound |-> Sound]
    /\ UNCHANGED <<gvars, file, ready, durable, loaded>>

\* ... and writes the file, which may fail half way.
SaveWrite ==
    /\ save.at = "write"
    /\ \/ file' = save.index /\ durable' = save.sound
       \/ file' = Torn /\ UNCHANGED durable
    /\ save' = NoSave
    /\ UNCHANGED <<gvars, ready, loaded, events>>

\* Mutant: load empties the pins before it looks at the file.
LoadClearsFirst ==
    /\ Event /\ save.at = "idle" /\ PinsFree
    /\ ready' = TRUE /\ loaded' = TRUE
    /\ pins' = IF file = Torn THEN [c \in Cids |-> "none"] ELSE file
    /\ UNCHANGED <<store, indirect, deps, call, calls, gaps, gc, gcs>>
    /\ UNCHANGED <<file, save, durable>>

\* load replaces the pins, and nothing else, by those of the file; it leaves them
\* alone if the file cannot be read.  (An entry with a CID that does not parse would end
\* it with the pins half replaced; save writes none.)
Load ==
    /\ Event /\ save.at = "idle" /\ PinsFree
    /\ ready' = TRUE /\ loaded' = TRUE
    /\ pins' = IF file = Torn THEN pins ELSE file
    /\ UNCHANGED <<store, indirect, deps, call, calls, gaps, gc, gcs>>
    /\ UNCHANGED <<file, save, durable>>

\* The node crashes and starts again, with its blocks and the file: the old one, the
\* new one or half of it.
Crash ==
    /\ Event
    /\ pins' = [c \in Cids |-> "none"] /\ indirect' = {} /\ deps' = [c \in Cids |-> {}]
    /\ call' = [t \in Threads |-> Idle] /\ gc' = NoGc
    /\ file' \in {file} \cup (IF save.at = "write" THEN {Torn, save.index} ELSE {})
    /\ durable' = IF file' = Torn THEN {} ELSE {c \in durable : file'[c] # "none"}
    /\ save' = NoSave /\ ready' = FALSE
    /\ gaps' = {} /\ UNCHANGED <<store, calls, gcs, loaded>>

RNext == NodeStep \/ SaveRead \/ SaveWrite \/ Load \/ Crash

RSpec == RInit /\ [][RNext]_rvars

--------------------------------------------------------------------------------
(* Properties                                                                   *)

\* A pin that was saved protects its blocks for good, whatever is pinned, cleared,
\* collected, saved and loaded afterwards and however often the node crashes, until it
\* is removed or the file is torn by a crash.
SavedPinsProtect == \A c \in durable : Reach({c}, Cids) \subseteq store

\* Every CID under a recursive pin is itself pinned until pins are loaded: a file holds
\* no indirect pins, and load does not find them again.
CoveredUntilLoad == ~ loaded => RecursiveCovered
================================================================================
