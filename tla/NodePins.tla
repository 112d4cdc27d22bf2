-------------------------------- MODULE NodePins --------------------------------
(***************************************************************************)
(* The pins of an ipfrs node: PinManager (pin.rs) and the pin operations   *)
(* of the node (pin_ops.rs), called by several threads.  The pin manager   *)
(* has three maps with a lock each.  A call is split where it has to wait  *)
(* for a lock, and keeps the locks the code keeps; a recursive pin is      *)
(* built up link by link, with an await before each block is read.         *)
(***************************************************************************)
EXTENDS Integers, FiniteSets

CONSTANTS
    Cids,
    Links,      \* cid -> the CIDs its block links to
    Stores,     \* the block stores a node may start with
    Threads,
    PinOps,     \* the calls the threads make
    MaxCalls    \* bound: calls made and reads of theirs that fail, in total

ASSUME PinsAssumption ==
    /\ Links \in [Cids -> SUBSET Cids]
    /\ Stores \subseteq SUBSET Cids
    /\ PinOps \subseteq {"Direct", "Recursive", "unpin", "clear", "put"}
    /\ MaxCalls \in Nat

VARIABLES
    store,      \* the blocks in the block store
    pins,       \* cid -> "Direct", "Recursive" or "none"
    indirect,   \* indirect_pins
    deps,       \* recursive_deps, {} when there is no entry
    call,       \* thread -> the call it is in
    calls,      \* calls made and reads that failed so far
    gaps        \* history: the roots whose last recursive pin may have passed links over

maps == <<pins, indirect, deps>>
nvars == <<store, maps, call, calls, gaps>>

Idle == [at |-> "idle"]

\* A recursive pin under construction: the locals of mark_recursive_pins and
\* of the add_indirect it is in.
Marking(root) ==
    [at |-> "visit", root |-> root, toVisit |-> {root}, visited |-> {}, links |-> {}, link |-> root]

At(t, step) == call[t].at = step

NInit ==
    /\ store \in Stores
    /\ pins = [c \in Cids |-> "none"]
    /\ indirect = {}
    /\ deps = [c \in Cids |-> {}]
    /\ call = [t \in Threads |-> Idle]
    /\ calls = 0
    /\ gaps = {}

Counted == calls < MaxCalls /\ calls' = calls + 1

\* An idle thread makes a call.
Begin(t, op) == At(t, "idle") /\ op \in PinOps /\ Counted

Goto(t, r) == call' = [call EXCEPT ![t] = r]

Return(t) == Goto(t, Idle)

\* Mutant: add_indirect gives the first lock up before it takes the second.
HoldsIndirectBriefly(t) == At(t, "clearDeps")

\* Mutant: unpin gives the lock on the pins up once the pin is removed.
HoldsPinsBriefly(t) == call[t].at \in {"clearIndirect", "clearDeps"}

\* The locks a call holds while it waits for the next one.
HoldsPins(t)     == call[t].at \in {"unpinDeps", "unpinIndirect", "clearIndirect", "clearDeps"}
HoldsDeps(t)     == At(t, "unpinIndirect")
HoldsIndirect(t) == call[t].at \in {"linkDeps", "clearDeps"}

PinsFree     == \A t \in Threads : ~ HoldsPins(t)
DepsFree     == \A t \in Threads : ~ HoldsDeps(t)
IndirectFree == \A t \in Threads : ~ HoldsIndirect(t)

--------------------------------------------------------------------------------
(* pin_add                                                                      *)

\* The block must be in the store, and the store must be able to tell.
PinAdd(t, c, kind) ==
    /\ Begin(t, kind)
    /\ \/ c \in store /\ Goto(t, [at |-> "pin", root |-> c, kind |-> kind])
       \/ UNCHANGED call
    /\ UNCHANGED <<store, maps, gaps>>

\* PinManager::pin; a pin of another kind is replaced, its dependencies stay.
Pin(t) ==
    /\ At(t, "pin") /\ PinsFree
    /\ pins' = [pins EXCEPT ![call[t].root] = call[t].kind]
    /\ IF call[t].kind = "Recursive"
       THEN Goto(t, Marking(call[t].root)) /\ gaps' = gaps \ {call[t].root}
       ELSE Return(t) /\ UNCHANGED gaps
    /\ UNCHANGED <<store, indirect, deps, calls>>

\* mark_recursive_pins reads the next block; a missing one is passed over.
\* The stack of blocks to visit is a set here: any order.
Visit(t, c) ==
    /\ At(t, "visit") /\ c \in call[t].toVisit
    /\ LET links == IF c \in store THEN Links[c] ELSE {}
       IN  Goto(t, [call[t] EXCEPT
                       !.at = IF links = {} THEN "visit" ELSE "link",
                       !.visited = @ \cup {c},
                       !.toVisit = (@ \cup links) \ (call[t].visited \cup {c}),
                       !.links = links])
    /\ gaps' = IF c \in store THEN gaps ELSE gaps \cup {call[t].root}
    /\ UNCHANGED <<store, maps, calls>>

\* The block cannot be read: pin_add returns the error, with the root pinned and what
\* it has recorded so far.
VisitFails(t) ==
    /\ At(t, "visit") /\ call[t].toVisit # {} /\ Counted
    /\ Return(t)
    /\ gaps' = gaps \cup {call[t].root}
    /\ UNCHANGED <<store, maps>>

VisitDone(t) ==
    /\ At(t, "visit") /\ call[t].toVisit = {}
    /\ Return(t)
    /\ UNCHANGED <<store, maps, calls, gaps>>

\* add_indirect: the indirect pins, ...
AddIndirect(t, c) ==
    /\ At(t, "link") /\ c \in call[t].links /\ IndirectFree
    /\ indirect' = indirect \cup {c}
    /\ Goto(t, [call[t] EXCEPT !.at = "linkDeps", !.links = @ \ {c}, !.link = c])
    /\ UNCHANGED <<store, pins, deps, calls, gaps>>

\* ... then the dependencies of the root, with the first lock still held.
AddDep(t) ==
    /\ At(t, "linkDeps") /\ DepsFree
    /\ deps' = [deps EXCEPT ![call[t].root] = @ \cup {call[t].link}]
    /\ Goto(t, [call[t] EXCEPT !.at = IF call[t].links = {} THEN "visit" ELSE "link"])
    /\ UNCHANGED <<store, pins, indirect, calls, gaps>>

--------------------------------------------------------------------------------
(* unpin, clear, and the writes of other parts of the node                      *)

\* The pin goes; a CID that is not pinned is an error.
Unpin(t, c) ==
    /\ Begin(t, "unpin") /\ PinsFree
    /\ pins' = [pins EXCEPT ![c] = "none"]
    /\ IF pins[c] = "Recursive" THEN Goto(t, [at |-> "unpinDeps", root |-> c])
                                ELSE UNCHANGED call
    /\ UNCHANGED <<store, indirect, deps, gaps>>

\* Then the dependencies of a recursive pin, ...
UnpinDeps(t) ==
    /\ At(t, "unpinDeps") /\ DepsFree
    /\ deps' = [deps EXCEPT ![call[t].root] = {}]
    /\ LET removed == deps[call[t].root]
       IN  IF removed = {} THEN Return(t)
                           ELSE Goto(t, [at |-> "unpinIndirect", removed |-> removed])
    /\ UNCHANGED <<store, pins, indirect, calls, gaps>>

\* ... then the indirect pins that no other root depends on.
UnpinIndirect(t) ==
    /\ At(t, "unpinIndirect") /\ IndirectFree
    /\ indirect' = indirect \ (call[t].removed \ UNION {deps[r] : r \in Cids})
    /\ Return(t)
    /\ UNCHANGED <<store, pins, deps, calls, gaps>>

\* clear takes the three locks one by one and keeps them.
Clear(t) ==
    /\ Begin(t, "clear") /\ PinsFree
    /\ pins' = [c \in Cids |-> "none"]
    /\ Goto(t, [at |-> "clearIndirect"])
    /\ UNCHANGED <<store, indirect, deps, gaps>>

ClearIndirect(t) ==
    /\ At(t, "clearIndirect") /\ IndirectFree
    /\ indirect' = {}
    /\ Goto(t, [at |-> "clearDeps"])
    /\ UNCHANGED <<store, pins, deps, calls, gaps>>

ClearDeps(t) ==
    /\ At(t, "clearDeps") /\ DepsFree
    /\ deps' = [c \in Cids |-> {}]
    /\ Return(t)
    /\ UNCHANGED <<store, pins, indirect, calls, gaps>>

\* A block is stored.
Put(t, c) ==
    /\ Begin(t, "put")
    /\ store' = store \cup {c}
    /\ UNCHANGED <<maps, call, gaps>>

--------------------------------------------------------------------------------

Start(t) ==
    \/ \E c \in Cids : \/ \E kind \in {"Direct", "Recursive"} : PinAdd(t, c, kind)
                       \/ Unpin(t, c)
                       \/ Put(t, c)
    \/ Clear(t)

Continue(t) ==
    \/ Pin(t) \/ VisitFails(t) \/ VisitDone(t) \/ AddDep(t)
    \/ \E c \in Cids : Visit(t, c) \/ AddIndirect(t, c)
    \/ UnpinDeps(t) \/ UnpinIndirect(t)
    \/ ClearIndirect(t) \/ ClearDeps(t)

NNext == \E t \in Threads : Start(t) \/ Continue(t)

\* The scheduler runs every thread whose lock is free.
NSpec == NInit /\ [][NNext]_nvars /\ \A t \in Threads : WF_nvars(Continue(t))

--------------------------------------------------------------------------------
(* Properties                                                                   *)

Markings ==
    [at : {"visit", "link", "linkDeps"}, root : Cids, toVisit : SUBSET Cids,
     visited : SUBSET Cids, links : SUBSET Cids, link : Cids]

Calls ==
    {Idle} \cup Markings
    \cup [at : {"pin"}, root : Cids, kind : {"Direct", "Recursive"}]
    \cup [at : {"unpinDeps"}, root : Cids]
    \cup [at : {"unpinIndirect"}, removed : SUBSET Cids]
    \cup [at : {"clearIndirect", "clearDeps"}]

\* No lock is held by two calls.
LocksExclusive ==
    \A t, u \in Threads : t # u =>
        /\ ~ (HoldsPins(t) /\ HoldsPins(u))
        /\ ~ (HoldsDeps(t) /\ HoldsDeps(u))
        /\ ~ (HoldsIndirect(t) /\ HoldsIndirect(u))

\* The values the state takes, and who holds the three locks of PinManager.
NTypeOK ==
    /\ store \in SUBSET Cids
    /\ pins \in [Cids -> {"Direct", "Recursive", "none"}]
    /\ indirect \in SUBSET Cids
    /\ deps \in [Cids -> SUBSET Cids]
    /\ call \in [Threads -> Calls]
    /\ calls \in 0..MaxCalls
    /\ gaps \in SUBSET Cids
    /\ LocksExclusive

\* The indirect pins are the union of what the recursive roots depend on
\* whenever no call is between its update of the one map and of the other:
\* add_indirect and unpin change both maps, under locks taken in opposite
\* orders, and an indirect pin that two roots share must survive the removal
\* of one of them.
IndirectIsUnion ==
    (\A t \in Threads : call[t].at \notin {"linkDeps", "unpinIndirect", "clearDeps"})
        => indirect = UNION {deps[r] : r \in Cids}

\* T contains the set R and what its blocks in the store S link to.
Closed(T, R, S) == R \subseteq T /\ \A c \in T \cap S : Links[c] \subseteq T

\* The CIDs that can be reached from R through the blocks in S.
Reach(R, S) == {c \in Cids : \A T \in SUBSET Cids : Closed(T, R, S) => c \in T}

\* A recursive pin protects all that its block refers to: when no call is in
\* progress, every CID reachable from a recursively pinned one is itself pinned, as
\* is_pinned would answer.  pin_add gets there over many awaits, against unpins, clears
\* and other pins.  It does not get there if it meets a block that is missing, which it
\* passes over, or one that cannot be read, when it fails and leaves the root pinned:
\* a pin with such a gap is promised nothing until the root is pinned anew.
RecursiveCovered ==
    (\A t \in Threads : At(t, "idle"))
        => \A r \in Cids \ gaps : pins[r] = "Recursive" =>
               \A c \in Reach({r}, Cids) : c \in indirect \/ pins[c] # "none"
================================================================================
