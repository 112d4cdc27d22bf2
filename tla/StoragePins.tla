------------------------------ MODULE StoragePins -------------------------------
(***************************************************************************)
(* PinManager of ipfrs-storage (pinning.rs): a concurrent map from CIDs to *)
(* a pin type and a reference count.  Every access to one entry is atomic, *)
(* a call is several of them, and the threads' accesses interleave.        *)
(*                                                                         *)
(* Threads are fair users: they unpin what they hold a pin on, directly or *)
(* recursively, once for each time they pinned it.                         *)
(***************************************************************************)
EXTENDS Integers, FiniteSets

CONSTANTS
    Cids,
    Links,      \* what each block links to
    Threads,
    MaxCalls    \* bound: calls the threads make

ASSUME PinsAssumption == Links \in [Cids -> SUBSET Cids] /\ MaxCalls \in Nat

VARIABLES
    pins,       \* PinInfo of each CID, with count -1 when there is none
    call,       \* what each thread is doing
    calls,      \* calls made so far
    direct,     \* history: the direct pins the threads hold on each CID
    recursive   \* history: the recursive pins they hold

pvars == <<pins, call, calls, direct, recursive>>

NoPin == [type |-> "none", count |-> -1]

Idle == [at |-> "idle"]

At(t, step) == call[t].at = step

IsPinned(c) == pins[c] # NoPin

SpInit ==
    /\ pins = [c \in Cids |-> NoPin]
    /\ call = [t \in Threads |-> Idle] /\ calls = 0
    /\ direct = [c \in Cids |-> 0] /\ recursive = [c \in Cids |-> 0]

\* A thread begins a call.
Call(t, state) ==
    /\ At(t, "idle") /\ calls < MaxCalls
    /\ calls' = calls + 1
    /\ call' = [call EXCEPT ![t] = state]

Goes(t, state) == call' = [call EXCEPT ![t] = state] /\ UNCHANGED calls

--------------------------------------------------------------------------------
(* Pinning.                                                                    *)

\* pin_with_type and pin_indirect: one more reference, or a new entry.  A direct pin
\* becomes recursive; an indirect one stays what it is.
PinEntry(c, type) ==
    pins' = [pins EXCEPT ![c] =
        IF @ = NoPin THEN [type |-> type, count |-> 1]
        ELSE [type |-> IF type = "Recursive" /\ @.type = "Direct" THEN type ELSE @.type,
              count |-> @.count + 1]]

Pin(t, c) ==
    /\ Call(t, Idle)
    /\ PinEntry(c, "Direct")
    /\ direct' = [direct EXCEPT ![c] = @ + 1]
    /\ UNCHANGED recursive

\* pin_recursive pins the root, and then, one by one, the links of each block it has
\* pinned.
PinRecursive(t, r) ==
    /\ Call(t, [at |-> "pin", root |-> r, links |-> {}, todo |-> {r}, seen |-> {r}])
    /\ PinEntry(r, "Recursive")
    /\ UNCHANGED <<direct, recursive>>

\* The link resolver answers for the next block, or fails: the call returns an error
\* and what it has pinned so far stays pinned.  With nothing left to follow the call
\* returns.
ResolveLinks(t, c) ==
    /\ At(t, "pin") /\ call[t].links = {} /\ c \in call[t].todo
    /\ LET links == Links[c] \ call[t].seen
           done == links = {} /\ call[t].todo = {c}
       IN  /\ Goes(t, IF done THEN Idle
                      ELSE [call[t] EXCEPT !.links = links, !.seen = @ \cup links,
                                           !.todo = @ \ {c}])
           /\ recursive' = IF done THEN [recursive EXCEPT ![call[t].root] = @ + 1]
                           ELSE recursive
    /\ UNCHANGED <<pins, direct>>

ResolveFails(t) ==
    /\ At(t, "pin") /\ call[t].links = {} /\ call[t].todo # {}
    /\ Goes(t, Idle)
    /\ UNCHANGED <<pins, direct, recursive>>

\* Mutant: a link that is pinned already is taken for done.
PinLinkOnce(t, c) ==
    /\ At(t, "pin") /\ c \in call[t].links
    /\ IF IsPinned(c) THEN UNCHANGED pins ELSE PinEntry(c, "Indirect")
    /\ Goes(t, [call[t] EXCEPT !.links = @ \ {c}, !.todo = @ \cup {c}])
    /\ UNCHANGED <<direct, recursive>>

PinLink(t, c) ==
    /\ At(t, "pin") /\ c \in call[t].links
    /\ PinEntry(c, "Indirect")
    /\ Goes(t, [call[t] EXCEPT !.links = @ \ {c}, !.todo = @ \cup {c}])
    /\ UNCHANGED <<direct, recursive>>

--------------------------------------------------------------------------------
(* Unpinning.                                                                  *)

\* unpin and unpin_recursive walk over todo; unpin is the walk over one CID.
Unpin(t, c) ==
    /\ direct[c] > 0
    /\ Call(t, [at |-> "unpin", todo |-> {c}, seen |-> {}, deep |-> FALSE])
    /\ direct' = [direct EXCEPT ![c] = @ - 1]
    /\ UNCHANGED <<pins, recursive>>

UnpinRecursive(t, r) ==
    /\ recursive[r] > 0
    /\ Call(t, [at |-> "unpin", todo |-> {r}, seen |-> {}, deep |-> TRUE])
    /\ recursive' = [recursive EXCEPT ![r] = @ - 1]
    /\ UNCHANGED <<pins, direct>>

\* The links of a block that was unpinned are walked too; a resolver that fails is
\* passed over.  With nothing left to walk the call returns.
Onward(t, c, links) ==
    LET seen == call[t].seen \cup {c}
        todo == (call[t].todo \cup (IF call[t].deep THEN links ELSE {})) \ seen
    IN  IF todo = {} THEN Idle
        ELSE [at |-> "unpin", deep |-> call[t].deep, seen |-> seen, todo |-> todo]

\* Mutant: the entry goes whatever its count.
RemovesAny(c) == IsPinned(c)

\* remove_if takes the entry away when this is the last reference.
Removes(c) == IsPinned(c) /\ pins[c].count <= 1

\* remove_if: the entry goes, or a second step looks at it again.
UnpinTest(t, c) ==
    /\ At(t, "unpin") /\ c \in call[t].todo
    /\ IF Removes(c)
       THEN /\ \E links \in {Links[c], {}} : Goes(t, Onward(t, c, links))
            /\ pins' = [pins EXCEPT ![c] = NoPin]
       ELSE /\ Goes(t, [at |-> "decrement", cid |-> c, todo |-> call[t].todo \ {c},
                        seen |-> call[t].seen, deep |-> call[t].deep])
            /\ UNCHANGED pins
    /\ UNCHANGED <<direct, recursive>>

\* get_mut: the count falls if the entry is still there.
UnpinDecrement(t) ==
    /\ At(t, "decrement")
    /\ LET c == call[t].cid
       IN  /\ pins' = IF IsPinned(c) THEN [pins EXCEPT ![c].count = @ - 1] ELSE pins
           /\ \E links \in {Links[c], {}} : Goes(t, Onward(t, c, links))
    /\ UNCHANGED <<direct, recursive>>

PinStep(t) ==
    \/ \E c \in Cids :
        \/ Pin(t, c) \/ PinRecursive(t, c) \/ Unpin(t, c) \/ UnpinRecursive(t, c)
        \/ ResolveLinks(t, c) \/ PinLink(t, c) \/ UnpinTest(t, c)
    \/ ResolveFails(t) \/ UnpinDecrement(t)

SpNext == \E t \in Threads : PinStep(t)

SpSpec == SpInit /\ [][SpNext]_pvars

--------------------------------------------------------------------------------
(* Properties.                                                                 *)

Pins == [type : {"Direct", "Recursive", "Indirect"}, count : Nat]

Calls ==
    [at : {"idle"}]
    \cup [at : {"pin"}, root : Cids, links : SUBSET Cids, todo : SUBSET Cids, seen : SUBSET Cids]
    \cup [at : {"unpin"}, todo : SUBSET Cids, seen : SUBSET Cids, deep : BOOLEAN]
    \cup [at : {"decrement"}, cid : Cids, todo : SUBSET Cids, seen : SUBSET Cids, deep : BOOLEAN]

\* The types of the map, of the calls under way and of the counts of pins held; no count
\* is ever below zero.
SpTypeOK ==
    /\ pins \in [Cids -> Pins \cup {NoPin}]
    /\ call \in [Threads -> Calls] /\ calls \in Nat
    /\ direct \in [Cids -> Nat] /\ recursive \in [Cids -> Nat]

\* c and everything below it: what every set of blocks has that has c and, with a block,
\* its links.
LinkClosed == {S \in SUBSET Cids : \A c \in S : Links[c] \subseteq S}
Below(c) == {d \in Cids : \A S \in LinkClosed : c \in S => d \in S}

\* Whoever holds a pin finds it there: no interleaving of the two steps of unpin with
\* other pins and unpins takes away the entry of a block that is held directly, or
\* that lies below a block held recursively.
HeldIsPinned ==
    \A c \in Cids :
        direct[c] > 0 \/ (\E r \in Cids : recursive[r] > 0 /\ c \in Below(r))
        => IsPinned(c)

\* Between the two steps of unpin the entry keeps the reference that is being
\* released: nobody removes the entry meanwhile, so that the second step would meet the
\* pin of somebody else, and the count does not wrap below zero.
ReferenceIsKept ==
    \A t \in Threads : At(t, "decrement") => pins[call[t].cid].count >= 1
================================================================================
