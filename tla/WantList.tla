-------------------------------- MODULE WantList --------------------------------
(***************************************************************************)
(* The priority want list of ipfrs-transport (want_list.rs): a hash map of *)
(* wants and a binary heap ordering them.  Neither a removal nor a change  *)
(* of priority touches the heap: the old heap entry stays behind and is    *)
(* recognised as stale, when a pop meets it, by its version number.        *)
(*                                                                         *)
(* ConcurrentWantList takes its one lock around each call, so a call is    *)
(* one atomic step here.  Time is a clock that advances between calls.     *)
(***************************************************************************)
EXTENDS Integers, FiniteSets

CONSTANTS
    Cids,          \* content identifiers
    Priorities,    \* the priorities callers ask for (i32)
    MaxWants,      \* WantListConfig::max_wants
    Timeout,       \* the timeout of a want
    Deadlines,     \* the deadlines callers set (Instant)
    UrgentWindow,  \* less than this before the deadline a want is Urgent (1s)
    HighWindow,    \* less than this before the deadline a want is High (5s)
    MaxBatch,      \* bound: calls in one batch operation
    MaxVersion,    \* bound: version_counter
    MaxAttempts,   \* bound: retry_count
    MaxTime,       \* bound: the clock
    Nil            \* "no want", "no deadline", "pop found nothing"

\* enum Priority
High     == 100
Urgent   == 200
Critical == 300

ASSUME ConstantsAssumption ==
    /\ Priorities \subseteq Int
    /\ MaxWants \in Nat
    /\ Timeout \in Nat
    /\ Deadlines \subseteq Nat
    /\ UrgentWindow \in Nat /\ HighWindow \in Nat /\ UrgentWindow <= HighWindow
    /\ MaxBatch \in Nat /\ MaxVersion \in Nat /\ MaxAttempts \in Nat /\ MaxTime \in Nat
    /\ IsFiniteSet(Cids)
    /\ Nil \notin Cids /\ Nil \notin Int

\* struct WantEntry with the version `entries` keeps beside it.
Entry == [priority : Int, created : Nat, expires : Nat, deadline : Nat \cup {Nil},
          retries : Nat, version : Nat]

HeapEntry == [cid : Cids, priority : Int, created : Nat, version : Nat]

ASSUME NilAssumption == Nil \notin Entry /\ Nil \notin [priority : Int, created : Nat]

VARIABLES
    entries,         \* cid -> WantEntry, Nil when the CID is not wanted
    heap,            \* the heap entries, live and stale; versions tell them apart
    versionCounter,  \* version_counter
    now,             \* Instant::now()
    result           \* of the last call: <<"pop", cid or Nil>>, or <<"other">>

vars == <<entries, heap, versionCounter, now, result>>

Wanted == {c \in Cids : entries[c] # Nil}

Larger(a, b) == IF a >= b THEN a ELSE b

\* Mutant: the deadline overrides the requested priority, max() forgotten.
EffectivePriorityNoMax(e, t) ==
    IF e.deadline = Nil THEN e.priority
    ELSE IF t >= e.deadline THEN Critical
    ELSE IF e.deadline - t < UrgentWindow THEN Urgent
    ELSE IF e.deadline - t < HighWindow THEN High
    ELSE e.priority

\* WantEntry::effective_priority at time t.
EffectivePriority(e, t) ==
    IF e.deadline = Nil THEN e.priority
    ELSE IF t >= e.deadline THEN Larger(e.priority, Critical)
    ELSE IF e.deadline - t < UrgentWindow THEN Larger(e.priority, Urgent)
    ELSE IF e.deadline - t < HighWindow THEN Larger(e.priority, High)
    ELSE e.priority

IsExpired(e) == now >= e.expires

\* HeapEntry::cmp: h is strictly greater than g.
Above(h, g) ==
    \/ h.priority > g.priority
    \/ h.priority = g.priority /\ h.created < g.created

\* Mutant: pop() only checks that the CID is still wanted.
IsLiveUnversioned(h) == entries[h.cid] # Nil

\* The version check of pop(): the heap entry speaks for a want in `entries`.
IsLive(h) == entries[h.cid] # Nil /\ entries[h.cid].version = h.version

Init ==
    /\ entries = [c \in Cids |-> Nil]
    /\ heap = {}
    /\ versionCounter = 0
    /\ now = 0
    /\ result = <<"other">>

--------------------------------------------------------------------------------
(* Adding.  A batch of adds leaves behind the adds that were accepted: calls   *)
(* for a wanted CID, and calls on a full list, return false and change nothing. *)

\* Mutant: the map records the version after the one pushed on the heap.
NewEntryNextVersion(p, created, deadline, version) ==
    [priority |-> p, created |-> created, expires |-> created + Timeout,
     deadline |-> deadline, retries |-> 0, version |-> version + 1]

\* WantEntry::new, with_deadline.
NewEntry(p, created, deadline, version) ==
    [priority |-> p, created |-> created, expires |-> created + Timeout,
     deadline |-> deadline, retries |-> 0, version |-> version]

\* The capacity check of add(), for n adds in a row.
HasRoom(n) == Cardinality(Wanted) + n <= MaxWants

\* add(), n times: the i-th accepted want is added[i] = [cid, priority, created, deadline].
AddAll(n, added) ==
    LET new(i) == NewEntry(added[i].priority, added[i].created, added[i].deadline,
                           versionCounter + i)
        at(c)  == CHOOSE i \in 1..n : added[i].cid = c
    IN  /\ \A i \in 1..n : added[i].cid \notin Wanted
        /\ \A i, j \in 1..n : added[i].cid = added[j].cid => i = j
        /\ HasRoom(n)
        /\ versionCounter + n <= MaxVersion
        /\ entries' = [c \in Cids |-> IF \E i \in 1..n : added[i].cid = c
                                      THEN new(at(c)) ELSE entries[c]]
        /\ heap' = heap \cup {[cid |-> added[i].cid,
                               priority |-> EffectivePriority(new(i), now),
                               created |-> added[i].created,
                               version |-> versionCounter + i] : i \in 1..n}
        /\ versionCounter' = versionCounter + n
        /\ result' = <<"other">>
        /\ UNCHANGED now

\* add(entry): the caller made the entry, now or earlier, with or without a deadline.
Add(c, p, created, deadline) ==
    AddAll(1, [i \in 1..1 |-> [cid |-> c, priority |-> p, created |-> created,
                               deadline |-> deadline]])

\* add_batch, add_batch_same_priority and, for n = 1, add_simple.
AddBatch(n, cids, priorities) ==
    AddAll(n, [i \in 1..n |-> [cid |-> cids[i], priority |-> priorities[i],
                               created |-> now, deadline |-> Nil]])

--------------------------------------------------------------------------------
(* Changing priority: update_priority, n times.  ups[i] = [cid, priority] is    *)
(* the i-th update of a wanted CID (others return false and change nothing).    *)
(* Each one pushes a heap entry with a fresh version; for a CID updated several *)
(* times the last one is live.                                                  *)

LastUpdate(n, ups, c) ==
    CHOOSE i \in 1..n : ups[i].cid = c /\ \A j \in 1..n : ups[j].cid = c => j <= i

ApplyUpdates(n, ups) ==
    LET last(c) == LastUpdate(n, ups, c)
    IN  /\ versionCounter + n <= MaxVersion
        /\ entries' = [c \in Cids |->
                          IF \E i \in 1..n : ups[i].cid = c
                          THEN [entries[c] EXCEPT !.priority = ups[last(c)].priority,
                                                  !.version = versionCounter + last(c)]
                          ELSE entries[c]]
        /\ heap' = heap \cup {[cid |-> ups[i].cid, priority |-> ups[i].priority,
                               created |-> entries[ups[i].cid].created,
                               version |-> versionCounter + i] : i \in 1..n}
        /\ versionCounter' = versionCounter + n
        /\ result' = <<"other">>
        /\ UNCHANGED now

\* update_priorities_batch and, for n = 1, update_priority.
UpdatePriorities(n, cids, priorities) ==
    /\ \A i \in 1..n : cids[i] \in Wanted
    /\ ApplyUpdates(n, [i \in 1..n |-> [cid |-> cids[i], priority |-> priorities[i]]])

\* Mutant: a want whose deadline has passed is no longer raised.
DueNotOverdue == {c \in Wanted : /\ EffectivePriority(entries[c], now) > entries[c].priority
                                 /\ now < entries[c].deadline}

\* The wants boost_deadline_priorities raises, and how many updates it queues for each.
Due == {c \in Wanted : EffectivePriority(entries[c], now) > entries[c].priority}

Overdue == {c \in Wanted : /\ entries[c].deadline # Nil
                           /\ now >= entries[c].deadline
                           /\ entries[c].priority < Critical}

Pushes(c) == IF c \in Overdue THEN 2 ELSE 1

\* boost_deadline_priorities: `order` is the iteration order of the hash map, an
\* overdue want contributing two updates in a row (both with Critical).
Boost(n, order) ==
    /\ n = Cardinality(Due) + Cardinality(Due \cap Overdue)
    /\ \A c \in Due : \E i \in 1..n :
          {j \in 1..n : order[j] = c} = i .. (i + Pushes(c) - 1)
    /\ ApplyUpdates(n, [i \in 1..n |->
          [cid |-> order[i], priority |-> EffectivePriority(entries[order[i]], now)]])

--------------------------------------------------------------------------------
(* Removing.  The heap keeps the entries of the removed wants.                  *)

Drop(S) ==
    /\ entries' = [c \in Cids |-> IF c \in S THEN Nil ELSE entries[c]]
    /\ result' = <<"other">>
    /\ UNCHANGED <<heap, versionCounter, now>>

\* remove, remove_batch.
Remove(S) == Drop(S)

\* cleanup_expired.
CleanupExpired == Drop({c \in Wanted : IsExpired(entries[c])})

\* clear: the version counter is not reset.
Clear ==
    /\ entries' = [c \in Cids |-> Nil]
    /\ heap' = {}
    /\ result' = <<"other">>
    /\ UNCHANGED <<versionCounter, now>>

\* pop: discard stale heap entries from the top until a live one comes up.
\* Entries that tie with the live one come out in an order the heap does not define,
\* so any of those that are stale may have been discarded before it.
Pop(h) ==
    /\ h \in heap /\ IsLive(h)
    /\ \A g \in heap : IsLive(g) => ~ Above(g, h)
    /\ \E ties \in SUBSET {g \in heap : ~ IsLive(g) /\ ~ Above(g, h) /\ ~ Above(h, g)} :
          heap' = {g \in heap : ~ Above(g, h) /\ g # h /\ g \notin ties}
    /\ entries' = [entries EXCEPT ![h.cid] = Nil]
    /\ result' = <<"pop", h.cid>>
    /\ UNCHANGED <<versionCounter, now>>

\* pop on a heap with nothing live empties it and returns None.
PopNone ==
    /\ \A g \in heap : ~ IsLive(g)
    /\ heap' = {}
    /\ result' = <<"pop", Nil>>
    /\ UNCHANGED <<entries, versionCounter, now>>

\* mark_attempted.
MarkAttempted(c) ==
    /\ c \in Wanted
    /\ entries[c].retries < MaxAttempts
    /\ entries' = [entries EXCEPT ![c].retries = @ + 1]
    /\ result' = <<"other">>
    /\ UNCHANGED <<heap, versionCounter, now>>

Tick ==
    /\ now < MaxTime
    /\ now' = now + 1
    /\ UNCHANGED <<entries, heap, versionCounter, result>>

--------------------------------------------------------------------------------

AddSome ==
    \/ \E c \in Cids, p \in Priorities, t \in 0..now, d \in Deadlines \cup {Nil} :
          Add(c, p, t, d)
    \/ \E n \in 1..MaxBatch :
          \E cids \in [1..n -> Cids], ps \in [1..n -> Priorities] : AddBatch(n, cids, ps)

UpdateSome ==
    \E n \in 1..MaxBatch :
        \E cids \in [1..n -> Wanted], ps \in [1..n -> Priorities] :
            UpdatePriorities(n, cids, ps)

BoostSome ==
    \E n \in 0..(2 * Cardinality(Cids)) :
        \E order \in [1..n -> Due] : Boost(n, order)

RemoveSome == \E S \in SUBSET Wanted : Remove(S)

PopSome == \E h \in heap : Pop(h)

AttemptSome == \E c \in Cids : MarkAttempted(c)

Next ==
    \/ AddSome
    \/ UpdateSome
    \/ BoostSome
    \/ RemoveSome
    \/ CleanupExpired
    \/ Clear
    \/ PopSome
    \/ PopNone
    \/ AttemptSome
    \/ Tick

Spec == Init /\ [][Next]_vars
--------------------------------------------------------------------------------
(* Properties.                                                                  *)

\* The types of the five variables of struct WantList, its clock and its answers.
TypeOK ==
    /\ entries \in [Cids -> Entry \cup {Nil}]
    /\ heap \subseteq HeapEntry
    /\ versionCounter \in Nat
    /\ now \in Nat
    /\ result = <<"other">> \/ \E c \in Cids \cup {Nil} : result = <<"pop", c>>

\* Lazy deletion never loses a want: whatever was added, updated, boosted and popped
\* before, each want of the map still has the heap entry by which pop() will find it.
NoLostWant == \A c \in Wanted : \E h \in heap : h.cid = c /\ IsLive(h)

\* The heap schedules the want that is in the map and no earlier want for the same CID:
\* a live heap entry has the age of its want, and its priority lies between the want's
\* own priority and the one its deadline has earned by now.
ScheduleFaithful ==
    \A h \in heap : IsLive(h) =>
        LET e == entries[h.cid]
        IN  /\ h.created = e.created
            /\ e.priority <= h.priority
            /\ h.priority <= EffectivePriority(e, now)

\* Single adds and batches together never hold more wants than max_wants.
WithinCapacity == Cardinality(Wanted) <= MaxWants

\* Every want is scheduled at exactly the priority its deadline has earned.
Synchronised ==
    \A h \in heap : IsLive(h) => h.priority = EffectivePriority(entries[h.cid], now)

\* boost_deadline_priorities leaves no want behind: after it the next pop is the want
\* whose effective priority is highest, which is also what peek() shows.
BoostSynchronises == [][BoostSome => Synchronised']_vars

\* The place each want holds, as its live heap entry gives it.
PlaceOf(c) ==
    IF c \notin Wanted \/ ~ \E h \in heap : h.cid = c /\ IsLive(h) THEN Nil
    ELSE LET h == CHOOSE g \in heap : g.cid = c /\ IsLive(g)
         IN  [priority |-> h.priority, created |-> h.created]

Places == [c \in Cids |-> PlaceOf(c)]

Answer == IF result = <<"other">> THEN "other" ELSE result[2]

Queue == INSTANCE WantQueue WITH
    Capacity <- MaxWants, Vacant <- Nil, Empty <- Nil, Silent <- "other",
    place <- Places, answer <- Answer

\* The heap with its stale entries and versions behaves like the plain priority queue of
\* WantQueue: pop() returns a want no other want precedes, and None only when empty.
ImplementsQueue == Queue!QSpec
=================================================================================
