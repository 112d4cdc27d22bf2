----------------------------- MODULE WantListProofs -----------------------------
(***************************************************************************)
(* Proofs about WantList, for any CIDs, priorities, windows and bounds.    *)
(***************************************************************************)
EXTENDS WantList, FiniteSetTheorems, WellFoundedInduction, TLAPS

\* Nothing in the list carries a version that was not handed out yet, so the next
\* version tells a fresh heap entry from every old one.
VersionsIssued ==
    /\ \A h \in heap : h.version <= versionCounter
    /\ \A c \in Wanted : entries[c].version <= versionCounter

\* The inductive invariant.
IInv == TypeOK /\ VersionsIssued /\ NoLostWant /\ ScheduleFaithful /\ WithinCapacity

USE DEF High, Urgent, Critical

--------------------------------------------------------------------------------
(* Effective priority.                                                          *)

\* effective_priority() never falls below the priority asked for.
LEMMA EffectiveAtLeast ==
    ASSUME NEW e \in Entry, NEW t \in Nat
    PROVE  /\ EffectivePriority(e, t) \in Int
           /\ e.priority <= EffectivePriority(e, t)
BY DEF EffectivePriority, Larger, Entry

\* As time passes effective_priority() only grows.
LEMMA EffectiveMonotone ==
    ASSUME NEW e \in Entry, NEW t \in Nat, NEW u \in Nat, t <= u
    PROVE  EffectivePriority(e, t) <= EffectivePriority(e, u)
BY ConstantsAssumption DEF EffectivePriority, Larger, Entry

\* effective_priority() reads only the priority and the deadline.
LEMMA EffectiveReads ==
    ASSUME NEW e, NEW f, NEW t, e.priority = f.priority, e.deadline = f.deadline
    PROVE  EffectivePriority(e, t) = EffectivePriority(f, t)
BY DEF EffectivePriority

\* Raising a want to its effective priority leaves its effective priority as it was.
LEMMA EffectiveIdempotent ==
    ASSUME NEW e \in Entry, NEW f \in Entry, NEW t \in Nat,
           f.priority = EffectivePriority(e, t), f.deadline = e.deadline
    PROVE  EffectivePriority(f, t) = EffectivePriority(e, t)
BY DEF EffectivePriority, Larger, Entry

--------------------------------------------------------------------------------
(* Sequences of updates.                                                        *)

\* A non-empty set of positions has a last one.
LEMMA LastExists ==
    ASSUME NEW n \in Nat, NEW S \in SUBSET (1..n), S # {}
    PROVE  \E i \in S : \A j \in S : j <= i
<1> DEFINE T == {n - i : i \in S}
<1>1. T \subseteq Nat /\ T # {}
  <2>1. T \subseteq Nat  OBVIOUS
  <2>2. PICK k \in S : TRUE  OBVIOUS
  <2>3. n - k \in T  OBVIOUS
  <2> QED BY <2>1, <2>3
<1>2. PICK x \in T : \A y \in T : ~ (<<y, x>> \in OpToRel(<, Nat))
  <2> HIDE DEF T
  <2> QED BY <1>1, NatLessThanWellFounded, WFMin
<1>3. \A y \in T : ~ (y < x)
  BY <1>1, <1>2 DEF OpToRel
<1>4. PICK i \in S : x = n - i
  OBVIOUS
<1>5. \A j \in S : j <= i
  <2> SUFFICES ASSUME NEW j \in S PROVE j <= i  OBVIOUS
  <2>1. n - j \in T  OBVIOUS
  <2>2. ~ (n - j < n - i)  BY <2>1, <1>3, <1>4
  <2> QED BY <2>2
<1> QED BY <1>5

\* LastUpdate(n, ups, c) is the last position at which ups names c.
LEMMA LastUpdateIs ==
    ASSUME NEW n \in Nat, NEW ups, NEW c, \E i \in 1..n : ups[i].cid = c
    PROVE  /\ LastUpdate(n, ups, c) \in 1..n
           /\ ups[LastUpdate(n, ups, c)].cid = c
<1> DEFINE S == {i \in 1..n : ups[i].cid = c}
<1>1. \E i \in S : \A j \in S : j <= i
  <2>1. S \in SUBSET (1..n) /\ S # {}  OBVIOUS
  <2> HIDE DEF S
  <2> QED BY <2>1, LastExists
<1>2. \E i \in 1..n : ups[i].cid = c /\ \A j \in 1..n : ups[j].cid = c => j <= i
  BY <1>1
<1> QED BY <1>2 DEF LastUpdate

--------------------------------------------------------------------------------
(* Every call preserves the inductive invariant.                                *)

\* The wants a call of add() or add_batch() brings.
Added(n) == [1..n -> [cid : Cids, priority : Int, created : Nat, deadline : Nat \cup {Nil}]]

\* A batch of adds that AddAll accepts keeps the list within max_wants.
LEMMA AddAllCapacity ==
    ASSUME NEW n \in Nat, NEW added \in Added(n), AddAll(n, added)
    PROVE  WithinCapacity'
<1> DEFINE Img == {added[i].cid : i \in 1..n}
           f == [i \in 1..n |-> added[i].cid]
<1>1. IsFiniteSet(Img) /\ Cardinality(Img) <= n
  <2>1. f \in Surjection(1..n, Img)
    BY DEF Surjection
  <2>2. IsFiniteSet(1..n) /\ Cardinality(1..n) = n
    BY FS_Interval
  <2> HIDE DEF Img, f
  <2> QED BY <2>1, <2>2, FS_Surjection
<1>2. IsFiniteSet(Wanted) /\ Wanted \subseteq Cids
  BY FS_Subset, ConstantsAssumption DEF Wanted
<1>3. Wanted' \subseteq Wanted \cup Img
  BY DEF AddAll, Wanted
<1>4. IsFiniteSet(Wanted \cup Img) /\ Cardinality(Wanted \cup Img) <= Cardinality(Wanted) + n
  <2> HIDE DEF Img
  <2>1. Cardinality(Wanted \cap Img) \in Nat
    BY <1>1, <1>2, FS_Intersection, FS_CardinalityType
  <2>2. /\ IsFiniteSet(Wanted \cup Img)
        /\ Cardinality(Wanted \cup Img)
             = Cardinality(Wanted) + Cardinality(Img) - Cardinality(Wanted \cap Img)
    BY <1>1, <1>2, FS_Union
  <2>3. Cardinality(Wanted) \in Nat /\ Cardinality(Img) \in Nat
    BY <1>1, <1>2, FS_CardinalityType
  <2> QED BY <1>1, <2>1, <2>2, <2>3
<1>5. Cardinality(Wanted') <= Cardinality(Wanted) + n
  <2> HIDE DEF Img
  <2>1. IsFiniteSet(Wanted') /\ Cardinality(Wanted') <= Cardinality(Wanted \cup Img)
    BY <1>3, <1>4, FS_Subset
  <2>2. Cardinality(Wanted') \in Nat /\ Cardinality(Wanted \cup Img) \in Nat /\ Cardinality(Wanted) \in Nat
    BY <2>1, <1>2, <1>4, FS_CardinalityType
  <2> QED BY <2>1, <2>2, <1>4
<1>6. Cardinality(Wanted) + n <= MaxWants
  BY DEF AddAll, HasRoom
<1>7. Cardinality(Wanted) \in Nat /\ Cardinality(Wanted') \in Nat
  <2>1. Wanted' \subseteq Cids  BY DEF Wanted
  <2> QED BY <1>2, <2>1, FS_Subset, FS_CardinalityType, ConstantsAssumption
<1> QED BY <1>5, <1>6, <1>7, ConstantsAssumption DEF WithinCapacity

LEMMA AddAllPreserves ==
    ASSUME IInv, NEW n \in Nat, NEW added \in Added(n), AddAll(n, added)
    PROVE  IInv'
<1> DEFINE new(i) == NewEntry(added[i].priority, added[i].created, added[i].deadline,
                              versionCounter + i)
           hp(i) == [cid |-> added[i].cid, priority |-> EffectivePriority(new(i), now),
                     created |-> added[i].created, version |-> versionCounter + i]
<1>1. \A i \in 1..n : new(i) \in Entry
  BY ConstantsAssumption DEF IInv, TypeOK, NewEntry, Entry, Added
<1>2. \A i \in 1..n : hp(i) \in HeapEntry
  <2> SUFFICES ASSUME NEW i \in 1..n PROVE hp(i) \in HeapEntry  OBVIOUS
  <2>1. EffectivePriority(new(i), now) \in Int
    <3> HIDE DEF new
    <3> QED BY <1>1, EffectiveAtLeast DEF IInv, TypeOK
  <2> HIDE DEF new
  <2> QED BY <2>1 DEF IInv, TypeOK, HeapEntry, Added
<1>3. \A i \in 1..n : added[i].cid \in Cids /\ entries'[added[i].cid] = new(i)
  <2> SUFFICES ASSUME NEW i \in 1..n
               PROVE  added[i].cid \in Cids /\ entries'[added[i].cid] = new(i)
    OBVIOUS
  <2>1. (CHOOSE j \in 1..n : added[j].cid = added[i].cid) = i
    BY DEF AddAll
  <2> QED BY <2>1 DEF AddAll, Added
<1>4. \A c \in Cids : (\A i \in 1..n : added[i].cid # c) => entries'[c] = entries[c]
  BY DEF AddAll
<1>5. heap' = heap \cup {hp(i) : i \in 1..n}
  BY DEF AddAll
<1>6. versionCounter' = versionCounter + n /\ now' = now /\ result' = <<"other">>
  BY DEF AddAll
<1>7. \A i \in 1..n : new(i) # Nil /\ new(i).version = versionCounter + i
  BY <1>1, NilAssumption DEF NewEntry
<1>8. TypeOK'
  <2>1. entries' \in [Cids -> Entry \cup {Nil}]
    <3>1. entries' = [c \in Cids |-> entries'[c]]
      BY DEF AddAll
    <3>2. ASSUME NEW c \in Cids PROVE entries'[c] \in Entry \cup {Nil}
      BY <1>1, <1>3, <1>4 DEF IInv, TypeOK
    <3> QED BY <3>1, <3>2
  <2> QED BY <2>1, <1>2, <1>5, <1>6 DEF IInv, TypeOK
<1>9. VersionsIssued'
  <2>1. ASSUME NEW h \in heap' PROVE h.version <= versionCounter'
    BY <1>5, <1>6 DEF IInv, VersionsIssued, TypeOK, HeapEntry
  <2>2. ASSUME NEW c \in Wanted' PROVE entries'[c].version <= versionCounter'
    <3>1. CASE \E i \in 1..n : added[i].cid = c
      BY <3>1, <1>3, <1>6, <1>7 DEF IInv, TypeOK
    <3>2. CASE \A i \in 1..n : added[i].cid # c
      BY <3>2, <1>4, <1>6 DEF IInv, TypeOK, VersionsIssued, Wanted, Entry
    <3> QED BY <3>1, <3>2
  <2> QED BY <2>1, <2>2 DEF VersionsIssued
<1>10. NoLostWant'
  <2> SUFFICES ASSUME NEW c \in Cids, entries'[c] # Nil
               PROVE  \E h \in heap' : h.cid = c /\ IsLive(h)'
    BY DEF NoLostWant, Wanted
  <2>1. CASE \E i \in 1..n : added[i].cid = c
    <3>1. PICK i \in 1..n : added[i].cid = c  BY <2>1
    <3>2. hp(i) \in heap' /\ hp(i).cid = c /\ hp(i).version = versionCounter + i
      BY <3>1, <1>5
    <3> QED BY <3>1, <3>2, <1>3, <1>7 DEF IsLive
  <2>2. CASE \A i \in 1..n : added[i].cid # c
    BY <2>2, <1>4, <1>5 DEF IInv, NoLostWant, IsLive, Wanted
  <2> QED BY <2>1, <2>2
<1>11. ScheduleFaithful'
  <2> SUFFICES ASSUME NEW h \in heap', IsLive(h)'
               PROVE  /\ h.created = entries'[h.cid].created
                      /\ entries'[h.cid].priority <= h.priority
                      /\ h.priority <= EffectivePriority(entries'[h.cid], now')
    BY DEF ScheduleFaithful, EffectivePriority
  <2>1. CASE h \in heap
    <3>1. ASSUME NEW i \in 1..n, added[i].cid = h.cid PROVE FALSE
      BY <2>1, <3>1, <1>3, <1>7 DEF IInv, VersionsIssued, IsLive, TypeOK, HeapEntry
    <3>2. entries'[h.cid] = entries[h.cid] /\ IsLive(h)
      BY <2>1, <3>1, <1>4 DEF IInv, TypeOK, HeapEntry, IsLive
    <3> QED BY <2>1, <3>2, <1>6 DEF IInv, ScheduleFaithful
  <2>2. CASE \E i \in 1..n : h = hp(i)
    <3>1. PICK i \in 1..n : h = hp(i)  BY <2>2
    <3>2. entries'[h.cid] = new(i)  BY <3>1, <1>3
    <3>3. h.created = new(i).created  BY <3>1 DEF NewEntry
    <3>4. h.priority = EffectivePriority(new(i), now)  BY <3>1
    <3> QED BY <3>2, <3>3, <3>4, <1>1, <1>6, EffectiveAtLeast DEF IInv, TypeOK
  <2> QED BY <2>1, <2>2, <1>5
<1> QED BY <1>8, <1>9, <1>10, <1>11, AddAllCapacity DEF IInv

\* A batch of updates of wanted CIDs.
Updates(n) == [1..n -> [cid : Wanted, priority : Int]]

\* After a batch of updates exactly the last update of each CID is live.
LEMMA ApplyUpdatesPreserves ==
    ASSUME IInv, NEW n \in Nat, NEW ups \in Updates(n), ApplyUpdates(n, ups)
    PROVE  IInv'
<1> DEFINE last(c) == LastUpdate(n, ups, c)
           hp(i) == [cid |-> ups[i].cid, priority |-> ups[i].priority,
                     created |-> entries[ups[i].cid].created,
                     version |-> versionCounter + i]
           Hit(c) == \E i \in 1..n : ups[i].cid = c
<1>1. \A i \in 1..n : /\ ups[i].cid \in Cids /\ ups[i].priority \in Int
                      /\ entries[ups[i].cid] \in Entry
  BY DEF Updates, Wanted, IInv, TypeOK
<1>2. \A c \in Cids : Hit(c) =>
          /\ last(c) \in 1..n /\ ups[last(c)].cid = c
          /\ entries'[c] = [entries[c] EXCEPT !.priority = ups[last(c)].priority,
                                              !.version = versionCounter + last(c)]
  BY LastUpdateIs DEF ApplyUpdates
<1>3. \A c \in Cids : ~ Hit(c) => entries'[c] = entries[c]
  BY DEF ApplyUpdates
<1>4. heap' = heap \cup {hp(i) : i \in 1..n}
  BY DEF ApplyUpdates
<1>5. versionCounter' = versionCounter + n /\ now' = now /\ result' = <<"other">>
  BY DEF ApplyUpdates
<1>6. \A i \in 1..n : hp(i) \in HeapEntry
  BY <1>1 DEF HeapEntry, Entry, IInv, TypeOK
<1>7. \A c \in Cids : Hit(c) =>
          /\ entries'[c] \in Entry
          /\ entries'[c].priority = ups[last(c)].priority
          /\ entries'[c].version = versionCounter + last(c)
          /\ entries'[c].created = entries[c].created
          /\ entries'[c].deadline = entries[c].deadline
  <2> SUFFICES ASSUME NEW c \in Cids, Hit(c)
               PROVE  /\ entries'[c] \in Entry
                      /\ entries'[c].priority = ups[last(c)].priority
                      /\ entries'[c].version = versionCounter + last(c)
                      /\ entries'[c].created = entries[c].created
                      /\ entries'[c].deadline = entries[c].deadline
    OBVIOUS
  <2>1. last(c) \in 1..n /\ ups[last(c)].cid = c  BY <1>2
  <2>2. entries[c] \in Entry /\ ups[last(c)].priority \in Int  BY <2>1, <1>1
  <2>3. versionCounter + last(c) \in Nat  BY <2>1 DEF IInv, TypeOK
  <2> HIDE DEF last
  <2> QED BY <2>2, <2>3, <1>2 DEF Entry
<1> HIDE DEF last
<1>8. TypeOK'
  <2>1. entries' \in [Cids -> Entry \cup {Nil}]
    <3>1. entries' = [c \in Cids |-> entries'[c]]
      BY DEF ApplyUpdates
    <3>2. ASSUME NEW c \in Cids PROVE entries'[c] \in Entry \cup {Nil}
      BY <1>3, <1>7 DEF IInv, TypeOK
    <3> QED BY <3>1, <3>2
  <2> QED BY <2>1, <1>4, <1>5, <1>6 DEF IInv, TypeOK
<1>9. VersionsIssued'
  <2>1. ASSUME NEW h \in heap' PROVE h.version <= versionCounter'
    BY <1>4, <1>5 DEF IInv, VersionsIssued, TypeOK, HeapEntry
  <2>2. ASSUME NEW c \in Wanted' PROVE entries'[c].version <= versionCounter'
    <3> c \in Cids /\ entries'[c] # Nil  BY DEF Wanted
    <3>1. CASE Hit(c)
      <4>1. last(c) \in 1..n /\ entries'[c].version = versionCounter + last(c)
        BY <3>1, <1>2, <1>7
      <4> QED BY <4>1, <1>5 DEF IInv, TypeOK
    <3>2. CASE ~ Hit(c)
      BY <3>2, <1>3, <1>5 DEF IInv, TypeOK, VersionsIssued, Wanted, Entry
    <3> QED BY <3>1, <3>2
  <2> QED BY <2>1, <2>2 DEF VersionsIssued
<1>10. NoLostWant'
  <2> SUFFICES ASSUME NEW c \in Cids, entries'[c] # Nil
               PROVE  \E h \in heap' : h.cid = c /\ IsLive(h)'
    BY DEF NoLostWant, Wanted
  <2>1. CASE Hit(c)
    <3>1. hp(last(c)) \in heap'  BY <2>1, <1>2, <1>4
    <3>2. hp(last(c)).cid = c /\ hp(last(c)).version = versionCounter + last(c)
      BY <2>1, <1>2
    <3> QED BY <2>1, <3>1, <3>2, <1>7 DEF IsLive
  <2>2. CASE ~ Hit(c)
    BY <2>2, <1>3, <1>4 DEF IInv, NoLostWant, IsLive, Wanted
  <2> QED BY <2>1, <2>2
<1>11. ScheduleFaithful'
  <2> SUFFICES ASSUME NEW h \in heap', IsLive(h)'
               PROVE  /\ h.created = entries'[h.cid].created
                      /\ entries'[h.cid].priority <= h.priority
                      /\ h.priority <= EffectivePriority(entries'[h.cid], now')
    BY DEF ScheduleFaithful, EffectivePriority
  <2>1. CASE h \in heap
    <3>1. h.cid \in Cids /\ h.version <= versionCounter /\ h.version \in Nat
      BY <2>1 DEF IInv, TypeOK, HeapEntry, VersionsIssued
    <3>2. ~ Hit(h.cid)
      <4> SUFFICES ASSUME Hit(h.cid) PROVE FALSE  OBVIOUS
      <4>1. last(h.cid) \in 1..n /\ entries'[h.cid].version = versionCounter + last(h.cid)
        BY <3>1, <1>2, <1>7
      <4>2. entries'[h.cid].version = h.version  BY DEF IsLive
      <4> QED BY <3>1, <4>1, <4>2 DEF IInv, TypeOK
    <3>3. entries'[h.cid] = entries[h.cid] /\ IsLive(h)
      BY <3>1, <3>2, <1>3 DEF IsLive
    <3> QED BY <2>1, <3>3, <1>5 DEF IInv, ScheduleFaithful
  <2>2. CASE \E i \in 1..n : h = hp(i)
    <3>1. PICK i \in 1..n : h = hp(i)  BY <2>2
    <3>2. h.cid \in Cids /\ Hit(h.cid) /\ h.version = versionCounter + i  BY <3>1, <1>1
    <3>3. i = last(h.cid)
      <4>1. last(h.cid) \in 1..n /\ entries'[h.cid].version = versionCounter + last(h.cid)
        BY <3>2, <1>2, <1>7
      <4>2. entries'[h.cid].version = h.version  BY DEF IsLive
      <4> QED BY <3>2, <4>1, <4>2 DEF IInv, TypeOK
    <3>4. h.priority = entries'[h.cid].priority
      BY <3>1, <3>2, <3>3, <1>7
    <3>5. h.created = entries'[h.cid].created
      BY <3>1, <3>2, <1>7
    <3>6. entries'[h.cid] \in Entry /\ now' \in Nat
      BY <3>2, <1>5, <1>7 DEF IInv, TypeOK
    <3> QED BY <3>4, <3>5, <3>6, EffectiveAtLeast DEF Entry
  <2> QED BY <2>1, <2>2, <1>4
<1>12. WithinCapacity'
  <2>1. Wanted' = Wanted
    BY <1>1, <1>3, <1>7, NilAssumption DEF Wanted
  <2> QED BY <2>1 DEF IInv, WithinCapacity
<1> QED BY <1>8, <1>9, <1>10, <1>11, <1>12 DEF IInv

\* Fewer wants still fit.
LEMMA ShrinkCapacity ==
    ASSUME WithinCapacity, Wanted' \subseteq Wanted
    PROVE  WithinCapacity'
<1>1. IsFiniteSet(Wanted)
  BY FS_Subset, ConstantsAssumption DEF Wanted
<1>2. IsFiniteSet(Wanted') /\ Cardinality(Wanted') <= Cardinality(Wanted)
  BY <1>1, FS_Subset
<1>3. Cardinality(Wanted) \in Nat /\ Cardinality(Wanted') \in Nat
  BY <1>1, <1>2, FS_CardinalityType
<1> QED BY <1>2, <1>3, ConstantsAssumption DEF WithinCapacity

LEMMA DropPreserves ==
    ASSUME IInv, NEW S, Drop(S)
    PROVE  IInv'
<1> USE DEF IInv, Drop
<1>1. TypeOK'  BY DEF TypeOK
<1>2. VersionsIssued'  BY DEF VersionsIssued, Wanted
<1>3. NoLostWant'
  BY DEF NoLostWant, Wanted, IsLive, TypeOK, HeapEntry
<1>4. ScheduleFaithful'
  BY DEF ScheduleFaithful, IsLive, TypeOK, HeapEntry
<1>5. WithinCapacity'
  <2>1. Wanted' \subseteq Wanted  BY DEF Wanted
  <2> QED BY <2>1, ShrinkCapacity
<1> QED BY <1>1, <1>2, <1>3, <1>4, <1>5

LEMMA ClearPreserves ==
    ASSUME IInv, Clear
    PROVE  IInv'
<1> USE DEF IInv, Clear
<1>1. Wanted' = {}  BY DEF Wanted
<1>2. TypeOK'  BY DEF TypeOK
<1>3. VersionsIssued' /\ NoLostWant' /\ ScheduleFaithful'
  BY <1>1 DEF VersionsIssued, NoLostWant, ScheduleFaithful
<1>4. WithinCapacity'
  BY <1>1, ShrinkCapacity
<1> QED BY <1>2, <1>3, <1>4

LEMMA PopPreserves ==
    ASSUME IInv, NEW h \in heap, Pop(h)
    PROVE  IInv'
<1> USE DEF IInv
<1>1. h.cid \in Cids /\ IsLive(h)  BY DEF Pop, TypeOK, HeapEntry
<1>2. /\ entries' = [entries EXCEPT ![h.cid] = Nil]
      /\ versionCounter' = versionCounter /\ now' = now
      /\ result' = <<"pop", h.cid>>
  BY DEF Pop
<1>3. heap' \subseteq heap  BY DEF Pop
<1>4. \A g \in heap : IsLive(g) /\ g # h => g \in heap'
  BY DEF Pop
<1>5. TypeOK'
  BY <1>1, <1>2, <1>3 DEF TypeOK
<1>6. VersionsIssued'
  BY <1>2, <1>3 DEF VersionsIssued, Wanted, TypeOK
<1>7. NoLostWant'
  BY <1>1, <1>2, <1>4 DEF NoLostWant, Wanted, IsLive, TypeOK
<1>8. ScheduleFaithful'
  BY <1>1, <1>2, <1>3 DEF ScheduleFaithful, IsLive, TypeOK, HeapEntry
<1>9. WithinCapacity'
  <2>1. Wanted' \subseteq Wanted  BY <1>2 DEF Wanted, TypeOK
  <2> QED BY <2>1, ShrinkCapacity
<1> QED BY <1>5, <1>6, <1>7, <1>8, <1>9

LEMMA PopNonePreserves ==
    ASSUME IInv, PopNone
    PROVE  IInv'
<1> USE DEF IInv, PopNone
<1>1. Wanted = {} /\ Wanted' = Wanted  BY DEF NoLostWant, Wanted
<1>2. TypeOK'  BY DEF TypeOK
<1>3. VersionsIssued' /\ NoLostWant' /\ ScheduleFaithful'
  BY <1>1 DEF VersionsIssued, NoLostWant, ScheduleFaithful
<1>4. WithinCapacity'  BY <1>1, ShrinkCapacity
<1> QED BY <1>2, <1>3, <1>4

LEMMA MarkAttemptedPreserves ==
    ASSUME IInv, NEW c \in Cids, MarkAttempted(c)
    PROVE  IInv'
<1> USE DEF IInv
<1>1. entries[c] \in Entry  BY DEF MarkAttempted, TypeOK, Wanted
<1>2. /\ entries' = [entries EXCEPT ![c] = [entries[c] EXCEPT !.retries = @ + 1]]
      /\ heap' = heap /\ versionCounter' = versionCounter /\ now' = now
      /\ result' = <<"other">>
  BY DEF MarkAttempted
<1>3. \A d \in Cids : d # c => entries'[d] = entries[d]
  BY <1>2 DEF TypeOK
<1>4. /\ entries'[c] \in Entry
      /\ entries'[c].priority = entries[c].priority /\ entries'[c].created = entries[c].created
      /\ entries'[c].deadline = entries[c].deadline /\ entries'[c].version = entries[c].version
  BY <1>1, <1>2 DEF Entry, TypeOK
<1>5. Wanted' = Wanted
  BY <1>1, <1>3, <1>4, NilAssumption DEF Wanted
<1>6. \A h \in heap : IsLive(h)' <=> IsLive(h)
  BY <1>1, <1>3, <1>4, NilAssumption DEF IsLive, TypeOK, HeapEntry
<1>7. TypeOK'  BY <1>2, <1>3, <1>4 DEF TypeOK
<1>8. VersionsIssued'
  BY <1>2, <1>3, <1>4, <1>5 DEF VersionsIssued, Wanted
<1>9. NoLostWant'  BY <1>2, <1>5, <1>6 DEF NoLostWant
<1>10. ScheduleFaithful'
  <2> SUFFICES ASSUME NEW h \in heap, IsLive(h)
               PROVE  /\ h.created = entries'[h.cid].created
                      /\ entries'[h.cid].priority <= h.priority
                      /\ h.priority <= EffectivePriority(entries'[h.cid], now)
    BY <1>2, <1>6 DEF ScheduleFaithful, EffectivePriority
  <2>1. EffectivePriority(entries'[c], now) = EffectivePriority(entries[c], now)
    BY <1>4, EffectiveReads
  <2> QED BY <2>1, <1>3, <1>4 DEF ScheduleFaithful, TypeOK, HeapEntry
<1>11. WithinCapacity'  BY <1>5 DEF WithinCapacity
<1> QED BY <1>7, <1>8, <1>9, <1>10, <1>11

LEMMA TickPreserves ==
    ASSUME IInv, Tick
    PROVE  IInv'
<1> USE DEF IInv, Tick
<1>1. TypeOK'  BY DEF TypeOK
<1>2. VersionsIssued' /\ NoLostWant' /\ WithinCapacity'
  BY DEF VersionsIssued, NoLostWant, WithinCapacity, Wanted, IsLive
<1>3. ScheduleFaithful'
  <2> SUFFICES ASSUME NEW h \in heap, IsLive(h)
               PROVE  /\ h.created = entries[h.cid].created
                      /\ entries[h.cid].priority <= h.priority
                      /\ h.priority <= EffectivePriority(entries[h.cid], now + 1)
    BY DEF ScheduleFaithful, IsLive, EffectivePriority
  <2>1. entries[h.cid] \in Entry /\ h.priority \in Int /\ now \in Nat
    BY DEF TypeOK, HeapEntry, IsLive
  <2>2. EffectivePriority(entries[h.cid], now) <= EffectivePriority(entries[h.cid], now + 1)
    BY <2>1, EffectiveMonotone
  <2>3. /\ EffectivePriority(entries[h.cid], now) \in Int
        /\ EffectivePriority(entries[h.cid], now + 1) \in Int
    BY <2>1, EffectiveAtLeast
  <2> QED BY <2>1, <2>2, <2>3 DEF ScheduleFaithful
<1> QED BY <1>1, <1>2, <1>3

LEMMA InitIInv == Init => IInv
<1> SUFFICES ASSUME Init PROVE IInv  OBVIOUS
<1> USE DEF Init
<1>1. Wanted = {}  BY DEF Wanted
<1>2. TypeOK  BY DEF TypeOK
<1>3. VersionsIssued /\ NoLostWant /\ ScheduleFaithful
  BY <1>1 DEF VersionsIssued, NoLostWant, ScheduleFaithful
<1>4. WithinCapacity  BY <1>1, FS_EmptySet, ConstantsAssumption DEF WithinCapacity
<1> QED BY <1>2, <1>3, <1>4 DEF IInv

\* The updates boost_deadline_priorities makes are updates of wanted CIDs.
LEMMA BoostIsUpdates ==
    ASSUME IInv, NEW n \in Nat, NEW order \in [1..n -> Due]
    PROVE  [i \in 1..n |-> [cid |-> order[i],
                            priority |-> EffectivePriority(entries[order[i]], now)]]
             \in Updates(n)
<1> SUFFICES ASSUME NEW i \in 1..n
             PROVE  [cid |-> order[i],
                     priority |-> EffectivePriority(entries[order[i]], now)]
                      \in [cid : Wanted, priority : Int]
  BY DEF Updates
<1>1. order[i] \in Wanted  BY DEF Due
<1>2. entries[order[i]] \in Entry /\ now \in Nat
  BY <1>1 DEF Wanted, IInv, TypeOK
<1>3. EffectivePriority(entries[order[i]], now) \in Int
  BY <1>2, EffectiveAtLeast
<1> QED BY <1>1, <1>3

LEMMA NextIInv == IInv /\ [Next]_vars => IInv'
<1> SUFFICES ASSUME IInv, [Next]_vars PROVE IInv'  OBVIOUS
<1>1. CASE AddSome
  <2>1. ASSUME NEW c \in Cids, NEW p \in Priorities, NEW t \in 0..now,
               NEW d \in Deadlines \cup {Nil}, Add(c, p, t, d)
        PROVE  IInv'
    <3> DEFINE a == [i \in 1..1 |-> [cid |-> c, priority |-> p, created |-> t, deadline |-> d]]
    <3>1. a \in Added(1)
      BY ConstantsAssumption DEF Added, IInv, TypeOK
    <3>2. AddAll(1, a)  BY <2>1 DEF Add
    <3> HIDE DEF a
    <3> QED BY <3>1, <3>2, AddAllPreserves
  <2>2. ASSUME NEW n \in 1..MaxBatch, NEW cids \in [1..n -> Cids],
               NEW ps \in [1..n -> Priorities], AddBatch(n, cids, ps)
        PROVE  IInv'
    <3> DEFINE a == [i \in 1..n |-> [cid |-> cids[i], priority |-> ps[i],
                                     created |-> now, deadline |-> Nil]]
    <3>1. a \in Added(n)
      BY ConstantsAssumption DEF Added, IInv, TypeOK
    <3>2. AddAll(n, a)  BY <2>2 DEF AddBatch
    <3>3. n \in Nat  BY ConstantsAssumption
    <3> HIDE DEF a
    <3> QED BY <3>1, <3>2, <3>3, AddAllPreserves
  <2> QED BY <1>1, <2>1, <2>2 DEF AddSome
<1>2. CASE UpdateSome
  <2> SUFFICES ASSUME NEW n \in 1..MaxBatch, NEW cids \in [1..n -> Wanted],
                      NEW ps \in [1..n -> Priorities], UpdatePriorities(n, cids, ps)
               PROVE  IInv'
    BY <1>2 DEF UpdateSome
  <2> DEFINE u == [i \in 1..n |-> [cid |-> cids[i], priority |-> ps[i]]]
  <2>1. u \in Updates(n)  BY ConstantsAssumption DEF Updates
  <2>2. ApplyUpdates(n, u)  BY DEF UpdatePriorities
  <2>3. n \in Nat  BY ConstantsAssumption
  <2> HIDE DEF u
  <2> QED BY <2>1, <2>2, <2>3, ApplyUpdatesPreserves
<1>3. CASE BoostSome
  <2> PICK n \in 0..(2 * Cardinality(Cids)) : \E order \in [1..n -> Due] : Boost(n, order)
    BY <1>3 DEF BoostSome
  <2> PICK order \in [1..n -> Due] : Boost(n, order)
    OBVIOUS
  <2> DEFINE u == [i \in 1..n |-> [cid |-> order[i],
                                   priority |-> EffectivePriority(entries[order[i]], now)]]
  <2>1. n \in Nat  OBVIOUS
  <2>2. u \in Updates(n)  BY <2>1, BoostIsUpdates
  <2>3. ApplyUpdates(n, u)  BY DEF Boost
  <2> HIDE DEF u
  <2> QED BY <2>1, <2>2, <2>3, ApplyUpdatesPreserves
<1>4. CASE RemoveSome
  BY <1>4, DropPreserves DEF RemoveSome, Remove
<1>5. CASE CleanupExpired
  BY <1>5, DropPreserves DEF CleanupExpired
<1>6. CASE Clear
  BY <1>6, ClearPreserves
<1>7. CASE PopSome
  BY <1>7, PopPreserves DEF PopSome
<1>8. CASE PopNone
  BY <1>8, PopNonePreserves
<1>9. CASE AttemptSome
  BY <1>9, MarkAttemptedPreserves DEF AttemptSome
<1>10. CASE Tick
  BY <1>10, TickPreserves
<1>11. CASE UNCHANGED vars
  BY <1>11 DEF vars, IInv, TypeOK, VersionsIssued, NoLostWant, ScheduleFaithful,
               WithinCapacity, Wanted, IsLive, EffectivePriority
<1> QED BY <1>1, <1>2, <1>3, <1>4, <1>5, <1>6, <1>7, <1>8, <1>9, <1>10, <1>11 DEF Next

\* The inductive invariant holds in every state of the want list.
THEOREM Invariance == Spec => []IInv
BY InitIInv, NextIInv, PTL DEF Spec

\* The variables of the want list keep their types.
THEOREM TypeCorrect == Spec => []TypeOK
<1>1. IInv => TypeOK  BY DEF IInv
<1> QED BY <1>1, Invariance, PTL

\* No sequence of adds, removals, re-adds, updates, boosts, pops and expiries leaves a
\* want in the map of entries that pop() can no longer find in the heap.
THEOREM WantsAreNeverLost == Spec => []NoLostWant
<1>1. IInv => NoLostWant  BY DEF IInv
<1> QED BY <1>1, Invariance, PTL

\* A live heap entry always schedules the current want of its CID, at a priority between
\* the requested and the effective one.
THEOREM ScheduleIsFaithful == Spec => []ScheduleFaithful
<1>1. IInv => ScheduleFaithful  BY DEF IInv
<1> QED BY <1>1, Invariance, PTL

\* Single adds and batches never exceed max_wants.
THEOREM CapacityRespected == Spec => []WithinCapacity
<1>1. IInv => WithinCapacity  BY DEF IInv
<1> QED BY <1>1, Invariance, PTL

--------------------------------------------------------------------------------
(* Boosting.                                                                    *)

LEMMA BoostStep ==
    ASSUME IInv, IInv', BoostSome
    PROVE  Synchronised'
<1> PICK n \in 0..(2 * Cardinality(Cids)) : \E order \in [1..n -> Due] : Boost(n, order)
  BY DEF BoostSome
<1> PICK order \in [1..n -> Due] : Boost(n, order)
  OBVIOUS
<1> DEFINE u == [i \in 1..n |-> [cid |-> order[i],
                                 priority |-> EffectivePriority(entries[order[i]], now)]]
           Eff(c) == EffectivePriority(entries[c], now)
<1>1. n \in Nat /\ u \in Updates(n) /\ ApplyUpdates(n, u)
  <2>1. n \in Nat  OBVIOUS
  <2>2. u \in Updates(n)  BY <2>1, BoostIsUpdates
  <2>3. ApplyUpdates(n, u)  BY DEF Boost
  <2> QED BY <2>1, <2>2, <2>3
<1>2. \A i \in 1..n : u[i].cid = order[i] /\ u[i].priority = Eff(order[i])
  OBVIOUS
<1>3. now' = now
  BY <1>1 DEF ApplyUpdates
\* Every due want is updated, and the others are scheduled at their own priority.
<1>4. \A c \in Due : \E i \in 1..n : order[i] = c
  <2> SUFFICES ASSUME NEW c \in Due PROVE \E i \in 1..n : order[i] = c  OBVIOUS
  <2>1. PICK i \in 1..n : {j \in 1..n : order[j] = c} = i .. (i + Pushes(c) - 1)
    BY DEF Boost
  <2>2. Pushes(c) \in {1, 2}  BY DEF Pushes
  <2>3. i \in i .. (i + Pushes(c) - 1)  BY <2>2
  <2> QED BY <2>1, <2>3
<1>5. \A c \in Cids :
         IF \E i \in 1..n : order[i] = c
         THEN /\ entries'[c].priority = Eff(c)
              /\ entries'[c].deadline = entries[c].deadline
              /\ c \in Due
         ELSE entries'[c] = entries[c]
  <2> SUFFICES ASSUME NEW c \in Cids
               PROVE  IF \E i \in 1..n : order[i] = c
                      THEN /\ entries'[c].priority = Eff(c)
                           /\ entries'[c].deadline = entries[c].deadline
                           /\ c \in Due
                      ELSE entries'[c] = entries[c]
    OBVIOUS
  <2>1. CASE \E i \in 1..n : order[i] = c
    <3>1. LastUpdate(n, u, c) \in 1..n /\ u[LastUpdate(n, u, c)].cid = c
      <4> HIDE DEF u
      <4> QED BY <1>1, <1>2, <2>1, LastUpdateIs
    <3>2. c \in Due /\ u[LastUpdate(n, u, c)].priority = Eff(c)
      BY <2>1, <1>2, <3>1
    <3>3. entries[c] \in Entry
      BY <3>2 DEF Due, Wanted, IInv, TypeOK
    <3>4. entries'[c] = [entries[c] EXCEPT !.priority = u[LastUpdate(n, u, c)].priority,
                                           !.version = versionCounter + LastUpdate(n, u, c)]
      <4> HIDE DEF u
      <4> QED BY <1>1, <1>2, <2>1 DEF ApplyUpdates
    <3> HIDE DEF u
    <3> QED BY <2>1, <3>2, <3>3, <3>4 DEF Entry
  <2>2. CASE ~ \E i \in 1..n : order[i] = c
    <3>1. entries'[c] = entries[c]
      <4> HIDE DEF u
      <4> QED BY <1>1, <1>2, <2>2 DEF ApplyUpdates
    <3> QED BY <2>2, <3>1
  <2> QED BY <2>1, <2>2
<1> SUFFICES ASSUME NEW h \in heap', IsLive(h)'
             PROVE  h.priority = EffectivePriority(entries'[h.cid], now')
  BY DEF Synchronised, EffectivePriority
<1>6. /\ h.cid \in Cids /\ h.priority \in Int /\ entries'[h.cid] \in Entry /\ now \in Nat
      /\ entries'[h.cid].priority <= h.priority
      /\ h.priority <= EffectivePriority(entries'[h.cid], now)
  <2>1. h.cid \in Cids /\ h.priority \in Int
    BY DEF IInv, TypeOK, HeapEntry
  <2>2. entries'[h.cid] \in Entry /\ now \in Nat
    BY <2>1 DEF IInv, TypeOK, IsLive
  <2>3. /\ entries'[h.cid].priority <= h.priority
        /\ h.priority <= EffectivePriority(entries'[h.cid], now')
    BY DEF IInv, ScheduleFaithful, EffectivePriority
  <2> QED BY <2>1, <2>2, <2>3, <1>3
<1>7. EffectivePriority(entries'[h.cid], now) = entries'[h.cid].priority
  <2>1. CASE \E i \in 1..n : order[i] = h.cid
    <3>1. entries[h.cid] \in Entry
      BY <2>1 DEF Due, Wanted, IInv, TypeOK
    <3> QED BY <2>1, <3>1, <1>5, <1>6, EffectiveIdempotent
  <2>2. CASE ~ \E i \in 1..n : order[i] = h.cid
    <3>1. entries'[h.cid] = entries[h.cid]  BY <2>2, <1>5, <1>6
    <3>2. h.cid \notin Due  BY <2>2, <1>4
    <3>3. h.cid \in Wanted  BY <3>1, <1>6, NilAssumption DEF Wanted
    <3>4. ~ (Eff(h.cid) > entries[h.cid].priority)
      BY <3>2, <3>3 DEF Due
    <3>5. /\ Eff(h.cid) \in Int /\ entries[h.cid].priority \in Int
          /\ entries[h.cid].priority <= Eff(h.cid)
      BY <3>1, <1>6, EffectiveAtLeast DEF Entry
    <3> QED BY <3>1, <3>4, <3>5
  <2> QED BY <2>1, <2>2
<1> QED BY <1>3, <1>6, <1>7 DEF Entry

\* After boost_deadline_priorities every want is scheduled at its effective priority.
THEOREM BoostSynchronisesAll == Spec => BoostSynchronises
<1>1. IInv /\ IInv' /\ [Next]_vars => [BoostSome => Synchronised']_vars
  BY BoostStep
<1> QED BY <1>1, Invariance, PTL DEF Spec, BoostSynchronises

--------------------------------------------------------------------------------
(* The want list implements the plain priority queue.                           *)

\* No two heap entries carry one version, so at most one of them is live for a want.
UniqueVersions == \A g, h \in heap : g.version = h.version => g = h

QInv == IInv /\ UniqueVersions

\* The place of a want is where its live heap entry schedules it.
PlacesShown ==
    /\ Places \in [Cids -> Queue!Place \cup {Nil}]
    /\ \A c \in Cids : entries[c] = Nil => Places[c] = Nil
    /\ \A h \in heap : entries[h.cid] # Nil /\ entries[h.cid].version = h.version =>
          Places[h.cid] = [priority |-> h.priority, created |-> h.created]
    /\ \A c \in Cids : entries[c] # Nil =>
          /\ Places[c] \in Queue!Place /\ Places[c] # Nil
          /\ Places[c].created = entries[c].created

\* Pushing entries with the next versions keeps them apart.
LEMMA PushUnique ==
    ASSUME QInv, NEW n \in Nat, NEW f, \A i \in 1..n : f[i].version = versionCounter + i,
           heap' = heap \cup {f[i] : i \in 1..n}
    PROVE  UniqueVersions'
<1> SUFFICES ASSUME NEW g \in heap', NEW h \in heap', g.version = h.version PROVE g = h
  BY DEF UniqueVersions
<1>1. versionCounter \in Nat
  BY DEF QInv, IInv, TypeOK
<1>2. \A x \in heap : x.version \in Nat /\ x.version <= versionCounter
  BY DEF QInv, IInv, TypeOK, HeapEntry, VersionsIssued
<1>3. CASE g \in heap /\ h \in heap
  BY <1>3 DEF QInv, UniqueVersions
<1>4. CASE g \in heap /\ h \notin heap
  BY <1>1, <1>2, <1>4
<1>5. CASE g \notin heap /\ h \in heap
  BY <1>1, <1>2, <1>5
<1>6. CASE g \notin heap /\ h \notin heap
  <2>1. PICK i \in 1..n : g = f[i]
    BY <1>6
  <2>2. PICK j \in 1..n : h = f[j]
    BY <1>6
  <2>3. i = j
    BY <2>1, <2>2, <1>1
  <2> QED BY <2>1, <2>2, <2>3
<1> QED BY <1>3, <1>4, <1>5, <1>6

LEMMA ShrinkUnique ==
    ASSUME QInv, heap' \subseteq heap
    PROVE  UniqueVersions'
BY DEF QInv, UniqueVersions

LEMMA AddUnique ==
    ASSUME QInv, NEW n \in Nat, NEW added, AddAll(n, added)
    PROVE  UniqueVersions'
<1> DEFINE new(i) == NewEntry(added[i].priority, added[i].created, added[i].deadline,
                              versionCounter + i)
           f == [i \in 1..n |->
                   [cid |-> added[i].cid, priority |-> EffectivePriority(new(i), now),
                    created |-> added[i].created, version |-> versionCounter + i]]
<1>1. heap' = heap \cup {f[i] : i \in 1..n}
  BY DEF AddAll
<1>2. \A i \in 1..n : f[i].version = versionCounter + i
  OBVIOUS
<1> HIDE DEF f
<1> QED BY <1>1, <1>2, PushUnique

LEMMA UpdateUnique ==
    ASSUME QInv, NEW n \in Nat, NEW ups, ApplyUpdates(n, ups)
    PROVE  UniqueVersions'
<1> DEFINE f == [i \in 1..n |->
                   [cid |-> ups[i].cid, priority |-> ups[i].priority,
                    created |-> entries[ups[i].cid].created,
                    version |-> versionCounter + i]]
<1>1. heap' = heap \cup {f[i] : i \in 1..n}
  BY DEF ApplyUpdates
<1>2. \A i \in 1..n : f[i].version = versionCounter + i
  OBVIOUS
<1> HIDE DEF f
<1> QED BY <1>1, <1>2, PushUnique

LEMMA NextQInv == QInv /\ [Next]_vars => QInv'
<1> SUFFICES ASSUME QInv, [Next]_vars PROVE UniqueVersions'
  BY NextIInv DEF QInv
<1>1. CASE AddSome
  <2>1. MaxBatch \in Nat
    BY ConstantsAssumption
  <2>2. ASSUME NEW c, NEW p, NEW t, NEW d, Add(c, p, t, d) PROVE UniqueVersions'
    BY <2>2, AddUnique DEF Add
  <2>3. ASSUME NEW n \in 1..MaxBatch, NEW cids, NEW ps, AddBatch(n, cids, ps)
        PROVE  UniqueVersions'
    BY <2>1, <2>3, AddUnique DEF AddBatch
  <2> QED BY <1>1, <2>2, <2>3 DEF AddSome
<1>2. CASE UpdateSome
  <2>1. MaxBatch \in Nat
    BY ConstantsAssumption
  <2> QED BY <1>2, <2>1, UpdateUnique DEF UpdateSome, UpdatePriorities
<1>3. CASE BoostSome
  <2>1. PICK n \in 0..(2 * Cardinality(Cids)) : \E order \in [1..n -> Due] : Boost(n, order)
    BY <1>3 DEF BoostSome
  <2>2. n \in Nat
    OBVIOUS
  <2> QED BY <2>1, <2>2, UpdateUnique DEF Boost
<1>4. CASE heap' \subseteq heap
  BY <1>4, ShrinkUnique
<1>5. CASE RemoveSome \/ CleanupExpired \/ Clear \/ PopSome \/ PopNone \/ AttemptSome \/ Tick
  BY <1>4, <1>5 DEF RemoveSome, Remove, CleanupExpired, Drop, Clear, PopSome, Pop, PopNone,
     AttemptSome, MarkAttempted, Tick
<1>6. CASE UNCHANGED vars
  BY <1>4, <1>6 DEF vars
<1> QED BY <1>1, <1>2, <1>3, <1>5, <1>6 DEF Next

LEMMA QInvShows == QInv => PlacesShown
<1> SUFFICES ASSUME QInv PROVE PlacesShown
  OBVIOUS
<1>0. /\ \A h \in heap : /\ h.cid \in Cids /\ h.priority \in Int /\ h.created \in Nat
                         /\ h.version \in Nat
      /\ entries \in [Cids -> Entry \cup {Nil}]
  BY DEF QInv, IInv, TypeOK, HeapEntry
<1>1. \A c \in Cids : Places[c] = PlaceOf(c)
  BY DEF Places
<1>2. \A c \in Cids : entries[c] = Nil => Places[c] = Nil
  BY <1>1 DEF PlaceOf, Wanted
<1>3. ASSUME NEW h \in heap, entries[h.cid] # Nil, entries[h.cid].version = h.version
      PROVE  Places[h.cid] = [priority |-> h.priority, created |-> h.created]
  <2>1. h.cid \in Cids /\ h.cid \in Wanted /\ IsLive(h)
    BY <1>0, <1>3 DEF Wanted, IsLive
  <2>2. \A g \in heap : g.cid = h.cid /\ IsLive(g) => g = h
    BY <1>3 DEF QInv, UniqueVersions, IsLive
  <2>3. (CHOOSE g \in heap : g.cid = h.cid /\ IsLive(g)) = h
    BY <2>1, <2>2
  <2> QED BY <1>1, <2>1, <2>3 DEF PlaceOf
<1>4. ASSUME NEW c \in Cids, entries[c] # Nil
      PROVE  /\ Places[c] \in Queue!Place /\ Places[c] # Nil
             /\ Places[c].created = entries[c].created
  <2>1. PICK h \in heap : h.cid = c /\ IsLive(h)
    BY <1>4 DEF QInv, IInv, NoLostWant, Wanted
  <2>2. Places[c] = [priority |-> h.priority, created |-> h.created]
    BY <2>1, <1>3 DEF IsLive
  <2>3. Places[c] \in Queue!Place /\ Places[c].created = h.created
    BY <1>0, <2>2 DEF Queue!Place
  <2>4. Places[c] # Nil
    BY <2>3, NilAssumption DEF Queue!Place
  <2>5. h.created = entries[c].created
    BY <2>1 DEF QInv, IInv, ScheduleFaithful
  <2> QED BY <2>3, <2>4, <2>5
<1>5. Places \in [Cids -> Queue!Place \cup {Nil}]
  <2>1. \A c \in Cids : Places[c] \in Queue!Place \cup {Nil}
    BY <1>2, <1>4
  <2>2. Places = [c \in Cids |-> Places[c]]
    BY DEF Places
  <2> QED BY <2>1, <2>2
<1> QED BY <1>2, <1>3, <1>4, <1>5 DEF PlacesShown

\* The wants of the map are the occupied places.
LEMMA OccupiedIsWanted == PlacesShown => Queue!Occupied = Wanted
BY DEF PlacesShown, Queue!Occupied, Wanted

\* A want whose live heap entry a step leaves alone keeps its place.
LEMMA PlaceStays ==
    ASSUME QInv, QInv', PlacesShown, PlacesShown', NEW c \in Cids,
           (entries'[c] = Nil) <=> (entries[c] = Nil),
           entries[c] # Nil => entries'[c].version = entries[c].version,
           \A h \in heap : h.cid = c /\ IsLive(h) => h \in heap'
    PROVE  Places'[c] = Places[c]
<1>1. CASE entries[c] = Nil
  BY <1>1 DEF PlacesShown
<1>2. CASE entries[c] # Nil
  <2>1. PICK h \in heap : h.cid = c /\ IsLive(h)
    BY <1>2 DEF QInv, IInv, NoLostWant, Wanted
  <2>2. Places[c] = [priority |-> h.priority, created |-> h.created]
    BY <2>1 DEF PlacesShown, IsLive
  <2>3. h \in heap' /\ entries'[h.cid] # Nil /\ entries'[h.cid].version = h.version
    BY <1>2, <2>1 DEF IsLive
  <2>4. Places'[c] = [priority |-> h.priority, created |-> h.created]
    BY <2>1, <2>3 DEF PlacesShown
  <2> QED BY <2>2, <2>4
<1> QED BY <1>1, <1>2

\* add() and the batches of it let wants enter.
LEMMA AddEnters ==
    ASSUME QInv, QInv', PlacesShown, PlacesShown', NEW n \in Nat, NEW added \in Added(n),
           AddAll(n, added)
    PROVE  Queue!Enter
<1> DEFINE S == {added[i].cid : i \in 1..n}
<1>1. Queue!Occupied = Wanted
  BY OccupiedIsWanted
<1>2. S \in SUBSET (Cids \ Wanted)
  BY DEF AddAll, Added
<1>3. \A c \in Cids \ S : entries'[c] = entries[c]
  BY DEF AddAll
<1>4. heap \subseteq heap' /\ Answer' = "other"
  BY DEF AddAll, Answer
<1>5. \A c \in Cids \ S : Places'[c] = Places[c]
  <2> HIDE DEF S
  <2> QED BY <1>3, <1>4, PlaceStays
<1>6. Wanted \cup S = Wanted'
  <2>1. \A c \in S : entries'[c] # Nil
    <3> SUFFICES ASSUME NEW i \in 1..n PROVE entries'[added[i].cid] # Nil
      OBVIOUS
    <3>1. (CHOOSE j \in 1..n : added[j].cid = added[i].cid) = i
      BY DEF AddAll
    <3>2. entries'[added[i].cid] = NewEntry(added[i].priority, added[i].created,
                                            added[i].deadline, versionCounter + i)
      BY <3>1 DEF AddAll, Added
    <3>3. entries'[added[i].cid] \in Entry
      BY <3>2, ConstantsAssumption DEF NewEntry, Entry, Added, QInv, IInv, TypeOK
    <3> QED BY <3>3, NilAssumption
  <2> HIDE DEF S
  <2> QED BY <1>2, <1>3, <2>1 DEF Wanted
<1>7. Cardinality(Wanted \cup S) <= MaxWants
  BY <1>6, AddAllCapacity DEF WithinCapacity
<1>8. Places' \in [Cids -> Queue!Place \cup {Nil}]
  BY DEF PlacesShown
<1> HIDE DEF S
<1>9. Queue!Only(S)
  BY <1>5, <1>8 DEF Queue!Only
<1>10. Queue!Cardinality(Wanted \cup S) = Cardinality(Wanted \cup S)
  BY DEF Queue!Cardinality, Cardinality
<1> QED BY <1>1, <1>2, <1>4, <1>7, <1>9, <1>10 DEF Queue!Enter

\* update_priority, its batches and the deadline boost change places, never ages.
LEMMA UpdateReprioritises ==
    ASSUME QInv, QInv', PlacesShown, PlacesShown', NEW n \in Nat, NEW ups \in Updates(n),
           ApplyUpdates(n, ups)
    PROVE  Queue!Reprioritise
<1> DEFINE S == {ups[i].cid : i \in 1..n}
<1>1. Queue!Occupied = Wanted
  BY OccupiedIsWanted
<1>2. S \in SUBSET Wanted /\ Wanted \subseteq Cids
  BY DEF Updates, Wanted
<1>3. \A c \in Cids \ S : entries'[c] = entries[c]
  BY DEF ApplyUpdates
<1>4. heap \subseteq heap' /\ Answer' = "other"
  BY DEF ApplyUpdates, Answer
<1>5. \A c \in Cids \ S : Places'[c] = Places[c]
  <2> HIDE DEF S
  <2> QED BY <1>3, <1>4, PlaceStays
<1>6. ASSUME NEW c \in S
      PROVE  Places'[c] \in Queue!Place /\ Places'[c].created = Places[c].created
  <2>1. c \in Cids /\ entries[c] # Nil /\ entries[c] \in Entry
    BY <1>2, <1>6 DEF Wanted, QInv, IInv, TypeOK
  <2>2. \E i \in 1..n : ups[i].cid = c
    BY <1>6
  <2>3. PICK p, v : entries'[c] = [entries[c] EXCEPT !.priority = p, !.version = v]
    BY <2>1, <2>2 DEF ApplyUpdates
  <2>4. entries'[c].created = entries[c].created /\ entries'[c] # Nil
    <3>1. entries'[c].created = entries[c].created
      BY <2>1, <2>3 DEF Entry
    <3>2. entries'[c] # Nil
      <4>1. LastUpdate(n, ups, c) \in 1..n
        BY <2>2, LastUpdateIs
      <4>2. ups[LastUpdate(n, ups, c)].priority \in Int
        BY <4>1 DEF Updates
      <4>3. entries'[c] = [entries[c] EXCEPT !.priority = ups[LastUpdate(n, ups, c)].priority,
                                             !.version = versionCounter + LastUpdate(n, ups, c)]
        BY <2>1, <2>2 DEF ApplyUpdates
      <4>4. versionCounter + LastUpdate(n, ups, c) \in Nat
        BY <4>1 DEF QInv, IInv, TypeOK
      <4>5. entries'[c] \in Entry
        BY <2>1, <4>2, <4>3, <4>4 DEF Entry
      <4> QED BY <4>5, NilAssumption
    <3> QED BY <3>1, <3>2
  <2> QED BY <2>1, <2>4 DEF PlacesShown
<1>7. Places' \in [Cids -> Queue!Place \cup {Nil}]
  BY DEF PlacesShown
<1> HIDE DEF S
<1> QED BY <1>1, <1>2, <1>4, <1>5, <1>6, <1>7 DEF Queue!Reprioritise, Queue!Only

\* Removals and expiries let wants leave; the others keep their places.
LEMMA DropLeaves ==
    ASSUME QInv, QInv', PlacesShown, PlacesShown', NEW S \in SUBSET Wanted, Drop(S)
    PROVE  Queue!Leave
<1>1. Queue!Occupied = Wanted
  BY OccupiedIsWanted
<1>2. \A c \in Cids : entries'[c] = IF c \in S THEN Nil ELSE entries[c]
  BY DEF Drop
<1>3. heap' = heap /\ Answer' = "other"
  BY DEF Drop, Answer
<1>4. \A c \in Cids \ S : Places'[c] = Places[c]
  BY <1>2, <1>3, PlaceStays
<1>5. \A c \in S : Places'[c] = Nil
  BY <1>2 DEF PlacesShown, Wanted
<1>6. Places' \in [Cids -> Queue!Place \cup {Nil}]
  BY DEF PlacesShown
<1> QED BY <1>1, <1>3, <1>4, <1>5, <1>6 DEF Queue!Leave, Queue!Only

LEMMA ClearLeaves ==
    ASSUME QInv, PlacesShown, PlacesShown', Clear
    PROVE  Queue!Leave
<1>1. Queue!Occupied = Wanted
  BY OccupiedIsWanted
<1>2. \A c \in Cids : Places'[c] = Nil
  BY DEF Clear, PlacesShown
<1>3. \A c \in Cids \ Wanted : Places[c] = Nil
  BY DEF PlacesShown, Wanted
<1>4. Places' \in [Cids -> Queue!Place \cup {Nil}] /\ Answer' = "other" /\ Wanted \subseteq Cids
  BY DEF PlacesShown, Clear, Answer, Wanted
<1> QED BY <1>1, <1>2, <1>3, <1>4 DEF Queue!Leave, Queue!Only

\* pop() hands out a want that no other want precedes.
LEMMA PopServes ==
    ASSUME QInv, QInv', PlacesShown, PlacesShown', NEW h \in heap, Pop(h)
    PROVE  Queue!Serve
<1> DEFINE c == h.cid
<1>1. Queue!Occupied = Wanted
  BY OccupiedIsWanted
<1>2. /\ c \in Cids /\ entries[c] # Nil /\ entries[c].version = h.version
      /\ c \in Wanted
  BY DEF Pop, IsLive, Wanted, QInv, IInv, TypeOK, HeapEntry
<1>3. Places[c] = [priority |-> h.priority, created |-> h.created]
  BY <1>2 DEF PlacesShown
<1>4. ASSUME NEW d \in Wanted PROVE ~ Queue!Precedes(Places[d], Places[c])
  <2>1. PICK g \in heap : g.cid = d /\ IsLive(g)
    BY DEF QInv, IInv, NoLostWant
  <2>2. Places[d] = [priority |-> g.priority, created |-> g.created]
    BY <2>1 DEF PlacesShown, IsLive
  <2>3. ~ Above(g, h)
    BY <2>1 DEF Pop
  <2> QED BY <1>3, <2>2, <2>3 DEF Above, Queue!Precedes
<1>5. Queue!IsHead(c)
  BY <1>1, <1>2, <1>4 DEF Queue!IsHead
<1>6. /\ entries' = [entries EXCEPT ![c] = Nil] /\ entries \in [Cids -> Entry \cup {Nil}]
      /\ result' = <<"pop", c>>
  BY DEF Pop, QInv, IInv, TypeOK
<1>7. Places'[c] = Nil
  BY <1>2, <1>6 DEF PlacesShown
<1>8. ASSUME NEW d \in Cids, d # c PROVE Places'[d] = Places[d]
  <2>1. entries'[d] = entries[d]
    BY <1>6, <1>8
  <2>2. \A g \in heap : g.cid = d /\ IsLive(g) => g \in heap'
    BY <1>8 DEF Pop
  <2> QED BY <2>1, <2>2, PlaceStays
<1>9. Places' = [Places EXCEPT ![c] = Nil]
  <2>1. /\ Places \in [Cids -> Queue!Place \cup {Nil}]
        /\ Places' \in [Cids -> Queue!Place \cup {Nil}]
    BY DEF PlacesShown
  <2> HIDE DEF c
  <2> QED BY <1>7, <1>8, <2>1
<1>10. Answer' = c
  BY <1>6 DEF Answer
<1> QED BY <1>2, <1>5, <1>9, <1>10 DEF Queue!Serve

\* pop() answers None only when nothing is wanted.
LEMMA PopNoneServes ==
    ASSUME QInv, PlacesShown, PlacesShown', PopNone
    PROVE  Queue!Serve
<1>1. Wanted = {} /\ Queue!Occupied = {}
  BY OccupiedIsWanted DEF PopNone, QInv, IInv, NoLostWant
<1>2. \A c \in Cids : entries[c] = Nil /\ entries'[c] = Nil
  BY <1>1 DEF Wanted, PopNone
<1>3. \A c \in Cids : Places'[c] = Nil /\ Places[c] = Nil
  BY <1>2 DEF PlacesShown
<1>4. Places' = Places
  BY <1>3 DEF PlacesShown
<1>5. Answer' = Nil
  BY DEF PopNone, Answer
<1> QED BY <1>1, <1>4, <1>5 DEF Queue!Serve

LEMMA AttemptChangesNothing ==
    ASSUME QInv, QInv', PlacesShown, PlacesShown', NEW c \in Cids, MarkAttempted(c)
    PROVE  Queue!Leave
<1>1. entries[c] \in Entry /\ entries \in [Cids -> Entry \cup {Nil}]
  BY DEF MarkAttempted, QInv, IInv, TypeOK, Wanted
<1>2. /\ entries' = [entries EXCEPT ![c] = [entries[c] EXCEPT !.retries = @ + 1]]
      /\ heap' = heap /\ Answer' = "other"
  BY DEF MarkAttempted, Answer
<1>3. entries'[c] \in Entry /\ entries'[c].version = entries[c].version
  BY <1>1, <1>2 DEF Entry
<1>4. \A d \in Cids : d # c => entries'[d] = entries[d]
  BY <1>1, <1>2
<1>5. \A d \in Cids : Places'[d] = Places[d]
  <2> SUFFICES ASSUME NEW d \in Cids PROVE Places'[d] = Places[d]
    OBVIOUS
  <2>1. (entries'[d] = Nil) <=> (entries[d] = Nil)
    BY <1>1, <1>3, <1>4, NilAssumption
  <2>2. entries[d] # Nil => entries'[d].version = entries[d].version
    BY <1>3, <1>4
  <2> QED BY <2>1, <2>2, <1>2, PlaceStays
<1>6. Places' \in [Cids -> Queue!Place \cup {Nil}]
  BY DEF PlacesShown
<1>7. Queue!Only({})
  BY <1>5, <1>6 DEF Queue!Only
<1> QED BY <1>2, <1>7 DEF Queue!Leave

LEMMA TickStutters ==
    ASSUME QInv, QInv', PlacesShown, PlacesShown',
           UNCHANGED <<entries, heap, result>>
    PROVE  UNCHANGED <<Places, Answer>>
<1>1. \A c \in Cids : Places'[c] = Places[c]
  BY PlaceStays
<1>2. Places' = Places
  BY <1>1 DEF PlacesShown
<1> QED BY <1>2 DEF Answer

LEMMA QueueStep ==
    ASSUME QInv, QInv', PlacesShown, PlacesShown', [Next]_vars
    PROVE  [Queue!QNext]_(Queue!qvars)
<1> USE DEF Queue!QNext, Queue!qvars
<1>0. IInv
  BY DEF QInv
<1>1. CASE AddSome
  <2>1. ASSUME NEW c \in Cids, NEW p \in Priorities, NEW t \in 0..now,
               NEW d \in Deadlines \cup {Nil}, Add(c, p, t, d)
        PROVE  Queue!Enter
    <3> DEFINE a == [i \in 1..1 |-> [cid |-> c, priority |-> p, created |-> t, deadline |-> d]]
    <3>1. a \in Added(1)
      BY <1>0, ConstantsAssumption DEF Added, IInv, TypeOK
    <3>2. AddAll(1, a)  BY <2>1 DEF Add
    <3> HIDE DEF a
    <3> QED BY <3>1, <3>2, AddEnters
  <2>2. ASSUME NEW n \in 1..MaxBatch, NEW cids \in [1..n -> Cids],
               NEW ps \in [1..n -> Priorities], AddBatch(n, cids, ps)
        PROVE  Queue!Enter
    <3> DEFINE a == [i \in 1..n |-> [cid |-> cids[i], priority |-> ps[i],
                                     created |-> now, deadline |-> Nil]]
    <3>1. a \in Added(n)
      BY <1>0, ConstantsAssumption DEF Added, IInv, TypeOK
    <3>2. AddAll(n, a)  BY <2>2 DEF AddBatch
    <3>3. n \in Nat  BY ConstantsAssumption
    <3> HIDE DEF a
    <3> QED BY <3>1, <3>2, <3>3, AddEnters
  <2> QED BY <1>1, <2>1, <2>2 DEF AddSome
<1>2. CASE UpdateSome
  <2> SUFFICES ASSUME NEW n \in 1..MaxBatch, NEW cids \in [1..n -> Wanted],
                      NEW ps \in [1..n -> Priorities], UpdatePriorities(n, cids, ps)
               PROVE  Queue!Reprioritise
    BY <1>2 DEF UpdateSome
  <2> DEFINE u == [i \in 1..n |-> [cid |-> cids[i], priority |-> ps[i]]]
  <2>1. u \in Updates(n)  BY ConstantsAssumption DEF Updates
  <2>2. ApplyUpdates(n, u)  BY DEF UpdatePriorities
  <2>3. n \in Nat  BY ConstantsAssumption
  <2> HIDE DEF u
  <2> QED BY <2>1, <2>2, <2>3, UpdateReprioritises
<1>3. CASE BoostSome
  <2> PICK n \in 0..(2 * Cardinality(Cids)) : \E order \in [1..n -> Due] : Boost(n, order)
    BY <1>3 DEF BoostSome
  <2> PICK order \in [1..n -> Due] : Boost(n, order)
    OBVIOUS
  <2> DEFINE u == [i \in 1..n |-> [cid |-> order[i],
                                   priority |-> EffectivePriority(entries[order[i]], now)]]
  <2>1. n \in Nat  OBVIOUS
  <2>2. u \in Updates(n)  BY <1>0, <2>1, BoostIsUpdates
  <2>3. ApplyUpdates(n, u)  BY DEF Boost
  <2> HIDE DEF u
  <2> QED BY <2>1, <2>2, <2>3, UpdateReprioritises
<1>4. CASE RemoveSome
  BY <1>4, DropLeaves DEF RemoveSome, Remove
<1>5. CASE CleanupExpired
  <2>1. {c \in Wanted : IsExpired(entries[c])} \in SUBSET Wanted
    OBVIOUS
  <2> QED BY <1>5, <2>1, DropLeaves DEF CleanupExpired
<1>6. CASE Clear
  BY <1>6, ClearLeaves
<1>7. CASE PopSome
  BY <1>7, PopServes DEF PopSome
<1>8. CASE PopNone
  BY <1>8, PopNoneServes
<1>9. CASE AttemptSome
  BY <1>9, AttemptChangesNothing DEF AttemptSome
<1>10. CASE Tick
  BY <1>10, TickStutters DEF Tick
<1>11. CASE UNCHANGED vars
  BY <1>11, TickStutters DEF vars
<1> QED BY <1>1, <1>2, <1>3, <1>4, <1>5, <1>6, <1>7, <1>8, <1>9, <1>10, <1>11 DEF Next

LEMMA InitQueue == Init => QInv /\ Queue!QInit
<1> SUFFICES ASSUME Init PROVE QInv /\ Queue!QInit
  OBVIOUS
<1>1. QInv
  BY InitIInv DEF Init, QInv, UniqueVersions
<1>2. PlacesShown
  BY <1>1, QInvShows
<1>3. \A c \in Cids : Places[c] = Nil
  BY <1>2 DEF PlacesShown, Init
<1>4. Places = [c \in Cids |-> Nil]
  BY <1>2, <1>3 DEF PlacesShown
<1>5. Answer = "other"
  BY DEF Init, Answer
<1> QED BY <1>1, <1>4, <1>5 DEF Queue!QInit

\* Whatever stale entries the heap keeps, the want list behaves as the plain bounded
\* priority queue its callers rely on: pop() takes a want no other want precedes and
\* answers None only when nothing is wanted, and no call moves a want it is not about.
THEOREM WantListIsAQueue == Spec => ImplementsQueue
<1>1. QInv /\ QInv' /\ [Next]_vars => [Queue!QNext]_(Queue!qvars)
  <2>1. QInv => PlacesShown
    BY QInvShows
  <2>2. QInv' => PlacesShown'
    BY QInvShows, PTL
  <2> QED BY <2>1, <2>2, QueueStep
<1>2. Init => QInv /\ Queue!QInit
  BY InitQueue
<1> QED BY <1>1, <1>2, NextQInv, PTL DEF Spec, ImplementsQueue, Queue!QSpec

=================================================================================
