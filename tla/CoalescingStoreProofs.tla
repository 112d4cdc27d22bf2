------------------------- MODULE CoalescingStoreProofs --------------------------
(***************************************************************************)
(* Proofs about CoalescingStore, for any blocks, tasks and batch size.     *)
(***************************************************************************)
EXTENDS CoalescingStore, FiniteSetTheorems, TLAPS

\* What every step of the store keeps.
CsInv == CsTypeOK /\ PendingIsTimed /\ FullIsFlushed /\ AcceptedIsHeld

\* A smaller batch counts for less, and an empty one is never large enough.
LEMMA BatchSizes ==
    ASSUME NEW A, NEW B, A \subseteq B, B \subseteq Blocks
    PROVE  /\ Cardinality(A) >= max_batch_size => Cardinality(B) >= max_batch_size
           /\ ~ Cardinality({}) >= max_batch_size
<1>1. IsFiniteSet(B)
    BY FS_Subset, CoalesceAssumption
<1>2. IsFiniteSet(A) /\ Cardinality(A) <= Cardinality(B)
    BY <1>1, FS_Subset
<1>3. Cardinality(A) \in Nat /\ Cardinality(B) \in Nat
    BY <1>1, <1>2, FS_CardinalityType
<1>4. Cardinality({}) = 0
    BY FS_EmptySet
<1> QED
    BY <1>2, <1>3, <1>4, CoalesceAssumption

\* The state a store starts in.
LEMMA CoalesceInit == CsInit => CsInv
<1> SUFFICES ASSUME CsInit PROVE CsInv
    OBVIOUS
<1>1. CsTypeOK
    BY DEF CsInit, CsTypeOK, Idle, At
<1>2. PendingIsTimed /\ AcceptedIsHeld
    BY DEF CsInit, PendingIsTimed, AcceptedIsHeld, Held
<1>3. FullIsFlushed
    BY BatchSizes DEF CsInit, FullIsFlushed
<1> QED
    BY <1>1, <1>2, <1>3 DEF CsInv

\* Every step is well typed.
LEMMA CoalesceTypes == CsInv /\ [CsNext]_cvars => CsTypeOK'
<1> SUFFICES ASSUME CsInv, [CsNext]_cvars PROVE CsTypeOK'
    OBVIOUS
<1> USE DEF CsInv, CsTypeOK, At, Goes, Begin
<1>1. ASSUME NEW t \in Callers, NEW b \in Blocks, Put(t, b) PROVE CsTypeOK'
    BY <1>1 DEF Put, Arm, Tasks
<1>2. ASSUME NEW t \in Callers, NEW blocks \in SUBSET Blocks, PutMany(t, blocks)
      PROVE CsTypeOK'
    BY <1>2 DEF PutMany, Arm, Tasks
<1>3. ASSUME NEW t \in Callers, NEW blocks \in SUBSET Blocks, Delete(t, blocks)
      PROVE CsTypeOK'
    BY <1>3 DEF Delete, Tasks
<1>4. ASSUME NEW t \in Callers, Flush(t) PROVE CsTypeOK'
    BY <1>4 DEF Flush, Tasks
<1>5. ASSUME NEW t \in Tasks, PutManyCheck(t) PROVE CsTypeOK'
    BY <1>5 DEF PutManyCheck
<1>6. ASSUME NEW t \in Tasks, Take(t) PROVE CsTypeOK'
    BY <1>6 DEF Take
<1>7. ASSUME NEW t \in Tasks, WriteFails(t) PROVE CsTypeOK'
    BY <1>7 DEF WriteFails
<1>8. ASSUME NEW t \in Tasks, DeleteReturns(t) PROVE CsTypeOK'
    BY <1>8 DEF DeleteReturns
<1>9. ASSUME NEW t \in Tasks, NEW b \in Blocks, Write(t, b) PROVE CsTypeOK'
    BY <1>9 DEF Write
<1>10. ASSUME NEW t \in Tasks, NEW b \in Blocks, DeleteInner(t, b) PROVE CsTypeOK'
    BY <1>10 DEF DeleteInner
<1>11. CASE Wake
    BY <1>11 DEF Wake, Tasks
<1>12. CASE Age
    BY <1>12 DEF Age
<1>13. CASE Crash
    BY <1>13 DEF Crash, Idle
<1>14. CASE UNCHANGED cvars
    BY <1>14 DEF cvars
<1> QED
    BY <1>1, <1>2, <1>3, <1>4, <1>5, <1>6, <1>7, <1>8, <1>9, <1>10, <1>11, <1>12,
       <1>13, <1>14 DEF CsNext, Continue

\* The clock: whatever adds to pending starts it, and it stops with nothing pending.
LEMMA CoalesceTimes == CsInv /\ [CsNext]_cvars => PendingIsTimed'
<1> SUFFICES ASSUME CsInv, [CsNext]_cvars PROVE PendingIsTimed'
    OBVIOUS
<1> USE DEF CsInv, CsTypeOK, PendingIsTimed
<1>1. ASSUME NEW t \in Callers, NEW blocks \in SUBSET Blocks,
             PutMany(t, blocks) \/ Delete(t, blocks) \/ Flush(t)
      PROVE  PendingIsTimed'
    BY <1>1 DEF PutMany, Delete, Flush, Arm
<1>2. ASSUME NEW t \in Callers, NEW b \in Blocks, Put(t, b) PROVE PendingIsTimed'
    BY <1>2 DEF Put, Arm
<1>3. ASSUME NEW t \in Tasks, Continue(t) PROVE PendingIsTimed'
    BY <1>3 DEF Continue, PutManyCheck, Take, WriteFails, DeleteReturns, Write, DeleteInner
<1>4. CASE Wake \/ Age \/ Crash \/ UNCHANGED cvars
    BY <1>4 DEF Wake, Age, Crash, cvars
<1> QED
    BY <1>1, <1>2, <1>3, <1>4 DEF CsNext

\* Full batches: the write that fills one goes on to flush it, and a task gives up
\* flushing only when there is nothing to flush.
LEMMA CoalesceFull == CsInv /\ [CsNext]_cvars => FullIsFlushed'
<1> SUFFICES ASSUME CsInv, [CsNext]_cvars,
                    Cardinality(pending') >= max_batch_size
             PROVE  \E t \in Tasks : At(t, "check")' \/ At(t, "flush")'
    BY DEF FullIsFlushed, At
<1> USE DEF CsInv, CsTypeOK, At, Goes, Begin
<1> DEFINE Flusher == \E t \in Tasks : At(t, "check")' \/ At(t, "flush")'
<1>a. pending' # {}
    BY BatchSizes
<1>b. ASSUME pending' \subseteq pending
      PROVE  \E t \in Tasks : At(t, "check") \/ At(t, "flush")
    BY <1>b, BatchSizes DEF FullIsFlushed
<1>1. ASSUME NEW t \in Callers, NEW b \in Blocks, Put(t, b) PROVE Flusher
    BY <1>1 DEF Put, Full, Tasks
<1>2. ASSUME NEW t \in Callers, NEW blocks \in SUBSET Blocks, PutMany(t, blocks)
      PROVE  Flusher
    BY <1>2 DEF PutMany, Tasks
<1>3. ASSUME NEW t \in Callers, NEW blocks \in SUBSET Blocks, Delete(t, blocks)
      PROVE  Flusher
    <2>1. PICK u \in Tasks : At(u, "check") \/ At(u, "flush")
        BY <1>3, <1>b DEF Delete
    <2> QED
        BY <1>3, <2>1 DEF Delete
<1>4. ASSUME NEW t \in Callers, Flush(t) PROVE Flusher
    BY <1>4 DEF Flush, Tasks
<1>5. ASSUME NEW t \in Tasks, PutManyCheck(t) PROVE Flusher
    BY <1>5 DEF PutManyCheck, Full
<1>6. ASSUME NEW t \in Tasks, Take(t) PROVE Flusher
    BY <1>6, <1>a DEF Take
<1>7. ASSUME NEW t \in Tasks, NEW b \in Blocks,
             Write(t, b) \/ DeleteInner(t, b)
      PROVE  Flusher
    <2>1. PICK u \in Tasks : At(u, "check") \/ At(u, "flush")
        BY <1>7, <1>b DEF Write, DeleteInner
    <2> QED
        BY <1>7, <2>1 DEF Write, DeleteInner
<1>8. CASE Wake
    BY <1>8 DEF Wake, Tasks
<1>9. CASE Age \/ UNCHANGED cvars
    BY <1>9, <1>b DEF Age, cvars
<1>10. CASE Crash
    BY <1>10, <1>a DEF Crash
<1>11. ASSUME NEW t \in Tasks, WriteFails(t) \/ DeleteReturns(t) PROVE Flusher
    <2>1. PICK u \in Tasks : At(u, "check") \/ At(u, "flush")
        BY <1>11, <1>b DEF WriteFails, DeleteReturns
    <2> QED
        BY <1>11, <2>1 DEF WriteFails, DeleteReturns
<1> QED
    BY <1>1, <1>2, <1>3, <1>4, <1>5, <1>6, <1>7, <1>8, <1>9, <1>10, <1>11
    DEF CsNext, Continue

\* Accepted writes: a batch is in flight from the moment it leaves pending, each of its
\* blocks until it is stored.
LEMMA CoalesceHolds == CsInv /\ [CsNext]_cvars => AcceptedIsHeld'
<1> SUFFICES ASSUME CsInv, [CsNext]_cvars PROVE AcceptedIsHeld'
    OBVIOUS
<1> USE DEF CsInv, CsTypeOK, AcceptedIsHeld, Held, At, Goes, Begin
<1>1. ASSUME NEW t \in Callers, NEW b \in Blocks, Put(t, b) PROVE AcceptedIsHeld'
    <2>1. InFlight' = InFlight
        BY <1>1 DEF Put, InFlight, Tasks
    <2> QED
        BY <1>1, <2>1 DEF Put
<1>2. ASSUME NEW t \in Tasks, PutManyCheck(t) \/ DeleteReturns(t)
      PROVE  AcceptedIsHeld'
    <2>1. InFlight' = InFlight
        BY <1>2 DEF PutManyCheck, DeleteReturns, InFlight
    <2> QED
        BY <1>2, <2>1 DEF PutManyCheck, DeleteReturns
<1>3. ASSUME NEW t \in Tasks, Take(t) PROVE AcceptedIsHeld'
    <2>1. InFlight \cup pending \subseteq InFlight' \cup pending'
        BY <1>3 DEF Take, InFlight
    <2> QED
        BY <1>3, <2>1 DEF Take
<1>4. ASSUME NEW t \in Tasks, WriteFails(t) PROVE AcceptedIsHeld'
    <2>1. InFlight \subseteq InFlight' \cup task[t].blocks
        BY <1>4 DEF WriteFails, InFlight
    <2> QED
        BY <1>4, <2>1 DEF WriteFails
<1>5. ASSUME NEW t \in Tasks, NEW b \in Blocks, Write(t, b) PROVE AcceptedIsHeld'
    <2>1. InFlight \subseteq InFlight' \cup {b}
        BY <1>5 DEF Write, InFlight
    <2> QED
        BY <1>5, <2>1 DEF Write
<1>6. ASSUME NEW t \in Tasks, NEW b \in Blocks, DeleteInner(t, b)
      PROVE  AcceptedIsHeld'
    <2>1. InFlight' = InFlight
        BY <1>6 DEF DeleteInner, InFlight
    <2> QED
        BY <1>6, <2>1 DEF DeleteInner
<1>7. CASE Wake
    <2>1. InFlight' = InFlight
        BY <1>7 DEF Wake, InFlight, Tasks
    <2> QED
        BY <1>7, <2>1 DEF Wake
<1>8. CASE Age \/ UNCHANGED cvars
    BY <1>8 DEF Age, cvars, InFlight
<1>9. CASE Crash
    BY <1>9 DEF Crash
<1>10. ASSUME NEW t \in Callers, NEW blocks \in SUBSET Blocks,
              PutMany(t, blocks) \/ Delete(t, blocks)
       PROVE  AcceptedIsHeld'
    <2>1. InFlight' = InFlight
        BY <1>10 DEF PutMany, Delete, InFlight, Tasks
    <2> QED
        BY <1>10, <2>1 DEF PutMany, Delete
<1>11. ASSUME NEW t \in Callers, Flush(t) PROVE AcceptedIsHeld'
    <2>1. InFlight' = InFlight
        BY <1>11 DEF Flush, InFlight, Tasks
    <2> QED
        BY <1>11, <2>1 DEF Flush
<1> QED
    BY <1>1, <1>2, <1>3, <1>4, <1>5, <1>6, <1>7, <1>8, <1>9, <1>10, <1>11
    DEF CsNext, Continue

\* The coalescing store is sound for any number of tasks and blocks: the clock runs
\* while something is pending, a full batch has a task that will flush it, and an
\* accepted write is held until it is deleted or a failed batch or a crash takes it.
THEOREM CoalescingIsSound ==
    CsSpec => [](CsTypeOK /\ PendingIsTimed /\ FullIsFlushed /\ AcceptedIsHeld)
<1>1. CsInit => CsInv
    BY CoalesceInit
<1>2. CsInv /\ [CsNext]_cvars => CsInv'
    BY CoalesceTypes, CoalesceTimes, CoalesceFull, CoalesceHolds DEF CsInv
<1> QED
    BY <1>1, <1>2, PTL DEF CsSpec, CsInv

\* The pending writes, the clock and the tasks keep their types, and no empty batch is
\* handed to the inner store (flush_pending).
THEOREM CoalescingIsTyped == CsSpec => []CsTypeOK
BY CoalescingIsSound, PTL

\* What is pending always has its clock running, so that the background task sees it.
THEOREM PendingWritesAreTimed == CsSpec => []PendingIsTimed
BY CoalescingIsSound, PTL

\* A full batch has a task on the way to flush it (put, put_many).
THEOREM FullBatchesAreFlushed == CsSpec => []FullIsFlushed
BY CoalescingIsSound, PTL
================================================================================
