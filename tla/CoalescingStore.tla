---------------------------- MODULE CoalescingStore -----------------------------
(***************************************************************************)
(* CoalescingBlockStore of ipfrs-storage (coalesce.rs): writes are kept    *)
(* pending under a lock and handed to the inner store in batches, by the   *)
(* writer that fills a batch, by flush() and by a background task once the *)
(* oldest write is old enough.  The lock is never held over the inner      *)
(* store's await: a batch under way is neither pending nor stored.  The    *)
(* store is one with auto_flush, which is the default.                     *)
(***************************************************************************)
EXTENDS Integers, FiniteSets

CONSTANTS
    Blocks,
    Callers,        \* the tasks that use the store
    Background,     \* the background flush task
    max_batch_size,
    MaxCalls,       \* bound: calls the tasks make
    MaxCrashes      \* bound: crashes of the process

ASSUME CoalesceAssumption ==
    /\ IsFiniteSet(Blocks) /\ Background \notin Callers
    /\ max_batch_size \in Nat \ {0} /\ MaxCalls \in Nat /\ MaxCrashes \in Nat

VARIABLES
    pending,        \* the blocks waiting to be written
    oldest_write,   \* "none", or how old the oldest of them is: "young" or "due"
    inner,          \* what the inner store holds
    task,           \* what each task is doing
    owed,           \* history: blocks written and not deleted since, less those that a
                    \* failed batch or a crash is known to have taken
    calls, crashes  \* calls and crashes so far

cvars == <<pending, oldest_write, inner, task, owed, calls, crashes>>

Tasks == Callers \cup {Background}

Idle == [at |-> "idle", blocks |-> {}]

At(t, step) == task[t].at = step

Goes(t, step, blocks) == task' = [task EXCEPT ![t] = [at |-> step, blocks |-> blocks]]

\* Where a block may be: waiting, in the batch of a flush under way, or stored.
InFlight == UNION {task[t].blocks : t \in {u \in Tasks : At(u, "write")}}

Held == pending \cup InFlight \cup inner

CsInit ==
    /\ pending = {} /\ oldest_write = "none" /\ inner = {}
    /\ task = [t \in Tasks |-> Idle]
    /\ owed = {} /\ calls = 0 /\ crashes = 0

Begin(t) == At(t, "idle") /\ t # Background /\ calls < MaxCalls /\ calls' = calls + 1

--------------------------------------------------------------------------------
(* Writes.                                                                     *)

\* Whether a batch is large enough to be flushed at once.
Full(blocks) == Cardinality(blocks) >= max_batch_size

\* The first write of a batch starts the clock.
Arm == oldest_write' = IF oldest_write = "none" THEN "young" ELSE oldest_write

\* put: the size is looked at under the lock that adds the block.
Put(t, b) ==
    /\ Begin(t)
    /\ pending' = pending \cup {b} /\ Arm
    /\ owed' = owed \cup {b}
    /\ Goes(t, IF Full(pending') THEN "flush" ELSE "idle", {})
    /\ UNCHANGED <<inner, crashes>>

\* Mutant: the clock is left to put.
PutManyUnarmed(t, blocks) ==
    /\ Begin(t)
    /\ pending' = pending \cup blocks
    /\ owed' = owed \cup blocks
    /\ Goes(t, "check", {})
    /\ UNCHANGED <<oldest_write, inner, crashes>>

\* put_many: the size is looked at in a second critical section, and the clock
\* starts for an empty list too.
PutMany(t, blocks) ==
    /\ Begin(t)
    /\ pending' = pending \cup blocks /\ Arm
    /\ owed' = owed \cup blocks
    /\ Goes(t, "check", {})
    /\ UNCHANGED <<inner, crashes>>

PutManyCheck(t) ==
    /\ At(t, "check")
    /\ Goes(t, IF Full(pending) THEN "flush" ELSE "idle", {})
    /\ UNCHANGED <<pending, oldest_write, inner, owed, calls, crashes>>

--------------------------------------------------------------------------------
(* Flushes.                                                                    *)

\* flush and flush_writes.
Flush(t) ==
    /\ Begin(t)
    /\ Goes(t, "flush", {})
    /\ UNCHANGED <<pending, oldest_write, inner, owed, crashes>>

\* The background task wakes up and finds the oldest write old enough.
Wake ==
    /\ At(Background, "idle") /\ oldest_write = "due"
    /\ Goes(Background, "flush", {})
    /\ UNCHANGED <<pending, oldest_write, inner, owed, calls, crashes>>

\* flush_pending takes the batch out of pending; with nothing pending it returns.
Take(t) ==
    /\ At(t, "flush")
    /\ IF pending = {}
       THEN Goes(t, "idle", {}) /\ UNCHANGED <<pending, oldest_write>>
       ELSE Goes(t, "write", pending) /\ pending' = {} /\ oldest_write' = "none"
    /\ UNCHANGED <<inner, owed, calls, crashes>>

\* Mutant: what is pending is cleared when the batch has been written.
WriteThenClear(t, b) ==
    /\ At(t, "write") /\ b \in task[t].blocks
    /\ inner' = inner \cup {b}
    /\ IF task[t].blocks = {b}
       THEN Goes(t, "idle", {}) /\ pending' = {} /\ oldest_write' = "none"
       ELSE Goes(t, "write", task[t].blocks \ {b}) /\ UNCHANGED <<pending, oldest_write>>
    /\ UNCHANGED <<owed, calls, crashes>>

\* External: the inner store's put_many writes one block after the other...
Write(t, b) ==
    /\ At(t, "write") /\ b \in task[t].blocks
    /\ inner' = inner \cup {b}
    /\ IF task[t].blocks = {b} THEN Goes(t, "idle", {})
       ELSE Goes(t, "write", task[t].blocks \ {b})
    /\ UNCHANGED <<pending, oldest_write, owed, calls, crashes>>

\* ... and may fail at any of them.  The call returns the error, which the background
\* task drops, and nobody puts the rest of the batch back.
WriteFails(t) ==
    /\ At(t, "write")
    /\ Goes(t, "idle", {})
    /\ UNCHANGED <<pending, oldest_write, inner, calls, crashes>>
    /\ owed' = owed \ (task[t].blocks \ Held')

--------------------------------------------------------------------------------
(* Deletes.                                                                    *)

\* delete and delete_many: what is pending goes first, and the clock stops when
\* nothing is left.
Delete(t, blocks) ==
    /\ Begin(t)
    /\ pending' = pending \ blocks
    /\ oldest_write' = IF pending' = {} THEN "none" ELSE oldest_write
    /\ owed' = owed \ blocks
    /\ Goes(t, "delete", blocks)
    /\ UNCHANGED <<inner, crashes>>

\* External: the inner store deletes a block.  A block written again meanwhile goes
\* too if it has been flushed: the write counts as the earlier of the two.
DeleteInner(t, b) ==
    /\ At(t, "delete") /\ b \in task[t].blocks
    /\ Goes(t, "delete", task[t].blocks \ {b})
    /\ inner' = inner \ {b}
    /\ UNCHANGED <<pending, oldest_write, calls, crashes>>
    /\ owed' = owed \ ({b} \ Held')

\* The delete returns: everything is deleted, or the inner store failed.
DeleteReturns(t) ==
    /\ At(t, "delete")
    /\ Goes(t, "idle", {})
    /\ UNCHANGED <<pending, oldest_write, inner, owed, calls, crashes>>

--------------------------------------------------------------------------------

\* max_batch_time passes since the oldest write.
Age ==
    /\ oldest_write = "young" /\ oldest_write' = "due"
    /\ UNCHANGED <<pending, inner, task, owed, calls, crashes>>

\* The process stops, or crashes, and starts again: nothing writes what is pending.
Crash ==
    /\ crashes < MaxCrashes /\ crashes' = crashes + 1
    /\ pending' = {} /\ oldest_write' = "none"
    /\ task' = [t \in Tasks |-> Idle]
    /\ owed' = owed \cap inner
    /\ UNCHANGED <<inner, calls>>

\* A task carries on with the call it is in.
Continue(t) ==
    \/ PutManyCheck(t) \/ Take(t) \/ WriteFails(t) \/ DeleteReturns(t)
    \/ \E b \in Blocks : Write(t, b) \/ DeleteInner(t, b)

CsNext ==
    \/ \E t \in Callers :
        \/ \E b \in Blocks : Put(t, b)
        \/ \E blocks \in SUBSET Blocks : PutMany(t, blocks) \/ Delete(t, blocks)
        \/ Flush(t)
    \/ \E t \in Tasks : Continue(t)
    \/ Wake \/ Age \/ Crash

\* Time passes, the background task wakes up again and again, and a call that has
\* begun is driven on.
CsSpec ==
    /\ CsInit /\ [][CsNext]_cvars
    /\ WF_cvars(Age) /\ WF_cvars(Wake) /\ \A t \in Tasks : WF_cvars(Continue(t))

--------------------------------------------------------------------------------
(* Properties.                                                                 *)

CsTypeOK ==
    /\ pending \subseteq Blocks /\ inner \subseteq Blocks /\ owed \subseteq Blocks
    /\ oldest_write \in {"none", "young", "due"}
    /\ task \in [Tasks -> [at : {"idle", "check", "flush", "write", "delete"},
                           blocks : SUBSET Blocks]]
    /\ \A t \in Tasks : At(t, "write") => task[t].blocks # {}
    /\ calls \in Nat /\ crashes \in Nat

\* The clock runs whenever something is pending, whichever writes, flushes and deletes
\* overlap: the background task looks at nothing else.
PendingIsTimed == pending # {} => oldest_write # "none"

\* A batch that is large enough has a task that is about to flush it, so pending only
\* grows by the writes that overlap.
FullIsFlushed ==
    Cardinality(pending) >= max_batch_size =>
        \E t \in Tasks : At(t, "check") \/ At(t, "flush")

\* A write that was accepted is pending, in a batch under way or stored until it is
\* deleted: only a batch that fails and a crash lose any.
AcceptedIsHeld == owed \subseteq Held

\* What is pending is written within the next batch, or deleted, or lost in it: it does
\* not wait for another write to come.  This takes the background task, which a store
\* made with without_auto_flush does not have.
PendingIsFlushed == \A b \in Blocks : b \in pending ~> b \notin pending
================================================================================
