-------------------------------- MODULE Session --------------------------------
(***************************************************************************)
(* One session of ipfrs-transport (session.rs): the blocks of one fetch,   *)
(* used by several threads at once.  A session is guarded by three locks   *)
(* and a watch channel: `state`, `stats`, the shards of `blocks`, and the  *)
(* channel wait_completion() listens on.  A thread's call is split where   *)
(* it gives up or has to wait for one of them, so that calls interleave as *)
(* the locks allow.                                                        *)
(***************************************************************************)
EXTENDS Integers, FiniteSets

CONSTANTS
    Threads,
    Cids,
    Ops,        \* the calls the threads make, a subset of AllOps
    Usages,     \* how the session may be used: whether it was given an event sender
                \* (event_tx), and how its callers behave: "any", calls come in any
                \* order; "orderly", each block is added once, before any is
                \* reported, and reported once, and nobody pauses or cancels
    MaxCalls    \* bound: calls made in total

AllOps == {"add", "received", "failed", "pause", "resume", "cancel", "wait"}

ASSUME SessionAssumption ==
    /\ Ops \subseteq AllOps
    /\ Usages \subseteq [callers : {"any", "orderly"}, events : BOOLEAN]
    /\ MaxCalls \in Nat
    /\ IsFiniteSet(Cids)

VARIABLES
    usage,        \* how this session is used, one of Usages
    state,        \* SessionState
    watch,        \* the watch channel: its value and the number of sends
    block,        \* cid -> "absent", "pending", or "done" (completed_at is set)
    stats,        \* total_blocks, blocks_received, blocks_failed
    call,         \* thread -> the call it is in: where, for which block, ...
    completions,  \* history: how often mark_* decided to complete the session
    reported,     \* history: the blocks reported received or failed
    calls         \* calls made so far

svars == <<usage, state, watch, block, stats, call, completions, reported, calls>>

States   == {"Active", "Paused", "Completed", "Cancelled"}
Terminal == {"Completed", "Cancelled"}

Orderly == usage.callers = "orderly"

Events == usage.events

Idle == [at |-> "idle"]

At(t, place) == call[t].at = place

\* mark_received keeps the DashMap guard of its block until it returns, mark_failed too.
ReceiveSteps == {"recvStats", "recvState", "recvWatch", "recvDone", "recvEvents"}
FailSteps    == {"failStats", "failState", "failWatch", "failDone"}

WriteGuarded(c) == \E t \in Threads : call[t].at \in ReceiveSteps /\ call[t].cid = c
Guarded(c)      == WriteGuarded(c)
                   \/ \E t \in Threads : call[t].at \in FailSteps /\ call[t].cid = c

\* mark_failed completes the session while it holds the write lock of `stats`.
StatsLocked == \E t \in Threads : call[t].at \in {"failState", "failWatch", "failDone"}

Waiting(t) == call[t].at \in {"waitCheck", "waitChanged", "waitStats"}

SInit ==
    /\ usage \in Usages
    /\ state = "Active"
    /\ watch = [value |-> "Active", version |-> 0]
    /\ block = [c \in Cids |-> "absent"]
    /\ stats = [total |-> 0, received |-> 0, failed |-> 0]
    /\ call = [t \in Threads |-> Idle]
    /\ completions = 0
    /\ reported = {}
    /\ calls = 0

--------------------------------------------------------------------------------

\* An idle thread makes a call; every call of the bound counts.
Call(t, op) ==
    /\ At(t, "idle") /\ op \in Ops
    /\ Orderly => op \notin {"pause", "resume", "cancel"}
    /\ calls < MaxCalls
    /\ calls' = calls + 1

Goto(t, r) == call' = [call EXCEPT ![t] = r]

Return(t) == Goto(t, Idle)

Step(t, place) == call' = [call EXCEPT ![t].at = place]

\* Mutant: one block short of the total is enough.
IsCompleteEarly(s) == s.received + s.failed + 1 >= s.total

\* Mutant: the total must be exceeded.
IsCompleteStrict(s) == s.received + s.failed > s.total

\* SessionStats::is_complete.
IsComplete(s) == s.received + s.failed >= s.total

\* Mutant: the value is replaced without waking the receivers.
PublishSilently(s) == watch' = [watch EXCEPT !.value = s]

\* watch::Sender::send.
Publish(s) == watch' = [value |-> s, version |-> watch.version + 1]

--------------------------------------------------------------------------------
(* add_block, add_blocks: check the state, insert, count.                       *)

AddBlock(t, c) ==
    /\ Call(t, "add")
    /\ Orderly => /\ reported = {} /\ block[c] = "absent"
                       /\ \A u \in Threads : ~ (At(u, "addInsert") /\ call[u].cid = c)
    /\ IF state = "Active" THEN Goto(t, [at |-> "addInsert", cid |-> c])
                           ELSE UNCHANGED call
    /\ UNCHANGED <<usage, state, watch, block, stats, completions, reported>>

AddInsert(t) ==
    /\ At(t, "addInsert")
    /\ ~ Guarded(call[t].cid)
    /\ block' = [block EXCEPT ![call[t].cid] = "pending"]
    /\ Step(t, "addCount")
    /\ UNCHANGED <<usage, state, watch, stats, completions, reported, calls>>

\* Mutant: the total goes down.
AddCountDown(t) ==
    /\ At(t, "addCount") /\ ~ StatsLocked
    /\ stats' = [stats EXCEPT !.total = @ - 1]
    /\ Return(t)
    /\ UNCHANGED <<usage, state, watch, block, completions, reported, calls>>

AddCount(t) ==
    /\ At(t, "addCount") /\ ~ StatsLocked
    /\ stats' = [stats EXCEPT !.total = @ + 1]
    /\ Return(t)
    /\ UNCHANGED <<usage, state, watch, block, completions, reported, calls>>

--------------------------------------------------------------------------------
(* mark_received and mark_failed: look the block up, count under the stats      *)
(* lock, complete the session if this was the last block, send the events.      *)

MayReport(c) ==
    /\ block[c] # "absent"
    /\ Orderly => /\ c \notin reported
                       /\ \A t \in Threads : call[t].at \notin {"addInsert", "addCount"}

MarkReceived(t, c) ==
    /\ Call(t, "received")
    /\ MayReport(c) /\ ~ Guarded(c)
    /\ block' = [block EXCEPT ![c] = "done"]
    /\ reported' = reported \cup {c}
    /\ Goto(t, [at |-> "recvStats", cid |-> c])
    /\ UNCHANGED <<usage, state, watch, stats, completions>>

RecvStats(t) ==
    /\ At(t, "recvStats") /\ ~ StatsLocked
    /\ stats' = [stats EXCEPT !.received = @ + 1]
    /\ IF IsComplete(stats') /\ state = "Active"
       THEN Step(t, "recvState") /\ completions' = completions + 1
       ELSE Step(t, "recvEvents") /\ UNCHANGED completions
    /\ UNCHANGED <<usage, state, watch, block, reported, calls>>

\* transition_state(Completed): write the state, send it, report the statistics.
RecvState(t) ==
    /\ At(t, "recvState")
    /\ state' = "Completed"
    /\ Step(t, "recvWatch")
    /\ UNCHANGED <<usage, watch, block, stats, completions, reported, calls>>

RecvWatch(t) ==
    /\ At(t, "recvWatch")
    /\ Publish("Completed")
    /\ Step(t, "recvDone")
    /\ UNCHANGED <<usage, state, block, stats, completions, reported, calls>>

RecvDone(t) ==
    /\ At(t, "recvDone")
    /\ Events => ~ StatsLocked
    /\ Step(t, "recvEvents")
    /\ UNCHANGED <<usage, state, watch, block, stats, completions, reported, calls>>

\* The BlockReceived and Progress events; the latter reads the statistics.
RecvEvents(t) ==
    /\ At(t, "recvEvents")
    /\ Events => ~ StatsLocked
    /\ Return(t)
    /\ UNCHANGED <<usage, state, watch, block, stats, completions, reported, calls>>

MarkFailed(t, c) ==
    /\ Call(t, "failed")
    /\ MayReport(c) /\ ~ WriteGuarded(c)
    /\ reported' = reported \cup {c}
    /\ Goto(t, [at |-> "failStats", cid |-> c])
    /\ UNCHANGED <<usage, state, watch, block, stats, completions>>

\* The stats lock is kept when the session is to be completed.
FailStats(t) ==
    /\ At(t, "failStats") /\ ~ StatsLocked
    /\ stats' = [stats EXCEPT !.failed = @ + 1]
    /\ IF IsComplete(stats') /\ state = "Active"
       THEN Step(t, "failState") /\ completions' = completions + 1
       ELSE Return(t) /\ UNCHANGED completions
    /\ UNCHANGED <<usage, state, watch, block, reported, calls>>

FailState(t) ==
    /\ At(t, "failState")
    /\ state' = "Completed"
    /\ Step(t, "failWatch")
    /\ UNCHANGED <<usage, watch, block, stats, completions, reported, calls>>

FailWatch(t) ==
    /\ At(t, "failWatch")
    /\ Publish("Completed")
    /\ Step(t, "failDone")
    /\ UNCHANGED <<usage, state, block, stats, completions, reported, calls>>

\* With an event sender transition_state reads `stats`, which this thread has locked
\* for writing: parking_lot locks are not reentrant, so the step is never enabled.
FailDone(t) ==
    /\ At(t, "failDone")
    /\ Events => ~ StatsLocked
    /\ Return(t)
    /\ UNCHANGED <<usage, state, watch, block, stats, completions, reported, calls>>

--------------------------------------------------------------------------------
(* pause, resume, cancel: unconditional transitions.                            *)

Target(op) == CASE op = "pause"  -> "Paused"
                [] op = "resume" -> "Active"
                [] op = "cancel" -> "Cancelled"

Move(t, op) ==
    /\ Call(t, op)
    /\ state' = Target(op)
    /\ Goto(t, [at |-> "moveWatch", to |-> Target(op)])
    /\ UNCHANGED <<usage, watch, block, stats, completions, reported>>

MoveWatch(t) ==
    /\ At(t, "moveWatch")
    /\ Publish(call[t].to)
    /\ Return(t)
    /\ UNCHANGED <<usage, state, block, stats, completions, reported, calls>>

--------------------------------------------------------------------------------
(* wait_completion.  The receiver it clones has never been read, so the first   *)
(* changed() returns at once if anything was sent since the session was made.   *)

Wait(t) ==
    /\ Call(t, "wait")
    /\ Goto(t, [at |-> "waitCheck", seen |-> 0])
    /\ UNCHANGED <<usage, state, watch, block, stats, completions, reported>>

\* Mutant: subscribe to the channel only after the state was checked.
WaitCheckLate(t) ==
    /\ At(t, "waitCheck")
    /\ IF state \in Terminal
       THEN Step(t, "waitStats")
       ELSE Goto(t, [at |-> "waitChanged", seen |-> watch.version])
    /\ UNCHANGED <<usage, state, watch, block, stats, completions, reported, calls>>

WaitCheck(t) ==
    /\ At(t, "waitCheck")
    /\ IF state \in Terminal THEN Step(t, "waitStats") ELSE Step(t, "waitChanged")
    /\ UNCHANGED <<usage, state, watch, block, stats, completions, reported, calls>>

\* changed().await returned: look at the value now in the channel.
WaitChanged(t) ==
    /\ At(t, "waitChanged")
    /\ watch.version > call[t].seen
    /\ call' = [call EXCEPT ![t].seen = watch.version,
                            ![t].at = IF watch.value \in Terminal THEN "waitStats" ELSE @]
    /\ UNCHANGED <<usage, state, watch, block, stats, completions, reported, calls>>

WaitStats(t) ==
    /\ At(t, "waitStats") /\ ~ StatsLocked
    /\ Return(t)
    /\ UNCHANGED <<usage, state, watch, block, stats, completions, reported, calls>>

--------------------------------------------------------------------------------

Begin(t) ==
    \/ \E c \in Cids : AddBlock(t, c) \/ MarkReceived(t, c) \/ MarkFailed(t, c)
    \/ \E op \in {"pause", "resume", "cancel"} : Move(t, op)
    \/ Wait(t)

Continue(t) ==
    \/ AddInsert(t) \/ AddCount(t)
    \/ RecvStats(t) \/ RecvState(t) \/ RecvWatch(t) \/ RecvDone(t) \/ RecvEvents(t)
    \/ FailStats(t) \/ FailState(t) \/ FailWatch(t) \/ FailDone(t)
    \/ MoveWatch(t)
    \/ WaitCheck(t) \/ WaitChanged(t) \/ WaitStats(t)

\* No call is under way, except those that wait for the session to end.
Quiet == \A t \in Threads : call[t].at = "idle" \/ At(t, "waitChanged")

\* A mark_failed waits for the lock of `stats` that it holds itself.
SelfLocked == Events /\ \E t \in Threads : At(t, "failDone")

\* The threads may leave the session alone for good, and have to when one of them has
\* locked itself out.
Rest == (Quiet \/ SelfLocked) /\ UNCHANGED svars

SNext == Rest \/ \E t \in Threads : Begin(t) \/ Continue(t)

\* Threads are scheduled: a call that can go on goes on.
SFairness == \A t \in Threads : WF_svars(Continue(t))

SSpec == SInit /\ [][SNext]_svars /\ SFairness

--------------------------------------------------------------------------------
(* Properties.                                                                  *)

Calls ==
    [at : {"idle"}]
    \cup [at : {"addInsert", "addCount"} \cup ReceiveSteps \cup FailSteps, cid : Cids]
    \cup [at : {"moveWatch"}, to : States]
    \cup [at : {"waitCheck", "waitChanged", "waitStats"}, seen : Nat]

\* The types of the session's fields and of the calls under way.
STypeOK ==
    /\ usage \in Usages /\ state \in States
    /\ watch \in [value : States, version : Nat]
    /\ block \in [Cids -> {"absent", "pending", "done"}]
    /\ stats \in [total : Nat, received : Nat, failed : Nat]
    /\ call \in [Threads -> Calls]
    /\ completions \in Nat /\ reported \subseteq Cids /\ calls \in 0..MaxCalls

\* wait_completion() misses no wake-up: a waiter that sleeps on the watch channel has
\* seen the latest value sent, and that value does not end the session.
NoLostWakeup ==
    \A t \in Threads :
        At(t, "waitChanged") /\ call[t].seen = watch.version => watch.value \notin Terminal

Present == {c \in Cids : block[c] # "absent"}

\* An orderly session that completes has heard of every block it was given: concurrent mark_received
\* and mark_failed calls never let the counters run ahead of the blocks.
CompletedMeansReported == Orderly /\ state = "Completed" => Present \subseteq reported

\* However the last reports interleave, at most one of them completes the session, so
\* there is one Completed event and completed_at is set once.
CompletesOnce == Orderly => completions <= 1

\* Once every block of an unpaused session is reported and the calls have returned, the
\* session and its watch channel both say Completed.
AllReportedCompletes ==
    Orderly /\ Quiet /\ Present # {} /\ reported = Present /\ stats.total > 0 =>
        state = "Completed" /\ watch.value = "Completed"

\* A thread waiting for an orderly session whose blocks have all been reported gets its
\* answer, with one exception: a session with an event sender whose last report is a
\* mark_failed.  That call then waits for itself with `stats` locked for writing, and
\* wait_completion, which reads `stats` last, never returns either.
WaitersReturn ==
    \A t \in Threads :
        (Orderly /\ Waiting(t) /\ completions > 0) ~> (~ Waiting(t) \/ SelfLocked)
================================================================================
