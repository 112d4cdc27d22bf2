---------------------------- MODULE RequestCoalescer ----------------------------
(***************************************************************************)
(* RequestCoalescer of ipfrs-transport (request_coalescing.rs): callers    *)
(* that want the same block join the request that is pending instead of    *)
(* fetching it again.  Requests for different blocks share nothing but     *)
(* statistics, so this is the entry of one block.  A call is split where   *)
(* it awaits or lets go of the entry's guard.  The callers are tasks on a  *)
(* few worker threads, and a task that needs a guard another one holds     *)
(* blocks the worker it is on.                                             *)
(***************************************************************************)
EXTENDS Integers, FiniteSets

CONSTANTS
    Callers,
    max_waiters_per_request,
    Workers,    \* the worker threads of the runtime
    MaxCalls    \* bound: requests registered, and so channels made

ASSUME CoalescerAssumption ==
    /\ max_waiters_per_request \in Nat \ {0, 1} /\ MaxCalls \in Nat
    /\ Workers \in Nat \ {0}

VARIABLES
    pending,    \* the pending request, or None: its channel and waiter_count
    outcome,    \* channel -> "open", what was sent on it, or "closed" unsent
    caller,     \* what each caller is doing, the channel it listens on, and whether
                \* it blocks a worker
    channels,   \* channels made so far
    calls,      \* requests registered so far
    abandoned   \* history: a caller went away without saying how its fetch ended

qvars == <<pending, outcome, caller, channels, calls, abandoned>>

None == [tx |-> 0, waiter_count |-> 0]

Idle == [at |-> "idle", rx |-> 0, blocks |-> FALSE]

At(u, step) == caller[u].at = step

Goes(u, step, rx) == caller' = [caller EXCEPT ![u] = [at |-> step, rx |-> rx, blocks |-> FALSE]]

\* The guard of the entry is kept over the await for the statistics.
GuardFree == \A u \in Callers : ~ At(u, "stats")

Blocked == {u \in Callers : caller[u].blocks}

\* A worker runs the caller.
Runs(u) == caller[u].blocks \/ Cardinality(Blocked) < Workers

\* The caller comes to a step that needs the guard, and blocks its worker.
Block(u) ==
    /\ caller[u].at \in {"check", "remove", "insert", "fetch"} /\ ~ GuardFree
    /\ caller' = [caller EXCEPT ![u].blocks = TRUE]
    /\ UNCHANGED <<pending, outcome, channels, calls, abandoned>>

QInit ==
    /\ pending = None
    /\ outcome = [ch \in 1..MaxCalls |-> "open"]
    /\ caller = [u \in Callers |-> Idle]
    /\ channels = 0 /\ calls = 0 /\ abandoned = FALSE

\* The entry goes, with the sender of its channel: this is what its receivers get.
Remove(result) ==
    /\ pending' = None
    /\ outcome' = IF pending = None THEN outcome
                  ELSE [outcome EXCEPT ![pending.tx] = result]

--------------------------------------------------------------------------------
(* register_request                                                            *)

Register(u) ==
    /\ At(u, "idle") /\ calls < MaxCalls
    /\ calls' = calls + 1
    /\ Goes(u, "check", 0)
    /\ UNCHANGED <<pending, outcome, channels, abandoned>>

\* Join the request that is pending, or find none.
Check(u) ==
    /\ At(u, "check") /\ GuardFree
    /\ IF pending = None
       THEN Goes(u, "insert", 0) /\ UNCHANGED pending
       ELSE Goes(u, "stats", pending.tx)
            /\ pending' = [pending EXCEPT !.waiter_count = @ + 1]
    /\ UNCHANGED <<outcome, channels, calls, abandoned>>

\* Whether there are too many waiters on the request.
Crowded == pending.waiter_count >= max_waiters_per_request

\* The statistics are counted: wait, or force a fetch of one's own.
Joined(u) ==
    /\ At(u, "stats")
    /\ Goes(u, IF Crowded THEN "remove" ELSE "wait", caller[u].rx)
    /\ UNCHANGED <<pending, outcome, channels, calls, abandoned>>

\* Mutant: the one who forces a fetch keeps the sender of the request it removed.
ForceFetchKeepingSender(u) ==
    /\ At(u, "remove") /\ GuardFree
    /\ pending' = None
    /\ Goes(u, "fetch", 0)
    /\ UNCHANGED <<outcome, channels, calls, abandoned>>

\* The guard was let go: whatever entry there is now is removed.
ForceFetch(u) ==
    /\ At(u, "remove") /\ GuardFree
    /\ Remove("closed")
    /\ Goes(u, "fetch", 0)
    /\ UNCHANGED <<channels, calls, abandoned>>

\* A new request, in place of one that was made since Check.
Insert(u) ==
    /\ At(u, "insert") /\ GuardFree /\ channels < MaxCalls
    /\ channels' = channels + 1
    /\ outcome' = IF pending = None THEN outcome ELSE [outcome EXCEPT ![pending.tx] = "closed"]
    /\ pending' = [tx |-> channels', waiter_count |-> 1]
    /\ Goes(u, "fetch", 0)
    /\ UNCHANGED <<calls, abandoned>>

--------------------------------------------------------------------------------
(* How a fetch ends                                                            *)

\* Mutant: a fetch that fails keeps the entry for a retry.
FinishKeeping(u, result) ==
    /\ At(u, "fetch") /\ GuardFree
    /\ IF result = "error" THEN UNCHANGED <<pending, outcome>> ELSE Remove(result)
    /\ Goes(u, "idle", 0)
    /\ UNCHANGED <<channels, calls, abandoned>>

\* complete_request, fail_request and cancel_request, on whatever entry there is.
Finish(u, result) ==
    /\ At(u, "fetch") /\ GuardFree
    /\ Remove(result)
    /\ Goes(u, "idle", 0)
    /\ UNCHANGED <<channels, calls, abandoned>>

\* External: the task that fetches is dropped.
Abandon(u) ==
    /\ At(u, "fetch") /\ ~ caller[u].blocks
    /\ Goes(u, "idle", 0)
    /\ abandoned' = TRUE
    /\ UNCHANGED <<pending, outcome, channels, calls>>

\* cleanup_expired, when the request has been pending for too long.
CleanupExpired ==
    /\ pending # None /\ GuardFree
    /\ Remove("error")
    /\ UNCHANGED <<caller, channels, calls, abandoned>>

\* recv returns what was sent, or that the sender is gone.
Recv(u) ==
    /\ At(u, "wait") /\ outcome[caller[u].rx] # "open"
    /\ Goes(u, "idle", 0)
    /\ UNCHANGED <<pending, outcome, channels, calls, abandoned>>

--------------------------------------------------------------------------------

Continue(u) == Check(u) \/ Joined(u) \/ ForceFetch(u) \/ Insert(u) \/ Recv(u)

FetchEnds(u) == \E result \in {"data", "error", "closed"} : Finish(u, result)

QNext ==
    \/ \E u \in Callers :
          Runs(u) /\ (Register(u) \/ Continue(u) \/ FetchEnds(u) \/ Abandon(u) \/ Block(u))
    \/ CleanupExpired

\* A worker that is not blocked runs every caller that can go on, and fetches end.
\* Nobody has to call cleanup_expired.
QSpec ==
    /\ QInit /\ [][QNext]_qvars
    /\ \A u \in Callers :
         /\ WF_qvars(Runs(u) /\ Continue(u))
         /\ WF_qvars(Runs(u) /\ (FetchEnds(u) \/ Abandon(u)))

--------------------------------------------------------------------------------
(* Properties.                                                                 *)

Steps == {"idle", "check", "insert", "stats", "wait", "remove", "fetch"}

EntryOK == pending # None => pending \in [tx : 1..channels, waiter_count : Nat \ {0}]

\* A caller that joined or waits has a channel.
CallerOK ==
    /\ caller \in [Callers -> [at : Steps, rx : 0..channels, blocks : BOOLEAN]]
    /\ \A u \in Callers : caller[u].at \in {"stats", "wait", "remove"} => caller[u].rx # 0

\* The values of the coalescer's fields.
QTypeOK ==
    /\ calls \in 0..MaxCalls /\ channels \in 0..MaxCalls
    /\ outcome \in [1..MaxCalls -> {"open", "data", "error", "closed"}]
    /\ abandoned \in BOOLEAN
    /\ EntryOK /\ CallerOK

\* A request that is pending is being fetched, so that somebody is going to answer its
\* waiters, whichever requests replace, force out or end one another.
PendingIsFetched ==
    pending # None /\ ~ abandoned => \E u \in Callers : At(u, "fetch")

\* A waiter listens to the channel of the pending request or has its answer: no entry
\* goes and leaves its receivers behind.
WaiterHasSender ==
    \A u \in Callers : At(u, "wait") /\ outcome[caller[u].rx] = "open" => caller[u].rx = pending.tx

\* A request with too many waiters is about to be forced out by one of them.
LimitIsEnforced ==
    pending.waiter_count >= max_waiters_per_request =>
        \E u \in Callers : At(u, "stats") \/ At(u, "remove")

\* The request that is pending was left behind: nobody fetches the block any more, as
\* a caller went away, and only cleanup_expired can end it.
LeftBehind == abandoned /\ pending # None /\ \A u \in Callers : ~ At(u, "fetch")

\* The one who holds the entry's guard awaits the lock of the statistics, and every
\* worker that could run it is blocked on the guard.
Starved == ~ GuardFree /\ Cardinality(Blocked) = Workers

\* Whoever waits for a request gets an answer, however requests replace, force out and
\* end one another, with two exceptions: register_request awaits with the guard held,
\* so that callers can block all workers; and nothing calls cleanup_expired for the
\* request of a caller that has gone.
WaitersAreAnswered ==
    \A u \in Callers : At(u, "wait") ~> (~ At(u, "wait") \/ LeftBehind \/ Starved)
================================================================================
