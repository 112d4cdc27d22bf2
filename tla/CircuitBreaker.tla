----------------------------- MODULE CircuitBreaker -----------------------------
(***************************************************************************)
(* The circuit breaker of ipfrs-transport (peer_manager.rs).  Its six      *)
(* fields have a lock each.  is_request_allowed, record_success and        *)
(* record_failure hold the `state` lock from beginning to end and are one  *)
(* step; reset takes and drops the locks one after the other, so its       *)
(* writes interleave with the calls of other threads.                      *)
(***************************************************************************)
EXTENDS Integers, Sequences

CONSTANTS
    FailureThreshold,   \* failures in the window that open the circuit
    SuccessThreshold,   \* successes in half-open that close it
    OpenTimeout,        \* how long it stays open before a probe is let through
    Window,             \* how long a failure counts
    Resets,             \* whether some thread calls reset(): a subset of BOOLEAN
    MaxFailures,        \* bound: failures on record
    MaxTime             \* bound: the clock

ASSUME BreakerAssumption ==
    /\ FailureThreshold \in Nat \ {0} /\ SuccessThreshold \in Nat \ {0}
    /\ OpenTimeout \in Nat /\ Window \in Nat /\ MaxTime \in Nat /\ MaxFailures \in Nat
    /\ Resets \subseteq BOOLEAN

VARIABLES
    state,         \* CircuitState
    successCount,  \* success_count
    openedAt,      \* opened_at, Never when None
    failures,      \* failure_timestamps, oldest first
    clock,         \* Instant::now()
    withReset,     \* one of Resets
    resetting      \* how many of its writes a reset() under way has made, 0 if none

bvars == <<state, successCount, openedAt, failures, clock, withReset, resetting>>

Never == -1

BInit ==
    /\ state = "Closed"
    /\ successCount = 0
    /\ openedAt = Never
    /\ failures = <<>>
    /\ clock = 0
    /\ withReset \in Resets
    /\ resetting = 0

\* is_request_allowed that lets the first request after the timeout through; in every
\* other case the call changes nothing.
Probe ==
    /\ state = "Open"
    /\ openedAt # Never /\ clock - openedAt >= OpenTimeout
    /\ state' = "HalfOpen"
    /\ successCount' = 0
    /\ UNCHANGED <<openedAt, failures, clock, withReset, resetting>>

\* Mutant: closing the circuit keeps the failures that opened it.
SuccessKeepsFailures ==
    \/ /\ state = "Closed"
       /\ failures' = <<>>
       /\ UNCHANGED <<state, successCount, openedAt, clock, withReset, resetting>>
    \/ /\ state = "HalfOpen"
       /\ IF successCount + 1 >= SuccessThreshold
          THEN state' = "Closed" /\ successCount' = 0
          ELSE successCount' = successCount + 1 /\ UNCHANGED state
       /\ UNCHANGED <<openedAt, failures, clock, withReset, resetting>>

\* record_success, of a request sent in whatever state; ignored in Open.
RecordSuccess ==
    \/ /\ state = "Closed"
       /\ failures' = <<>>
       /\ UNCHANGED <<state, successCount, openedAt, clock, withReset, resetting>>
    \/ /\ state = "HalfOpen"
       /\ IF successCount + 1 >= SuccessThreshold
          THEN state' = "Closed" /\ successCount' = 0 /\ failures' = <<>>
          ELSE successCount' = successCount + 1 /\ UNCHANGED <<state, failures>>
       /\ UNCHANGED <<openedAt, clock, withReset, resetting>>

\* How many failures are popped from the front: the oldest, up to the first that still
\* counts at this moment.
TooOld(s) ==
    CHOOSE n \in 0..Len(s) :
        /\ \A i \in 1..n : clock - s[i] > Window
        /\ n < Len(s) => clock - s[n + 1] <= Window

InWindow(s) == SubSeq(s, TooOld(s) + 1, Len(s))

\* Mutant: the circuit opens without recording when.
TripUntimed == state' = "Open" /\ UNCHANGED openedAt

\* Open the circuit.
Trip == state' = "Open" /\ openedAt' = clock

\* record_failure; its Instant::now(), read just before the lock, is this moment's.
RecordFailure ==
    /\ failures' = InWindow(Append(failures, clock))
    /\ \/ /\ state = "Closed"
          /\ IF Len(failures') >= FailureThreshold THEN Trip ELSE UNCHANGED <<state, openedAt>>
          /\ UNCHANGED successCount
       \/ /\ state = "HalfOpen"
          /\ Trip
          /\ successCount' = 0
       \/ state = "Open" /\ UNCHANGED <<state, openedAt, successCount>>
    /\ UNCHANGED <<clock, withReset, resetting>>

\* reset: state, success_count, opened_at and the timestamps, in this order (the fields
\* failure_count and last_failure_time, which no decision reads, are left out).
Reset ==
    /\ withReset
    /\ resetting' = (resetting + 1) % 4
    /\ \/ resetting = 0 /\ state' = "Closed" /\ UNCHANGED <<successCount, openedAt, failures>>
       \/ resetting = 1 /\ successCount' = 0 /\ UNCHANGED <<state, openedAt, failures>>
       \/ resetting = 2 /\ openedAt' = Never /\ UNCHANGED <<state, successCount, failures>>
       \/ resetting = 3 /\ failures' = <<>> /\ UNCHANGED <<state, successCount, openedAt>>
    /\ UNCHANGED <<clock, withReset>>

Wait ==
    /\ clock < MaxTime
    /\ clock' = clock + 1
    /\ UNCHANGED <<state, successCount, openedAt, failures, withReset, resetting>>

\* Bound: few enough failures, while the clock can still run out the timeout.
BNext ==
    \/ Probe
    \/ RecordSuccess
    \/ clock + OpenTimeout <= MaxTime /\ Len(failures) < MaxFailures /\ RecordFailure
    \/ Reset
    \/ Wait
    \/ clock = MaxTime /\ UNCHANGED bvars

\* Time passes, and callers keep asking is_request_allowed().
BSpec == BInit /\ [][BNext]_bvars /\ WF_bvars(Wait) /\ WF_bvars(Probe)

--------------------------------------------------------------------------------

\* However the circuit came to be closed, by its successes or by a reset() that raced
\* requests and has finished, the failures on record are too few to open it: those from
\* before it was closed are gone.
ClosedIsClean == state = "Closed" /\ resetting = 0 => Len(failures) < FailureThreshold

\* While callers keep asking, a circuit that is never reset lets a request through sooner
\* or later.
OpenEnds == ~ withReset /\ state = "Open" ~> state # "Open"
=================================================================================
