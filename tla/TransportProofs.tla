----------------------------- MODULE TransportProofs -----------------------------
(***************************************************************************)
(* Proofs about two small components of ipfrs-transport that share no      *)
(* state: RequestCoalescer, for any callers and any limit, and             *)
(* CircuitBreaker, for any thresholds, timeout and window.                 *)
(***************************************************************************)
EXTENDS RequestCoalescer, CircuitBreaker, WellFoundedInduction, TLAPS

--------------------------------------------------------------------------------
(* The request coalescer.                                                       *)

\* While a caller holds the guard, the entry it joined stays, and nobody else holds it.
GuardKeepsEntry ==
    \A u \in Callers : At(u, "stats") =>
        /\ pending # None /\ caller[u].rx = pending.tx
        /\ \A v \in Callers : At(v, "stats") => v = u

QInv == QTypeOK /\ PendingIsFetched /\ GuardKeepsEntry /\ WaiterHasSender /\ LimitIsEnforced

\* The steps of the next-state relation, one by one.
Step(u) ==
    \/ Register(u) \/ Check(u) \/ Joined(u) \/ ForceFetch(u) \/ Insert(u) \/ Recv(u)
    \/ Abandon(u) \/ \E result \in {"data", "error", "closed"} : Finish(u, result)

\* A step is a caller's or the owner's.
LEMMA StepsOfNext ==
    ASSUME [QNext]_qvars
    PROVE  \/ \E u \in Callers : Step(u) \/ Block(u)
           \/ CleanupExpired \/ UNCHANGED qvars
BY DEF QNext, Continue, FetchEnds, Step

\* The state a coalescer starts in.
LEMMA CoalescerInit == QInit => QInv
<1> SUFFICES ASSUME QInit PROVE QInv
    OBVIOUS
<1>1. QTypeOK
    <2>1. CallerOK
        BY DEF QInit, CallerOK, Idle, Steps
    <2>2. outcome \in [1..MaxCalls -> {"open", "data", "error", "closed"}]
        BY DEF QInit
    <2>3. 0 \in 0..MaxCalls
        BY CoalescerAssumption
    <2> QED
        BY <2>1, <2>2, <2>3 DEF QInit, QTypeOK, EntryOK
<1>2. PendingIsFetched /\ GuardKeepsEntry /\ WaiterHasSender
    BY DEF QInit, PendingIsFetched, GuardKeepsEntry, WaiterHasSender, Idle, At, None
<1>3. LimitIsEnforced
    BY CoalescerAssumption DEF QInit, LimitIsEnforced, None
<1> QED
    BY <1>1, <1>2, <1>3 DEF QInv

\* A step of a caller moves that caller only.
LEMMA OneMoves ==
    ASSUME CallerOK, NEW u \in Callers, NEW step, NEW rx, Goes(u, step, rx)
    PROVE  /\ caller'[u] = [at |-> step, rx |-> rx, blocks |-> FALSE]
           /\ \A v \in Callers : v # u => caller'[v] = caller[v]
BY DEF CallerOK, Goes

\* A caller that blocks its worker is where it was, and so is everybody else.
LEMMA BlockKeeps == ASSUME QInv, NEW u \in Callers, Block(u) PROVE QInv'
<1>1. \A v \in Callers : caller'[v].at = caller[v].at /\ caller'[v].rx = caller[v].rx
    BY DEF QInv, QTypeOK, CallerOK, Block
<1>2. CallerOK'
    <2>1. caller' \in [Callers -> [at : Steps, rx : 0..channels, blocks : BOOLEAN]]
        BY DEF QInv, QTypeOK, CallerOK, Block
    <2> QED
        BY <1>1, <2>1 DEF QInv, QTypeOK, CallerOK, Block
<1>3. QTypeOK'
    BY <1>2 DEF QInv, QTypeOK, EntryOK, Block
<1>4. PendingIsFetched' /\ GuardKeepsEntry' /\ WaiterHasSender' /\ LimitIsEnforced'
    BY <1>1 DEF QInv, PendingIsFetched, GuardKeepsEntry, WaiterHasSender, LimitIsEnforced, At, Block
<1> QED
    BY <1>3, <1>4 DEF QInv

\* A caller that goes on has a channel where it needs one.
LEMMA CallerMoves ==
    ASSUME CallerOK, channels \in Nat, channels' \in Nat, channels <= channels',
           NEW u \in Callers, NEW step \in Steps, NEW rx \in 0..channels',
           step \in {"stats", "wait", "remove"} => rx # 0, Goes(u, step, rx)
    PROVE  CallerOK'
<1>1. caller' \in [Callers -> [at : Steps, rx : 0..channels', blocks : BOOLEAN]]
    BY DEF CallerOK, Goes
<1>2. \A v \in Callers : v # u => caller'[v] = caller[v]
    BY DEF CallerOK, Goes
<1>3. caller'[u] = [at |-> step, rx |-> rx, blocks |-> FALSE]
    BY DEF CallerOK, Goes
<1> QED
    BY <1>1, <1>2, <1>3 DEF CallerOK

\* Removing the entry leaves the fields well typed.
LEMMA RemoveTypes ==
    ASSUME QTypeOK, NEW result \in {"data", "error", "closed"}, Remove(result),
           UNCHANGED channels
    PROVE  /\ outcome' \in [1..MaxCalls -> {"open", "data", "error", "closed"}]
           /\ EntryOK'
BY DEF QTypeOK, EntryOK, Remove

\* Every step is well typed.
LEMMA CoalescerTypes == QInv /\ [QNext]_qvars => QTypeOK'
<1> SUFFICES ASSUME QInv, QTypeOK, [QNext]_qvars PROVE QTypeOK'
    BY DEF QInv
<1>a. channels \in Nat /\ calls \in Nat
    BY CoalescerAssumption DEF QTypeOK
<1>1. ASSUME NEW u \in Callers, Register(u) PROVE QTypeOK'
    <2>1. CallerOK'
        BY <1>1, <1>a, CallerMoves DEF Register, QTypeOK, Steps
    <2> QED
        BY <1>1, <2>1, CoalescerAssumption DEF Register, QTypeOK, EntryOK
<1>2. ASSUME NEW u \in Callers, Check(u) PROVE QTypeOK'
    <2>1. CASE pending = None
        <3>1. CallerOK'
            BY <1>2, <2>1, <1>a, CallerMoves DEF Check, QTypeOK, Steps
        <3> QED
            BY <1>2, <2>1, <3>1 DEF Check, QTypeOK, EntryOK
    <2>2. CASE pending # None
        <3>1. pending.tx \in 1..channels
            BY <2>2 DEF QTypeOK, EntryOK
        <3>2. CallerOK'
            BY <1>2, <2>2, <3>1, <1>a, CallerMoves DEF Check, QTypeOK, Steps
        <3>3. EntryOK'
            BY <1>2, <2>2 DEF Check, QTypeOK, EntryOK
        <3> QED
            BY <1>2, <3>2, <3>3 DEF Check, QTypeOK
    <2> QED
        BY <2>1, <2>2
<1>3. ASSUME NEW u \in Callers, Joined(u) PROVE QTypeOK'
    <2>1. caller[u].rx \in 0..channels /\ caller[u].rx # 0
        BY <1>3 DEF Joined, QTypeOK, CallerOK, At
    <2>2. CallerOK'
        BY <1>3, <2>1, <1>a, CallerMoves DEF Joined, QTypeOK, Steps
    <2> QED
        BY <1>3, <2>2 DEF Joined, QTypeOK, EntryOK
<1>4. ASSUME NEW u \in Callers, ForceFetch(u) PROVE QTypeOK'
    <2>1. CallerOK'
        BY <1>4, <1>a, CallerMoves DEF ForceFetch, QTypeOK, Steps
    <2> QED
        BY <1>4, <2>1, RemoveTypes DEF ForceFetch, QTypeOK
<1>5. ASSUME NEW u \in Callers, Insert(u) PROVE QTypeOK'
    <2>1. channels' = channels + 1 /\ channels' \in 1..MaxCalls
        BY <1>5, <1>a, CoalescerAssumption DEF Insert, QTypeOK
    <2>2. CallerOK'
        BY <1>5, <2>1, <1>a, CallerMoves DEF Insert, QTypeOK, Steps
    <2>3. EntryOK'
        BY <1>5, <2>1, <1>a DEF Insert, EntryOK
    <2>4. outcome' \in [1..MaxCalls -> {"open", "data", "error", "closed"}]
        BY <1>5 DEF Insert, QTypeOK
    <2> QED
        BY <1>5, <2>1, <2>2, <2>3, <2>4 DEF Insert, QTypeOK
<1>6. ASSUME NEW u \in Callers, Recv(u) \/ Abandon(u) PROVE QTypeOK'
    <2>1. CallerOK'
        BY <1>6, <1>a, CallerMoves DEF Recv, Abandon, QTypeOK, Steps
    <2> QED
        BY <1>6, <2>1 DEF Recv, Abandon, QTypeOK, EntryOK
<1>7. ASSUME NEW u \in Callers, NEW result \in {"data", "error", "closed"}, Finish(u, result)
      PROVE  QTypeOK'
    <2>1. CallerOK'
        BY <1>7, <1>a, CallerMoves DEF Finish, QTypeOK, Steps
    <2> QED
        BY <1>7, <2>1, RemoveTypes DEF Finish, QTypeOK
<1>8. CASE CleanupExpired
    BY <1>8, RemoveTypes DEF CleanupExpired, QTypeOK, CallerOK
<1>9. CASE UNCHANGED qvars
    BY <1>9 DEF qvars, QTypeOK, EntryOK, CallerOK
<1> QED
    BY <1>1, <1>2, <1>3, <1>4, <1>5, <1>6, <1>7, <1>8, <1>9, StepsOfNext, BlockKeeps DEF Step, QInv

\* A fetcher stops fetching only as it removes the entry, or is dropped.
LEMMA CoalescerFetches == QInv /\ [QNext]_qvars => PendingIsFetched'
<1> SUFFICES ASSUME QInv, [QNext]_qvars PROVE PendingIsFetched'
    OBVIOUS
<1> USE DEF QInv, QTypeOK, CallerOK, PendingIsFetched, At, Goes
<1>1. ASSUME NEW u \in Callers, Register(u) \/ Joined(u) \/ Recv(u)
      PROVE  PendingIsFetched'
    BY <1>1 DEF Register, Joined, Recv
<1>2. ASSUME NEW u \in Callers, Check(u) PROVE PendingIsFetched'
    BY <1>2 DEF Check
<1>3. ASSUME NEW u \in Callers, ForceFetch(u) \/ Insert(u) \/ Abandon(u)
      PROVE  PendingIsFetched'
    BY <1>3 DEF ForceFetch, Insert, Abandon, Remove
<1>4. ASSUME NEW u \in Callers, NEW result \in {"data", "error", "closed"}, Finish(u, result)
      PROVE  PendingIsFetched'
    BY <1>4 DEF Finish, Remove
<1>5. CASE CleanupExpired \/ UNCHANGED qvars
    BY <1>5 DEF CleanupExpired, Remove, qvars
<1> QED
    BY <1>1, <1>2, <1>3, <1>4, <1>5, StepsOfNext, BlockKeeps DEF Step, QInv

\* The guard: whoever changes the entry waits until nobody holds it.
LEMMA CoalescerGuards == QInv /\ [QNext]_qvars => GuardKeepsEntry'
<1> SUFFICES ASSUME QInv, [QNext]_qvars PROVE GuardKeepsEntry'
    OBVIOUS
<1> USE DEF QInv, QTypeOK, CallerOK, GuardKeepsEntry, GuardFree, At, Goes
<1>1. ASSUME NEW u \in Callers, Register(u) \/ Joined(u) \/ Recv(u) \/ Abandon(u)
      PROVE  GuardKeepsEntry'
    <2>1. pending' = pending /\ caller'[u].at # "stats"
        BY <1>1, OneMoves DEF Register, Joined, Recv, Abandon
    <2>2. \A v \in Callers : v # u => caller'[v] = caller[v]
        BY <1>1, OneMoves DEF Register, Joined, Recv, Abandon
    <2> QED
        BY <2>1, <2>2
<1>2. ASSUME NEW u \in Callers, Check(u) PROVE GuardKeepsEntry'
    <2>1. CASE pending = None
        BY <1>2, <2>1 DEF Check
    <2>2. CASE pending # None
        <3>1. pending'.tx = pending.tx /\ pending'.tx \in 1..channels
            BY <1>2, <2>2 DEF Check, EntryOK
        <3>2. pending' # None
            BY <3>1, CoalescerAssumption DEF None
        <3>3. caller'[u] = [at |-> "stats", rx |-> pending.tx, blocks |-> FALSE]
            BY <1>2, <2>2, OneMoves DEF Check
        <3>4. \A v \in Callers : v # u => ~ At(v, "stats")'
            BY <1>2, <2>2, OneMoves DEF Check
        <3> QED
            BY <3>1, <3>2, <3>3, <3>4
    <2> QED
        BY <2>1, <2>2
<1>3. ASSUME NEW u \in Callers, ForceFetch(u) \/ Insert(u) PROVE GuardKeepsEntry'
    BY <1>3 DEF ForceFetch, Insert
<1>4. ASSUME NEW u \in Callers, NEW result \in {"data", "error", "closed"}, Finish(u, result)
      PROVE  GuardKeepsEntry'
    BY <1>4 DEF Finish
<1>5. CASE CleanupExpired \/ UNCHANGED qvars
    BY <1>5 DEF CleanupExpired, qvars
<1> QED
    BY <1>1, <1>2, <1>3, <1>4, <1>5, StepsOfNext, BlockKeeps DEF Step, QInv

\* An entry that is removed or replaced takes its sender with it, and the receivers of
\* its channel learn of it.
LEMMA CoalescerSenders == QInv /\ [QNext]_qvars => WaiterHasSender'
<1> SUFFICES ASSUME QInv, [QNext]_qvars, NEW w \in Callers, At(w, "wait")',
                    (outcome[caller[w].rx] = "open")'
             PROVE  (caller[w].rx = pending.tx)'
    BY DEF WaiterHasSender
<1> USE DEF QInv, QTypeOK, WaiterHasSender, At
<1>a. \A u \in Callers : At(u, "wait") => caller[u].rx \in 1..channels
    BY DEF CallerOK
<1>b. pending # None => pending.tx \in 1..channels
    BY DEF EntryOK
<1>d. channels \in Nat /\ channels <= MaxCalls /\ MaxCalls \in Nat
    BY CoalescerAssumption
<1>e. ASSUME NEW u \in Callers, NEW step, NEW rx, Goes(u, step, rx), step # "wait"
      PROVE  caller'[w] = caller[w]
    <2>1. caller'[u] = [at |-> step, rx |-> rx, blocks |-> FALSE] /\ (w # u => caller'[w] = caller[w])
        BY <1>e, OneMoves
    <2>2. caller'[u].at = step
        BY <2>1
    <2> QED
        BY <1>e, <2>1, <2>2
<1>c. None.tx = 0
    BY DEF None
<1>1. ASSUME NEW u \in Callers, Register(u) \/ Check(u) \/ Recv(u) \/ Abandon(u)
      PROVE  (caller[w].rx = pending.tx)'
    <2>2. caller'[w] = caller[w]
        BY <1>1, <1>e DEF Register, Check, Recv, Abandon
    <2>3. outcome' = outcome /\ pending'.tx = pending.tx
        BY <1>1, <1>b DEF Register, Check, Recv, Abandon, EntryOK
    <2> QED
        BY <2>2, <2>3
<1>2. ASSUME NEW u \in Callers, Joined(u) PROVE (caller[w].rx = pending.tx)'
    <2>1. CASE w = u
        <3>1. PICK step : Goes(u, step, caller[u].rx)
            BY <1>2 DEF Joined
        <3>2. caller'[u] = [at |-> step, rx |-> caller[u].rx, blocks |-> FALSE]
            BY <3>1, OneMoves
        <3>3. caller'[w].rx = caller[w].rx
            BY <2>1, <3>2
        <3> QED
            BY <1>2, <2>1, <3>3 DEF Joined, GuardKeepsEntry
    <2>2. CASE w # u
        <3>1. caller'[w] = caller[w]
            BY <1>2, <2>2, OneMoves DEF Joined
        <3> QED
            BY <1>2, <3>1 DEF Joined
    <2> QED
        BY <2>1, <2>2
<1>3. ASSUME NEW u \in Callers, NEW step \in {"fetch", "idle"}, Goes(u, step, 0),
             NEW result \in {"data", "error", "closed"}, Remove(result)
      PROVE  FALSE
    <2>1. caller'[w] = caller[w]
        BY <1>3, <1>e
    <2> QED
        BY <1>3, <2>1, <1>a, <1>b, <1>c, <1>d DEF Remove
<1>4. ASSUME NEW u \in Callers, Insert(u) PROVE (caller[w].rx = pending.tx)'
    <2>1. caller'[w] = caller[w]
        BY <1>4, <1>e DEF Insert
    <2> QED
        BY <1>4, <2>1, <1>a, <1>b, <1>c, <1>d DEF Insert
<1>5. CASE CleanupExpired
    BY <1>5, <1>a, <1>b, <1>c, <1>d DEF CleanupExpired, Remove
<1>6. CASE UNCHANGED qvars
    BY <1>6 DEF qvars
<1> QED
    BY <1>1, <1>2, <1>3, <1>4, <1>5, <1>6, StepsOfNext, BlockKeeps DEF Step, QInv, ForceFetch, Finish

\* The caller that reaches the limit goes on to remove the entry.
LEMMA CoalescerLimits == QInv /\ [QNext]_qvars => LimitIsEnforced'
<1> SUFFICES ASSUME QInv, [QNext]_qvars PROVE LimitIsEnforced'
    OBVIOUS
<1> USE DEF QInv, QTypeOK, CallerOK, EntryOK, LimitIsEnforced, At, Goes, None
<1>1. ASSUME NEW u \in Callers, Register(u) \/ Recv(u) \/ Abandon(u)
      PROVE  LimitIsEnforced'
    BY <1>1 DEF Register, Recv, Abandon
<1>2. ASSUME NEW u \in Callers, Check(u) PROVE LimitIsEnforced'
    BY <1>2, CoalescerAssumption DEF Check
<1>3. ASSUME NEW u \in Callers, Joined(u) PROVE LimitIsEnforced'
    BY <1>3, CoalescerAssumption DEF Joined, Crowded
<1>4. ASSUME NEW u \in Callers, ForceFetch(u) \/ Insert(u) PROVE LimitIsEnforced'
    BY <1>4, CoalescerAssumption DEF ForceFetch, Insert, Remove
<1>5. ASSUME NEW u \in Callers, NEW result \in {"data", "error", "closed"}, Finish(u, result)
      PROVE  LimitIsEnforced'
    BY <1>5, CoalescerAssumption DEF Finish, Remove
<1>6. CASE CleanupExpired
    BY <1>6, CoalescerAssumption DEF CleanupExpired, Remove
<1>7. CASE UNCHANGED qvars
    BY <1>7 DEF qvars
<1> QED
    BY <1>1, <1>2, <1>3, <1>4, <1>5, <1>6, <1>7, StepsOfNext, BlockKeeps DEF Step, QInv

\* For any number of callers: what is pending is being fetched unless a fetcher was
\* dropped, a waiter without an answer listens to the pending request, and a request
\* with too many waiters has one that is about to force it out.
THEOREM CoalescerIsSound ==
    QSpec => [](QTypeOK /\ PendingIsFetched /\ WaiterHasSender /\ LimitIsEnforced)
<1>1. QInit => QInv
    BY CoalescerInit
<1>2. QInv /\ [QNext]_qvars => QInv'
    BY CoalescerTypes, CoalescerFetches, CoalescerGuards, CoalescerSenders, CoalescerLimits
    DEF QInv
<1> QED
    BY <1>1, <1>2, PTL DEF QSpec, QInv

\* The entry and the callers keep their types (register_request, complete_request).
THEOREM CoalescerIsTyped == QSpec => []QTypeOK
BY CoalescerIsSound, PTL

\* A pending request is being fetched, whichever requests replace, force out or end one
\* another in register_request, unless the caller that fetched it was dropped.
THEOREM PendingRequestsAreFetched == QSpec => []PendingIsFetched
BY CoalescerIsSound, PTL

\* A request with too many waiters has one in register_request about to remove it.
THEOREM CrowdedRequestsAreForced == QSpec => []LimitIsEnforced
BY CoalescerIsSound, PTL

--------------------------------------------------------------------------------
(* The circuit breaker.                                                         *)

\* The types of the fields of CircuitBreaker, its clock and the progress of a reset().
BTypeOK ==
    /\ state \in {"Closed", "HalfOpen", "Open"}
    /\ successCount \in Nat
    /\ openedAt \in Nat \cup {Never}
    /\ failures \in Seq(Nat)
    /\ clock \in Nat
    /\ withReset \in BOOLEAN
    /\ resetting \in 0..3

BInv == BTypeOK /\ ClosedIsClean

\* A non-empty set of positions has a first one.
LEMMA FirstExists ==
    ASSUME NEW S \in SUBSET Nat, S # {}
    PROVE  \E i \in S : \A j \in S : i <= j
<1>1. PICK i \in S : \A j \in S : ~ (<<j, i>> \in OpToRel(<, Nat))
  BY NatLessThanWellFounded, WFMin
<1>2. \A j \in S : ~ (j < i)
  BY <1>1 DEF OpToRel
<1> QED BY <1>2

\* The loop that pops old timestamps stops somewhere in the queue, at its end at last.
LEMMA TooOldExists ==
    ASSUME NEW s \in Seq(Nat), clock \in Nat
    PROVE  TooOld(s) \in 0..Len(s)
<1> DEFINE S == {n \in 0..Len(s) : n = Len(s) \/ clock - s[n + 1] <= Window}
<1>1. Len(s) \in Nat /\ Window \in Nat
  BY BreakerAssumption
<1>2. S \in SUBSET Nat /\ Len(s) \in S
  BY <1>1
<1>3. PICK n \in S : \A m \in S : n <= m
  <2> HIDE DEF S
  <2> QED BY <1>2, FirstExists
<1>4. n \in 0..Len(s) /\ (n < Len(s) => clock - s[n + 1] <= Window)
  BY <1>1, <1>3
<1>5. ASSUME NEW i \in 1..n PROVE clock - s[i] > Window
  <2>1. i - 1 \in 0..Len(s) /\ i - 1 # Len(s) /\ i \in 1..Len(s) /\ (i - 1) + 1 = i
    BY <1>1, <1>4
  <2>2. i - 1 \notin S
    <3>1. ~ (n <= i - 1)
      BY <1>1, <1>4
    <3> HIDE DEF S
    <3> QED BY <1>3, <3>1
  <2>3. ~ (clock - s[i] <= Window)
    BY <2>1, <2>2
  <2>4. s[i] \in Nat
    BY <2>1
  <2> QED BY <1>1, <2>3, <2>4
<1>6. \E m \in 0..Len(s) : /\ \A i \in 1..m : clock - s[i] > Window
                           /\ m < Len(s) => clock - s[m + 1] <= Window
  BY <1>4, <1>5
<1> QED BY <1>6 DEF TooOld

LEMMA BreakerInit == BInit => BInv
BY BreakerAssumption DEF BInit, BInv, BTypeOK, ClosedIsClean

LEMMA BreakerTypes == BInv /\ [BNext]_bvars => BTypeOK'
<1> SUFFICES ASSUME BTypeOK, [BNext]_bvars PROVE BTypeOK'
  BY DEF BInv
<1>0. <<>> \in Seq(Nat) /\ failures \in Seq(Nat)
  <2>1. <<>> \in Seq(Nat)
    OBVIOUS
  <2> QED BY <2>1 DEF BTypeOK
<1>1. CASE Probe
  BY <1>1 DEF Probe, BTypeOK
<1>2. CASE RecordSuccess
  <2>1. successCount' \in Nat
    BY <1>2 DEF RecordSuccess, BTypeOK
  <2>2. state' \in {"Closed", "HalfOpen", "Open"}
    BY <1>2 DEF RecordSuccess, BTypeOK
  <2>3. failures' = <<>> \/ failures' = failures
    BY <1>2 DEF RecordSuccess
  <2>4. failures' \in Seq(Nat)
    BY <1>0, <2>3
  <2> QED BY <1>2, <2>1, <2>2, <2>4 DEF RecordSuccess, BTypeOK
<1>3. CASE RecordFailure
  <2> DEFINE s == Append(failures, clock)
  <2>1. s \in Seq(Nat) /\ Len(s) \in Nat
    BY DEF BTypeOK
  <2>2. TooOld(s) \in 0..Len(s)
    <3> HIDE DEF s
    <3> QED BY <2>1, TooOldExists DEF BTypeOK
  <2>3. SubSeq(s, TooOld(s) + 1, Len(s)) \in Seq(Nat)
    <3> HIDE DEF s
    <3> QED BY <2>1, <2>2
  <2>4. failures' \in Seq(Nat)
    BY <1>3, <2>3 DEF RecordFailure, InWindow
  <2>5. /\ state' \in {"Closed", "HalfOpen", "Open"} /\ successCount' \in Nat
        /\ openedAt' \in Nat \cup {Never}
    BY <1>3 DEF RecordFailure, Trip, BTypeOK
  <2> QED BY <1>3, <2>4, <2>5 DEF RecordFailure, BTypeOK
<1>4. CASE Reset
  <2>1. resetting' \in 0..3
    <3>1. (resetting + 1) \in Nat /\ resetting' = (resetting + 1) % 4
      BY <1>4 DEF Reset, BTypeOK
    <3> QED BY <3>1
  <2>2. /\ state' \in {"Closed", "HalfOpen", "Open"} /\ successCount' \in Nat
        /\ openedAt' \in Nat \cup {Never}
    BY <1>4 DEF Reset, BTypeOK
  <2>3. failures' = <<>> \/ failures' = failures
    BY <1>4 DEF Reset
  <2>4. failures' \in Seq(Nat)
    BY <1>0, <2>3
  <2> QED BY <1>4, <2>1, <2>2, <2>4 DEF Reset, BTypeOK
<1>5. CASE Wait
  BY <1>5 DEF Wait, BTypeOK
<1>6. CASE UNCHANGED bvars
  BY <1>6 DEF bvars, BTypeOK
<1> QED BY <1>1, <1>2, <1>3, <1>4, <1>5, <1>6 DEF BNext

\* A failure recorded while closed either opens the circuit or leaves it short of the
\* threshold; every way of closing it clears the record or is a reset() still to do so.
LEMMA BreakerClean == BInv /\ [BNext]_bvars => ClosedIsClean'
<1> SUFFICES ASSUME BInv, [BNext]_bvars, state' = "Closed", resetting' = 0
             PROVE  Len(failures') < FailureThreshold
  BY DEF ClosedIsClean
<1>0. /\ FailureThreshold \in Nat \ {0} /\ failures' \in Seq(Nat) /\ Len(failures') \in Nat
      /\ resetting \in 0..3
  <2>1. failures' \in Seq(Nat)
    BY BreakerTypes DEF BTypeOK
  <2> QED BY <2>1, BreakerAssumption DEF BInv, BTypeOK
<1>1. CASE Probe
  BY <1>1 DEF Probe
<1>2. CASE RecordSuccess
  <2>1. CASE state = "Closed"
    BY <1>0, <1>2, <2>1 DEF RecordSuccess
  <2>2. CASE state # "Closed"
    BY <1>0, <1>2, <2>2 DEF RecordSuccess
  <2> QED BY <2>1, <2>2
<1>3. CASE RecordFailure
  BY <1>0, <1>3 DEF RecordFailure, Trip
<1>4. CASE Reset
  <2>1. resetting = 3
    BY <1>0, <1>4 DEF Reset
  <2>2. failures' = <<>>
    BY <1>4, <2>1 DEF Reset
  <2> QED BY <1>0, <2>2
<1>5. CASE Wait
  BY <1>5 DEF Wait, BInv, ClosedIsClean
<1>6. CASE UNCHANGED bvars
  BY <1>6 DEF bvars, BInv, ClosedIsClean
<1> QED BY <1>1, <1>2, <1>3, <1>4, <1>5, <1>6 DEF BNext

\* A closed circuit whose reset(), if one raced the requests, has finished never has
\* enough failures on record to open: record_failure opens it at the threshold, and what
\* closes it (record_success in half-open, the last write of reset) clears the record.
THEOREM ClosedCircuitsAreClean == BSpec => []ClosedIsClean
<1>1. BInv /\ [BNext]_bvars => BInv'
  BY BreakerTypes, BreakerClean DEF BInv
<1>2. BInv => ClosedIsClean
  BY DEF BInv
<1> QED BY BreakerInit, <1>1, <1>2, PTL DEF BSpec

================================================================================
