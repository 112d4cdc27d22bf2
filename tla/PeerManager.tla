------------------------------ MODULE PeerManager ------------------------------
(***************************************************************************)
(* The peer manager of ipfrs-transport (peer_manager.rs): the known peers, *)
(* the load and failures of each, what each said it has, and the bans.     *)
(* ConcurrentPeerManager takes its one lock around each call, so a call is *)
(* one step.  Latency, bandwidth and reliability are left out: whether a   *)
(* score is below min_score, and which of the available peers a strategy   *)
(* prefers, may come out either way.                                       *)
(***************************************************************************)
EXTENDS Integers, FiniteSets

CONSTANTS
    Peers,
    Cids,
    MaxFailures,      \* PeerScoringConfig::max_failures
    MaxConcurrent,    \* PeerState::max_concurrent
    LongBan,          \* the ban for repeated failures (1h)
    ShortBan,         \* the ban for a low score (30min)
    ManualBans,       \* the durations callers give blacklist_peer; Forever is None
    Forever,
    Absent,           \* no such peer, no such ban
    MaxActive,        \* bound: active_requests
    MaxClock          \* bound: the clock

ASSUME PeersAssumption ==
    /\ MaxFailures \in Nat \ {0} /\ MaxConcurrent \in Nat \ {0}
    /\ LongBan \in Nat /\ ShortBan \in Nat
    /\ ManualBans \subseteq Nat \cup {Forever}
    /\ MaxActive \in Nat /\ MaxClock \in Nat
    /\ Forever \notin Nat /\ Absent \notin Nat /\ Forever # Absent

\* struct PeerState
PeerState == [active : Nat, failures : Nat, has : SUBSET Cids, hasnt : SUBSET Cids,
              connected : BOOLEAN]

ASSUME AbsentAssumption == Absent \notin PeerState

VARIABLES
    peers,       \* peer -> PeerState, or Absent
    blacklist,   \* peer -> when its ban expires, Forever, or Absent
    clock        \* Instant::now()

pvars == <<peers, blacklist, clock>>

Known == {p \in Peers : peers[p] # Absent}

\* is_blacklisted: the entry may be there although its ban has expired.
IsBlacklisted(p) ==
    blacklist[p] # Absent /\ (blacklist[p] = Forever \/ clock < blacklist[p])

PInit ==
    /\ peers = [p \in Peers |-> Absent]
    /\ blacklist = [p \in Peers |-> Absent]
    /\ clock = 0

--------------------------------------------------------------------------------

NewPeer == [active |-> 0, failures |-> 0, has |-> {}, hasnt |-> {}, connected |-> TRUE]

\* add_peer of a peer that is not known; otherwise the call changes nothing.
AddPeer(p) ==
    /\ p \notin Known /\ ~ IsBlacklisted(p)
    /\ peers' = [peers EXCEPT ![p] = NewPeer]
    /\ UNCHANGED <<blacklist, clock>>

\* remove_peer.
RemovePeer(p) ==
    /\ peers' = [peers EXCEPT ![p] = Absent]
    /\ UNCHANGED <<blacklist, clock>>

\* Instant::now() + d.
Expiry(d) == IF d = Forever THEN Forever ELSE clock + d

\* Mutant: the peer stays known.
BanKeepsPeer(p, d) ==
    /\ blacklist' = [blacklist EXCEPT ![p] = Expiry(d)]
    /\ UNCHANGED <<peers, clock>>

\* blacklist_peer, of a known or an unknown peer; an earlier ban is replaced.
BlacklistPeer(p, d) ==
    /\ blacklist' = [blacklist EXCEPT ![p] = Expiry(d)]
    /\ peers' = [peers EXCEPT ![p] = Absent]
    /\ UNCHANGED clock

\* unblacklist_peer.
UnblacklistPeer(p) ==
    /\ blacklist' = [blacklist EXCEPT ![p] = Absent]
    /\ UNCHANGED <<peers, clock>>

\* The calls below do nothing for an unknown peer.
Update(p, state) ==
    /\ peers' = IF p \in Known THEN [peers EXCEPT ![p] = state] ELSE peers
    /\ UNCHANGED <<blacklist, clock>>

\* Mutant: a plain subtraction.
LessUnchecked(n) == n - 1

\* saturating_sub(1)
Less(n) == IF n = 0 THEN 0 ELSE n - 1

\* A request of the peer has ended, leaving it with n failures in a row.
Result(s, n) == [s EXCEPT !.failures = n, !.active = Less(@)]

\* record_success.
RecordSuccess(p) == Update(p, Result(peers[p], 0))

\* The automatic blacklisting condition.
TooManyFailures(n) == n >= MaxFailures

\* record_failure: the peer is banned after too many failures, and may be for its score.
RecordFailure(p) ==
    \/ /\ p \notin Known
       /\ UNCHANGED pvars
    \/ /\ p \in Known
       /\ LET n == peers[p].failures + 1
          IN  IF TooManyFailures(n) THEN BlacklistPeer(p, LongBan)
              ELSE \/ BlacklistPeer(p, ShortBan)
                   \/ Update(p, Result(peers[p], n))

\* record_has and record_doesnt_have.
RecordHas(p, c) ==
    Update(p, [peers[p] EXCEPT !.has = @ \cup {c}, !.hasnt = @ \ {c}])
RecordDoesntHave(p, c) ==
    Update(p, [peers[p] EXCEPT !.hasnt = @ \cup {c}, !.has = @ \ {c}])

\* mark_request_sent, without a look at the limit.
MarkRequestSent(p) ==
    /\ p \in Known => peers[p].active < MaxActive
    /\ Update(p, [peers[p] EXCEPT !.active = @ + 1])

SetConnected(p, b) == Update(p, [peers[p] EXCEPT !.connected = b])

\* Mutant: every ban with an expiry is dropped.
CleanupTimed ==
    blacklist' = [p \in Peers |-> IF blacklist[p] = Forever THEN Forever ELSE Absent]

\* cleanup_blacklist.
CleanupBlacklist ==
    blacklist' = [p \in Peers |-> IF IsBlacklisted(p) THEN blacklist[p] ELSE Absent]

\* Mutant: `<=` instead of `<`.
CanAcceptOneMore(p) ==
    p \in Known /\ peers[p].connected /\ peers[p].active <= MaxConcurrent

\* can_accept_request, of a known peer.
CanAcceptRequest(p) ==
    p \in Known /\ peers[p].connected /\ peers[p].active < MaxConcurrent

\* The peers a selection may return: those that have the block, those that might.
Providers(c) == {p \in Peers : CanAcceptRequest(p) /\ c \in peers[p].has}
Candidates(c) == {p \in Peers : CanAcceptRequest(p) /\ c \notin peers[p].hasnt}

\* The answers of select_providers and select_peers: the first `count` of the available
\* peers in the order of a strategy.
FirstOf(S, count) ==
    {T \in SUBSET S : Cardinality(T) = IF Cardinality(S) < count THEN Cardinality(S)
                                                                 ELSE count}

\* Both begin by cleaning up the blacklist.
Select == CleanupBlacklist /\ UNCHANGED <<peers, clock>>

Elapse ==
    /\ clock < MaxClock
    /\ clock' = clock + 1
    /\ UNCHANGED <<peers, blacklist>>

--------------------------------------------------------------------------------

PNext ==
    \/ \E p \in Peers :
          \/ AddPeer(p)
          \/ RemovePeer(p)
          \/ \E d \in ManualBans : BlacklistPeer(p, d)
          \/ UnblacklistPeer(p)
          \/ RecordSuccess(p)
          \/ RecordFailure(p)
          \/ \E c \in Cids : RecordHas(p, c) \/ RecordDoesntHave(p, c)
          \/ MarkRequestSent(p)
          \/ \E b \in BOOLEAN : SetConnected(p, b)
    \/ Select
    \/ Elapse

PSpec == PInit /\ [][PNext]_pvars
--------------------------------------------------------------------------------

\* The types of the peer manager's maps; no peer both has and has not a block.
PTypeOK ==
    /\ peers \in [Peers -> PeerState \cup {Absent}]
    /\ blacklist \in [Peers -> Nat \cup {Forever, Absent}]
    /\ clock \in Nat
    /\ \A p \in Known : peers[p].has \cap peers[p].hasnt = {}

\* A banned peer is not known, whatever its late results and messages do, so that no
\* selection, which does not look at the blacklist, can return it.
BannedAreGone == \A p \in Peers : IsBlacklisted(p) => p \notin Known

\* No peer stays known with as many failures in a row as ban it.
FailuresBelowLimit == \A p \in Known : peers[p].failures < MaxFailures

\* A ban stands until it expires, unless a caller lifts or replaces it: in particular the
\* automatic bans of record_failure, and the cleanup in each selection, never cut short
\* a ban a caller made.
BansStand ==
    [][\A p \in Peers :
          \/ ~ IsBlacklisted(p)
          \/ blacklist'[p] = blacklist[p]
          \/ UnblacklistPeer(p)
          \/ \E d \in ManualBans : BlacklistPeer(p, d)]_pvars
================================================================================
