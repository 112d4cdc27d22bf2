----------------------------- MODULE BitswapProofs -----------------------------
(***************************************************************************)
(* The peer manager and the Bitswap exchange, for every set of peers, CIDs *)
(* and threads, every limit and every ban duration.                        *)
(*                                                                         *)
(* PInv is inductive: that a banned peer is not known is preserved because *)
(* the only call that adds a peer looks at the blacklist, every call that  *)
(* bans removes, time only ends bans, and the calls that carry late        *)
(* results do nothing for a peer that is not known.                        *)
(***************************************************************************)
EXTENDS Bitswap, FiniteSetTheorems, TLAPS

PInv == PTypeOK /\ BannedAreGone /\ FailuresBelowLimit

\* A call that changes the state of a known peer in a sound way preserves PInv.
LEMMA UpdateLemma ==
    ASSUME PInv, NEW p \in Peers, NEW s, Update(p, s),
           p \in Known => s \in PeerState /\ s.has \cap s.hasnt = {} /\ s.failures < MaxFailures
    PROVE  PInv'
<1> USE DEF PInv, PTypeOK, BannedAreGone, FailuresBelowLimit, Known, IsBlacklisted, Update
<1>1. CASE p \notin Known
    <2>1. peers' = peers /\ blacklist' = blacklist /\ clock' = clock
        BY <1>1
    <2> QED BY <2>1
<1>2. CASE p \in Known
    <2>1. peers' = [peers EXCEPT ![p] = s] /\ blacklist' = blacklist /\ clock' = clock
        BY <1>2
    <2>2. s # Absent
        BY <1>2, AbsentAssumption
    <2>3. PTypeOK'
        BY <1>2, <2>1, <2>2
    <2>4. BannedAreGone'
        BY <1>2, <2>1
    <2>5. FailuresBelowLimit'
        BY <1>2, <2>1
    <2> QED BY <2>3, <2>4, <2>5
<1> QED BY <1>1, <1>2

\* A peer that is not known any more cannot disturb PInv, whatever its ban becomes.
LEMMA BanLemma ==
    ASSUME PInv, NEW p \in Peers, NEW d \in Nat \cup {Forever}, BlacklistPeer(p, d)
    PROVE  PInv'
<1> USE DEF PInv, PTypeOK, BannedAreGone, FailuresBelowLimit, Known, IsBlacklisted
<1>1. Expiry(d) \in Nat \cup {Forever}
    BY DEF Expiry
<1>2. /\ peers' = [peers EXCEPT ![p] = Absent]
      /\ blacklist' = [blacklist EXCEPT ![p] = Expiry(d)]
      /\ clock' = clock
    BY DEF BlacklistPeer
<1> QED BY <1>1, <1>2

\* What a result does to the state of a peer.
LEMMA ResultLemma ==
    ASSUME NEW r \in PeerState, NEW n \in Nat
    PROVE  /\ Result(r, n) \in PeerState /\ Result(r, n).failures = n
           /\ Result(r, n).has = r.has /\ Result(r, n).hasnt = r.hasnt
<1> DEFINE q == [r EXCEPT !.failures = n]
<1>1. /\ q \in PeerState /\ q.failures = n
      /\ q.has = r.has /\ q.hasnt = r.hasnt /\ q.active = r.active
    BY DEF PeerState
<1>2. Less(r.active) \in Nat
    BY DEF PeerState, Less
<1>3. Result(r, n) = [q EXCEPT !.active = Less(r.active)]
    BY <1>1 DEF Result, PeerState
<1> HIDE DEF q
<1> QED BY <1>1, <1>2, <1>3 DEF PeerState

LEMMA InitLemma == PInit => PInv
BY PeersAssumption
   DEF PInit, PInv, PTypeOK, BannedAreGone, FailuresBelowLimit, Known, IsBlacklisted

LEMMA StepLemma == PInv /\ [PNext]_pvars => PInv'
<1> SUFFICES ASSUME PInv, [PNext]_pvars PROVE PInv'
    OBVIOUS
<1> DEFINE P(p) == peers[p] \in PeerState /\ peers[p].has \cap peers[p].hasnt = {}
                   /\ peers[p].failures < MaxFailures
<1>0. \A p \in Known : p \in Peers /\ P(p)
    BY DEF PInv, PTypeOK, FailuresBelowLimit, Known
<1>1. ASSUME NEW p \in Peers, AddPeer(p) PROVE PInv'
    <2>1. NewPeer \in PeerState /\ NewPeer.has \cap NewPeer.hasnt = {} /\ NewPeer.failures = 0
        BY DEF NewPeer, PeerState
    <2>2. NewPeer # Absent
        BY <2>1, AbsentAssumption
    <2>3. 0 < MaxFailures
        BY PeersAssumption
    <2> QED BY <1>1, <2>1, <2>2, <2>3
        DEF AddPeer, PInv, PTypeOK, BannedAreGone, FailuresBelowLimit, Known, IsBlacklisted
<1>2. ASSUME NEW p \in Peers, RemovePeer(p) PROVE PInv'
    BY <1>2 DEF RemovePeer, PInv, PTypeOK, BannedAreGone, FailuresBelowLimit, Known,
                IsBlacklisted
<1>3. ASSUME NEW p \in Peers, NEW d \in ManualBans, BlacklistPeer(p, d) PROVE PInv'
    BY <1>3, BanLemma, PeersAssumption
<1>4. ASSUME NEW p \in Peers, UnblacklistPeer(p) PROVE PInv'
    BY <1>4 DEF UnblacklistPeer, PInv, PTypeOK, BannedAreGone, FailuresBelowLimit, Known,
                IsBlacklisted
<1>5. ASSUME NEW p \in Peers, RecordSuccess(p) PROVE PInv'
    <2> DEFINE s == Result(peers[p], 0)
    <2>1. Update(p, s)
        BY <1>5 DEF RecordSuccess
    <2>2. p \in Known => s \in PeerState /\ s.has \cap s.hasnt = {} /\ s.failures < MaxFailures
        <3> SUFFICES ASSUME p \in Known
                     PROVE  s \in PeerState /\ s.has \cap s.hasnt = {} /\ s.failures < MaxFailures
            OBVIOUS
        <3>1. peers[p] \in PeerState /\ peers[p].has \cap peers[p].hasnt = {}
            BY <1>0
        <3>2. s \in PeerState /\ s.has = peers[p].has /\ s.hasnt = peers[p].hasnt /\ s.failures = 0
            BY <3>1, ResultLemma
        <3> QED BY <3>1, <3>2, PeersAssumption
    <2> HIDE DEF s
    <2> QED BY <2>1, <2>2, UpdateLemma
<1>6. ASSUME NEW p \in Peers, RecordFailure(p) PROVE PInv'
    <2>1. CASE p \notin Known
        BY <1>6, <2>1
           DEF RecordFailure, pvars, PInv, PTypeOK, BannedAreGone, FailuresBelowLimit, Known,
               IsBlacklisted
    <2>2. CASE p \in Known
        <3> DEFINE n == peers[p].failures + 1
                   s == Result(peers[p], n)
        <3>1. CASE BlacklistPeer(p, LongBan) \/ BlacklistPeer(p, ShortBan)
            BY <3>1, BanLemma, PeersAssumption
        <3>2. CASE ~ TooManyFailures(n) /\ Update(p, s)
            <4>1. s \in PeerState /\ s.has \cap s.hasnt = {} /\ s.failures < MaxFailures
                <5>1. n \in Nat /\ n < MaxFailures
                    BY <1>0, <2>2, <3>2, PeersAssumption DEF PeerState, TooManyFailures
                <5>2. peers[p] \in PeerState /\ peers[p].has \cap peers[p].hasnt = {}
                    BY <1>0, <2>2
                <5> HIDE DEF n
                <5>3. /\ s \in PeerState /\ s.failures = n
                      /\ s.has = peers[p].has /\ s.hasnt = peers[p].hasnt
                    BY <5>1, <5>2, ResultLemma
                <5> QED BY <5>1, <5>2, <5>3
            <4> HIDE DEF s
            <4> QED BY <3>2, <4>1, UpdateLemma
        <3> QED BY <1>6, <2>2, <3>1, <3>2 DEF RecordFailure
    <2> QED BY <2>1, <2>2
<1>7. ASSUME NEW p \in Peers, NEW c \in Cids, RecordHas(p, c) PROVE PInv'
    <2> DEFINE s == [peers[p] EXCEPT !.has = @ \cup {c}, !.hasnt = @ \ {c}]
    <2>1. Update(p, s)
        BY <1>7 DEF RecordHas
    <2>2. p \in Known => s \in PeerState /\ s.has \cap s.hasnt = {} /\ s.failures < MaxFailures
        BY <1>0 DEF PeerState
    <2> HIDE DEF s
    <2> QED BY <2>1, <2>2, UpdateLemma
<1>8. ASSUME NEW p \in Peers, NEW c \in Cids, RecordDoesntHave(p, c) PROVE PInv'
    <2> DEFINE s == [peers[p] EXCEPT !.hasnt = @ \cup {c}, !.has = @ \ {c}]
    <2>1. Update(p, s)
        BY <1>8 DEF RecordDoesntHave
    <2>2. p \in Known => s \in PeerState /\ s.has \cap s.hasnt = {} /\ s.failures < MaxFailures
        BY <1>0 DEF PeerState
    <2> HIDE DEF s
    <2> QED BY <2>1, <2>2, UpdateLemma
<1>9. ASSUME NEW p \in Peers, MarkRequestSent(p) PROVE PInv'
    <2> DEFINE s == [peers[p] EXCEPT !.active = @ + 1]
    <2>1. Update(p, s)
        BY <1>9 DEF MarkRequestSent
    <2>2. p \in Known => s \in PeerState /\ s.has \cap s.hasnt = {} /\ s.failures < MaxFailures
        BY <1>0 DEF PeerState
    <2> HIDE DEF s
    <2> QED BY <2>1, <2>2, UpdateLemma
<1>10. ASSUME NEW p \in Peers, NEW b \in BOOLEAN, SetConnected(p, b) PROVE PInv'
    <2> DEFINE s == [peers[p] EXCEPT !.connected = b]
    <2>1. Update(p, s)
        BY <1>10 DEF SetConnected
    <2>2. p \in Known => s \in PeerState /\ s.has \cap s.hasnt = {} /\ s.failures < MaxFailures
        BY <1>0 DEF PeerState
    <2> HIDE DEF s
    <2> QED BY <2>1, <2>2, UpdateLemma
<1>11. CASE Select
    BY <1>11 DEF Select, CleanupBlacklist, PInv, PTypeOK, BannedAreGone, FailuresBelowLimit,
                 Known, IsBlacklisted
<1>12. CASE Elapse
    BY <1>12 DEF Elapse, PInv, PTypeOK, BannedAreGone, FailuresBelowLimit, Known,
                 IsBlacklisted
<1>13. CASE UNCHANGED pvars
    BY <1>13 DEF pvars, PInv, PTypeOK, BannedAreGone, FailuresBelowLimit, Known,
                 IsBlacklisted
<1> QED BY <1>1, <1>2, <1>3, <1>4, <1>5, <1>6, <1>7, <1>8, <1>9, <1>10, <1>11, <1>12, <1>13
    DEF PNext

\* The inductive invariant of the peer manager holds after any sequence of its calls.
THEOREM PInvariance == PSpec => []PInv
BY InitLemma, StepLemma, PTL DEF PSpec

\* No sequence of calls makes a banned peer known: selections, which do not look at the
\* blacklist, cannot return it.
THEOREM BannedPeersAreGone == PSpec => [](BannedAreGone)
BY PInvariance, PTL DEF PInv

\* The types of the maps, and no known peer has reached the failures that ban it.
THEOREM PeersAreSound == PSpec => [](PTypeOK /\ FailuresBelowLimit)
BY PInvariance, PTL DEF PInv

\* The types alone: no peer is said both to have a block and to lack it, whatever HAVE,
\* DONT_HAVE and block messages come in whatever order (record_has, record_doesnt_have).
THEOREM PeersAreTyped == PSpec => []PTypeOK
BY PeersAreSound, PTL

\* A step leaves each ban in force as it is, unless it is a caller's.
LEMMA BanStepLemma ==
    ASSUME PInv, PNext, NEW q \in Peers, IsBlacklisted(q)
    PROVE  \/ blacklist'[q] = blacklist[q]
           \/ UnblacklistPeer(q)
           \/ \E d \in ManualBans : BlacklistPeer(q, d)
<1>1. q \notin Known
    BY DEF PInv, BannedAreGone
<1>2. ASSUME NEW p \in Peers, UnblacklistPeer(p), p # q PROVE blacklist'[q] = blacklist[q]
    BY <1>2 DEF UnblacklistPeer, PInv, PTypeOK
<1>3. ASSUME NEW p \in Peers, NEW d, BlacklistPeer(p, d), p # q
      PROVE  blacklist'[q] = blacklist[q]
    BY <1>3 DEF BlacklistPeer, PInv, PTypeOK
<1>4. ASSUME NEW p \in Peers, RecordFailure(p) PROVE blacklist'[q] = blacklist[q]
    <2>1. CASE p \notin Known
        BY <1>4, <2>1 DEF RecordFailure, pvars
    <2>2. CASE p \in Known
        <3>1. p # q
            BY <1>1, <2>2
        <3> QED BY <1>3, <1>4, <2>2, <3>1 DEF RecordFailure, Update
    <2> QED BY <2>1, <2>2
<1>5. CASE Select
    BY <1>5 DEF Select, CleanupBlacklist
<1>6. ASSUME NEW p \in Peers,
             \/ AddPeer(p) \/ RemovePeer(p) \/ RecordSuccess(p) \/ MarkRequestSent(p)
             \/ \E c \in Cids : RecordHas(p, c) \/ RecordDoesntHave(p, c)
             \/ \E b \in BOOLEAN : SetConnected(p, b)
      PROVE  blacklist' = blacklist
    BY <1>6 DEF AddPeer, RemovePeer, RecordSuccess, MarkRequestSent, RecordHas,
                RecordDoesntHave, SetConnected, Update
<1>7. CASE Elapse
    BY <1>7 DEF Elapse
<1> QED BY <1>2, <1>3, <1>4, <1>5, <1>6, <1>7 DEF PNext

\* A ban in force changes only by a caller's unblacklist_peer or blacklist_peer: neither
\* record_failure's automatic bans nor the cleanup in a selection cuts it short.
THEOREM BansAreKept == PSpec => BansStand
<1>1. PInv /\ [PNext]_pvars =>
        [\A p \in Peers :
            \/ ~ IsBlacklisted(p)
            \/ blacklist'[p] = blacklist[p]
            \/ UnblacklistPeer(p)
            \/ \E d \in ManualBans : BlacklistPeer(p, d)]_pvars
    BY BanStepLemma
<1> QED BY <1>1, PInvariance, PTL DEF PSpec, BansStand

--------------------------------------------------------------------------------
(* The exchange                                                                 *)

\* A receive_block that is past its put has its block in the store.
StoredInv ==
    \A t \in Threads : call[t].at \in {"success", "has", "cancel"} => call[t].cid \in store

\* The threads that have selected the peer p and not yet marked their request to it; f is
\* the calls of the threads.
Markers(f, p) == {t \in Dispatchers : f[t].at = "mark" /\ p \in f[t].left}

DispatchInv ==
    \A t \in Threads : call[t].at \in {"providers", "candidates", "mark"} => t \in Dispatchers

\* What LoadBounded says, with the requests that have been decided and not yet counted.
LoadInv ==
    \A p \in Known :
        peers[p].active + Cardinality(Markers(call, p)) <= MaxConcurrent + Cardinality(Dispatchers) - 1

BInv == BsTypeOK /\ PInv /\ StoredInv /\ OwedIsKept /\ DispatchInv /\ LoadInv

Places == [Cids -> Queue!Place \cup {Absent}]

\* What a call holds is told by the step it is at.
LEMMA CallAt ==
    ASSUME NEW r \in Calls
    PROVE  /\ r.at \in {"wantCheck", "wantUpdate"} =>
                  r \in [at : {"wantCheck", "wantUpdate"}, cid : Cids, priority : Priorities]
           /\ r.at = "forget" => r.cids \in SUBSET Cids
           /\ r.at \in {"providers", "candidates"} => r.cid \in Cids
           /\ r.at = "mark" =>
                  r \in [at : {"mark"}, cid : Cids, peers : SUBSET Peers, left : SUBSET Peers]
           /\ r.at \in {"put", "success", "has", "cancel"} =>
                  r \in [at : {"put", "success", "has", "cancel"}, cid : Cids, peer : Peers]
BY DEF Calls, Idle

\* The exchange uses the peer manager by its calls only.
LEMMA PeersMove ==
    ASSUME BsTypeOK, [BsNext]_xvars
    PROVE  [PNext]_pvars
<1>1. ASSUME NEW t \in Threads, Begin(t) PROVE [PNext]_pvars
  <2>1. ASSUME NEW c \in Cids, NEW prio \in Priorities, Want(t, c, prio) \/ UpdatePriority(t, c, prio)
        PROVE  UNCHANGED pvars
    BY <2>1 DEF Want, UpdatePriority
  <2>2. ASSUME NEW c \in Cids, CancelWant(t, c) \/ NextWant(t, c) \/ RequestWanted(t, c)
        PROVE  UNCHANGED pvars
    BY <2>2 DEF CancelWant, NextWant, RequestWanted
  <2>3. ASSUME NEW expired \in SUBSET Wanted, Cleanup(t, expired) PROVE UNCHANGED pvars
    BY <2>3 DEF Cleanup
  <2>4. ASSUME NEW p \in Peers, RequestFailed(t, p) PROVE PNext
    BY <2>4 DEF RequestFailed, PNext
  <2>5. ASSUME NEW p \in Peers, NEW c \in Cids,
               ReceiveBlock(t, p, c) \/ PeerSaysHave(t, p, c) \/ PeerSaysDontHave(t, p, c)
        PROVE  PNext \/ UNCHANGED pvars
    BY <2>5 DEF ReceiveBlock, PeerSaysHave, PeerSaysDontHave, PNext
  <2> QED
    BY <1>1, <2>1, <2>2, <2>3, <2>4, <2>5 DEF Begin
<1>2. ASSUME NEW t \in Threads, Continue(t) PROVE [PNext]_pvars
  <2>0. call[t] \in Calls
    BY DEF BsTypeOK
  <2>1. CASE WantCheck(t) \/ WantUpdate(t) \/ Forget(t) \/ MarkPending(t) \/ Put(t) \/ BlockArrived(t)
    BY <2>1 DEF WantCheck, WantUpdate, Forget, MarkPending, Put, BlockArrived
  <2>2. ASSUME NEW S \in SUBSET Peers, SelectProviders(t, S) \/ SelectPeers(t, S) PROVE PNext
    BY <2>2 DEF SelectProviders, SelectPeers, PNext
  <2>3. ASSUME NEW p \in Peers, MarkPeer(t, p) PROVE PNext
    BY <2>3 DEF MarkPeer, PNext
  <2>4. CASE PeerSucceeded(t) \/ PeerHas(t)
    <3>1. call[t].peer \in Peers /\ call[t].cid \in Cids
      BY <2>0, <2>4, CallAt DEF PeerSucceeded, PeerHas, At
    <3> QED
      BY <2>4, <3>1 DEF PeerSucceeded, PeerHas, PNext
  <2> QED
    BY <1>2, <2>1, <2>2, <2>3, <2>4 DEF Continue
<1>3. ASSUME NEW p \in Peers, PeerChange(p) PROVE PNext
  BY <1>3 DEF PeerChange, PNext
<1>4. CASE Elapse
  BY <1>4 DEF PNext
<1>5. CASE UNCHANGED xvars
  BY <1>5 DEF xvars, pvars
<1> QED
  BY <1>1, <1>2, <1>3, <1>4, <1>5 DEF BsNext

\* A step of the thread t, which goes to k, is fine: it keeps the types and what is owed.
Fine(t, k) ==
    /\ k \in Calls /\ call' = [call EXCEPT ![t] = k]
    /\ place' \in Places /\ pending' \in [Cids -> (SUBSET Peers) \cup {Absent}]
    /\ store \subseteq store' /\ store' \subseteq Cids /\ owed' \subseteq Cids
    /\ calls' \in 0..MaxCalls
    /\ k.at \in {"success", "has", "cancel"} => k.cid \in store'
    /\ k.at \in {"providers", "candidates", "mark"} => t \in Dispatchers
    /\ \A c \in owed' : c \in store' \/ place'[c] # Absent

\* What the invariant says of the exchange's own state.
LEMMA Facts ==
    ASSUME BInv
    PROVE  /\ call \in [Threads -> Calls] /\ place \in Places
           /\ pending \in [Cids -> (SUBSET Peers) \cup {Absent}]
           /\ store \subseteq Cids /\ owed \subseteq Cids /\ calls \in 0..MaxCalls
           /\ \A c \in owed : c \in store \/ place[c] # Absent
           /\ \A c \in Cids : c \in Wanted <=> place[c] # Absent
BY DEF BInv, BsTypeOK, Places, OwedIsKept, Wanted, Queue!Occupied

\* A call that begins counts.
LEMMA CallCounts ==
    ASSUME BInv, NEW t, NEW op, Call(t, op)
    PROVE  calls' \in 0..MaxCalls
BY BitswapAssumption DEF BInv, BsTypeOK, Call

LEMMA ReprioritiseFine ==
    ASSUME BInv, NEW c \in Cids, NEW prio \in Priorities, Reprioritise(c, prio)
    PROVE  place' \in Places /\ \A d \in Cids : place[d] # Absent => place'[d] # Absent
<1>0. place \in Places /\ (c \in Wanted <=> place[c] # Absent)
  BY Facts
<1>1. CASE c \notin Wanted
  BY <1>0, <1>1 DEF Reprioritise, wants
<1>2. CASE c \in Wanted
  <2> DEFINE v == [place[c] EXCEPT !.priority = prio]
  <2>1. place[c] \in Queue!Place
    BY <1>0, <1>2 DEF Places
  <2>2. v \in Queue!Place
    BY <2>1, BitswapAssumption DEF Queue!Place
  <2>3. place' = [place EXCEPT ![c] = v]
    BY <1>2 DEF Reprioritise, SetPlace
  <2> HIDE DEF v
  <2>4. v # Absent
    BY <2>2, PlaceAssumption
  <2>5. place' \in Places /\ place'[c] = v /\ \A d \in Cids : d # c => place'[d] = place[d]
    BY <1>0, <2>2, <2>3 DEF Places
  <2> QED
    BY <2>4, <2>5
<1> QED
  BY <1>1, <1>2

LEMMA WantFine ==
    ASSUME BInv, NEW t \in Threads, NEW c \in Cids, NEW prio \in Priorities, Want(t, c, prio)
    PROVE  \E k : Fine(t, k)
<1>0. /\ call[t] \in Calls /\ call[t].at = "idle" /\ calls' \in 0..MaxCalls /\ call \in [Threads -> Calls]
      /\ pending' = pending /\ store' = store
  BY Facts, CallCounts DEF Want, Call, At
<1>1. CASE c \notin Wanted /\ ~ IsFull
  <2> DEFINE v == [priority |-> prio, created |-> 0]
  <2>1. v \in Queue!Place
    BY BitswapAssumption DEF Queue!Place
  <2>2. place' = [place EXCEPT ![c] = v] /\ owed' = owed \cup {c} /\ call' = call
    BY <1>1 DEF Want, SetPlace
  <2> HIDE DEF v
  <2>3. v # Absent
    BY <2>1, PlaceAssumption
  <2>4. place' \in Places /\ place'[c] = v /\ \A d \in Cids : d # c => place'[d] = place[d]
    BY <2>1, <2>2, Facts DEF Places
  <2>5. Fine(t, call[t])
    BY <1>0, <2>2, <2>3, <2>4, Facts DEF Fine
  <2> QED
    BY <2>5
<1>2. CASE ~ (c \notin Wanted /\ ~ IsFull)
  <2> DEFINE k == [at |-> "wantCheck", cid |-> c, priority |-> prio]
  <2>1. call' = [call EXCEPT ![t] = k] /\ place' = place /\ owed' = owed
    BY <1>2 DEF Want, Goto, wants
  <2>2. k \in Calls /\ k.at = "wantCheck"
    BY DEF Calls
  <2> HIDE DEF k
  <2>3. Fine(t, k)
    BY <1>0, <2>1, <2>2, Facts DEF Fine
  <2> QED
    BY <2>3
<1> QED
  BY <1>1, <1>2

\* The other calls on the want list begin.
LEMMA BeginWantsFine ==
    ASSUME BInv, NEW t \in Threads, NEW c \in Cids,
           \/ \E prio \in Priorities : UpdatePriority(t, c, prio)
           \/ CancelWant(t, c) \/ NextWant(t, c) \/ RequestWanted(t, c)
    PROVE  \E k : Fine(t, k)
<1>0. call[t] \in Calls /\ call \in [Threads -> Calls]
  BY Facts
<1>1. ASSUME NEW prio \in Priorities, UpdatePriority(t, c, prio) PROVE Fine(t, call[t])
  <2>1. /\ call[t].at = "idle" /\ calls' \in 0..MaxCalls /\ call' = call
        /\ pending' = pending /\ store' = store /\ owed' = owed /\ Reprioritise(c, prio)
    BY <1>1, CallCounts DEF UpdatePriority, Call, At
  <2>2. place' \in Places /\ \A d \in Cids : place[d] # Absent => place'[d] # Absent
    BY <2>1, ReprioritiseFine
  <2> QED
    BY <1>0, <2>1, <2>2, Facts DEF Fine
<1>2. CASE CancelWant(t, c)
  <2> DEFINE k == [at |-> "forget", cids |-> {c}]
  <2>1. /\ call' = [call EXCEPT ![t] = k] /\ place' = [place EXCEPT ![c] = Absent]
        /\ owed' = owed \ {c} /\ pending' = pending /\ store' = store /\ calls' \in 0..MaxCalls
    BY <1>2, CallCounts DEF CancelWant, RemoveWant, SetPlace, Goto
  <2>2. k \in Calls /\ k.at = "forget"
    BY DEF Calls
  <2> HIDE DEF k
  <2>3. place' \in Places /\ \A d \in Cids : d # c => place'[d] = place[d]
    BY <2>1, Facts DEF Places
  <2>4. Fine(t, k)
    BY <2>1, <2>2, <2>3, Facts DEF Fine
  <2> QED
    BY <2>4
<1>3. CASE NextWant(t, c)
  <2> DEFINE k == [at |-> "providers", cid |-> c]
  <2>1. /\ call' = [call EXCEPT ![t] = k] /\ place' = [place EXCEPT ![c] = Absent] /\ t \in Dispatchers
        /\ owed' = owed \ {c} /\ pending' = pending /\ store' = store /\ calls' \in 0..MaxCalls
    BY <1>3, CallCounts DEF NextWant, Goto
  <2>2. k \in Calls /\ k.at = "providers"
    BY DEF Calls
  <2> HIDE DEF k
  <2>3. place' \in Places /\ \A d \in Cids : d # c => place'[d] = place[d]
    BY <2>1, Facts DEF Places
  <2>4. Fine(t, k)
    BY <2>1, <2>2, <2>3, Facts DEF Fine
  <2> QED
    BY <2>4
<1>4. CASE RequestWanted(t, c)
  <2> DEFINE k == [at |-> "providers", cid |-> c]
  <2>1. /\ call' = [call EXCEPT ![t] = k] /\ place' = place /\ t \in Dispatchers
        /\ owed' = owed /\ pending' = pending /\ store' = store /\ calls' \in 0..MaxCalls
    BY <1>4, CallCounts DEF RequestWanted, Goto, wants
  <2>2. k \in Calls /\ k.at = "providers"
    BY DEF Calls
  <2> HIDE DEF k
  <2>3. Fine(t, k)
    BY <2>1, <2>2, Facts DEF Fine
  <2> QED
    BY <2>3
<1> QED
  BY <1>1, <1>2, <1>3, <1>4

\* cleanup, and the answers of peers.
LEMMA BeginRestFine ==
    ASSUME BInv, NEW t \in Threads,
           \/ \E expired \in SUBSET Wanted : Cleanup(t, expired)
           \/ \E p \in Peers : RequestFailed(t, p)
           \/ \E p \in Peers, c \in Cids :
                 ReceiveBlock(t, p, c) \/ PeerSaysHave(t, p, c) \/ PeerSaysDontHave(t, p, c)
    PROVE  \E k : Fine(t, k)
<1>0. call[t] \in Calls /\ call \in [Threads -> Calls]
  BY Facts
<1>1. ASSUME NEW expired \in SUBSET Wanted, Cleanup(t, expired) PROVE \E k : Fine(t, k)
  <2> DEFINE k == [at |-> "forget", cids |-> expired]
  <2>1. /\ call' = [call EXCEPT ![t] = k]
        /\ place' = [c \in Cids |-> IF c \in expired THEN Absent ELSE place[c]]
        /\ owed' = owed \ expired /\ pending' = pending /\ store' = store /\ calls' \in 0..MaxCalls
    BY <1>1, CallCounts DEF Cleanup, Goto
  <2>2. expired \subseteq Cids
    BY DEF Wanted, Queue!Occupied
  <2>3. k \in Calls /\ k.at = "forget"
    BY <2>2 DEF Calls
  <2> HIDE DEF k
  <2>4. place' \in Places /\ \A d \in Cids : d \notin expired => place'[d] = place[d]
    BY <2>1, Facts DEF Places
  <2>5. Fine(t, k)
    BY <2>1, <2>3, <2>4, Facts DEF Fine
  <2> QED
    BY <2>5
<1>2. ASSUME NEW p \in Peers, NEW c \in Cids, ReceiveBlock(t, p, c) PROVE \E k : Fine(t, k)
  <2> DEFINE k == [at |-> "put", cid |-> c, peer |-> p]
  <2>1. /\ call' = [call EXCEPT ![t] = k] /\ place' = place
        /\ owed' = owed /\ pending' = pending /\ store' = store /\ calls' \in 0..MaxCalls
    BY <1>2, CallCounts DEF ReceiveBlock, Goto, wants
  <2>2. k \in Calls /\ k.at = "put"
    BY DEF Calls
  <2> HIDE DEF k
  <2>3. Fine(t, k)
    BY <2>1, <2>2, Facts DEF Fine
  <2> QED
    BY <2>3
<1>3. ASSUME NEW p \in Peers, NEW c,
             RequestFailed(t, p) \/ PeerSaysHave(t, p, c) \/ PeerSaysDontHave(t, p, c)
      PROVE  Fine(t, call[t])
  <2>1. /\ call[t].at = "idle" /\ call' = call /\ place' = place /\ calls' \in 0..MaxCalls
        /\ pending' = pending /\ store' = store /\ owed' = owed
    BY <1>3, CallCounts DEF RequestFailed, PeerSaysHave, PeerSaysDontHave, Call, At, wants
  <2> QED
    BY <1>0, <2>1, Facts DEF Fine
<1> QED
  BY <1>1, <1>2, <1>3

\* The rest of want, of cancel_want and of cleanup.
LEMMA ContinueWantsFine ==
    ASSUME BInv, NEW t \in Threads, WantCheck(t) \/ WantUpdate(t) \/ Forget(t) \/ MarkPending(t)
    PROVE  \E k : Fine(t, k)
<1>0. call[t] \in Calls /\ Idle \in Calls /\ Idle.at = "idle"
  BY Facts DEF Calls, Idle
<1>1. CASE WantCheck(t)
  <2> DEFINE k == IF call[t].cid \in Wanted THEN [call[t] EXCEPT !.at = "wantUpdate"] ELSE Idle
  <2>1. call[t] \in [at : {"wantCheck", "wantUpdate"}, cid : Cids, priority : Priorities]
    BY <1>0, <1>1, CallAt DEF WantCheck, At
  <2>2. /\ call' = [call EXCEPT ![t] = k] /\ place' = place /\ calls' = calls
        /\ pending' = pending /\ store' = store /\ owed' = owed
    BY <1>1 DEF WantCheck, Return, Goto, wants
  <2>3. k \in Calls /\ k.at \in {"wantUpdate", "idle"}
    BY <1>0, <2>1 DEF Calls
  <2> HIDE DEF k
  <2>4. Fine(t, k)
    BY <2>2, <2>3, Facts DEF Fine
  <2> QED
    BY <2>4
<1>2. CASE WantUpdate(t)
  <2>1. call[t] \in [at : {"wantCheck", "wantUpdate"}, cid : Cids, priority : Priorities]
    BY <1>0, <1>2, CallAt DEF WantUpdate, At
  <2>2. call[t].cid \in Cids /\ call[t].priority \in Priorities
    BY <2>1
  <2>3. /\ call' = [call EXCEPT ![t] = Idle] /\ Reprioritise(call[t].cid, call[t].priority)
        /\ pending' = pending /\ store' = store /\ owed' = owed /\ calls' = calls
    BY <1>2 DEF WantUpdate, Return, Goto
  <2>4. place' \in Places /\ \A d \in Cids : place[d] # Absent => place'[d] # Absent
    BY <2>2, <2>3, ReprioritiseFine
  <2>5. Fine(t, Idle)
    BY <1>0, <2>3, <2>4, Facts DEF Fine
  <2> QED
    BY <2>5
<1>3. CASE Forget(t)
  <2>1. /\ call' = [call EXCEPT ![t] = Idle] /\ place' = place /\ store' = store /\ owed' = owed
        /\ pending' = [c \in Cids |-> IF c \in call[t].cids THEN Absent ELSE pending[c]] /\ calls' = calls
    BY <1>3 DEF Forget, Return, Goto, wants
  <2>2. pending' \in [Cids -> (SUBSET Peers) \cup {Absent}]
    <3>1. pending \in [Cids -> (SUBSET Peers) \cup {Absent}]
      BY Facts
    <3> QED
      BY <2>1, <3>1
  <2>3. Fine(t, Idle)
    BY <1>0, <2>1, <2>2, Facts DEF Fine
  <2> QED
    BY <2>3
<1>4. CASE MarkPending(t)
  <2>1. call[t] \in [at : {"mark"}, cid : Cids, peers : SUBSET Peers, left : SUBSET Peers]
    BY <1>0, <1>4, CallAt DEF MarkPending, At
  <2>2. call[t].cid \in Cids /\ call[t].peers \in SUBSET Peers
    BY <2>1
  <2>3. /\ call' = [call EXCEPT ![t] = Idle] /\ place' = place /\ store' = store /\ owed' = owed
        /\ pending' = [pending EXCEPT ![call[t].cid] = call[t].peers] /\ calls' = calls
    BY <1>4 DEF MarkPending, Return, Goto, wants
  <2>4. pending' \in [Cids -> (SUBSET Peers) \cup {Absent}]
    BY <2>2, <2>3, Facts
  <2>5. Fine(t, Idle)
    BY <1>0, <2>3, <2>4, Facts DEF Fine
  <2> QED
    BY <2>5
<1> QED
  BY <1>1, <1>2, <1>3, <1>4

\* The rest of receive_block: the want goes once the block is stored.
LEMMA ContinueBlockFine ==
    ASSUME BInv, NEW t \in Threads, Put(t) \/ PeerSucceeded(t) \/ PeerHas(t) \/ BlockArrived(t)
    PROVE  \E k : Fine(t, k)
<1>0. call[t] \in Calls /\ Idle \in Calls /\ Idle.at = "idle"
  BY Facts DEF Calls, Idle
<1>1. call[t] \in [at : {"put", "success", "has", "cancel"}, cid : Cids, peer : Peers]
  BY <1>0, CallAt DEF Put, PeerSucceeded, PeerHas, BlockArrived, At
<1>2. call[t].cid \in Cids
  BY <1>1
<1>3. CASE Put(t)
  <2>0. place' = place /\ pending' = pending /\ owed' = owed /\ calls' = calls
    BY <1>3 DEF Put, wants
  <2>1. CASE store' = store /\ call' = [call EXCEPT ![t] = Idle]
    <3>1. Fine(t, Idle)
      BY <1>0, <2>0, <2>1, Facts DEF Fine
    <3> QED
      BY <3>1
  <2>2. CASE store' = store \cup {call[t].cid} /\ call' = [call EXCEPT ![t] = [call[t] EXCEPT !.at = "success"]]
    <3> DEFINE k == [call[t] EXCEPT !.at = "success"]
    <3>1. k \in Calls /\ k.at = "success" /\ k.cid = call[t].cid
      BY <1>1 DEF Calls
    <3>2. call' = [call EXCEPT ![t] = k]
      BY <2>2
    <3> HIDE DEF k
    <3>3. Fine(t, k)
      BY <1>2, <2>0, <2>2, <3>1, <3>2, Facts DEF Fine
    <3> QED
      BY <3>3
  <2> QED
    BY <1>3, <2>1, <2>2 DEF Put, Return, Goto
<1>4. CASE PeerSucceeded(t) \/ PeerHas(t)
  <2> DEFINE k == [call[t] EXCEPT !.at = IF call[t].at = "success" THEN "has" ELSE "cancel"]
  <2>1. /\ place' = place /\ pending' = pending /\ owed' = owed /\ calls' = calls /\ store' = store
        /\ call' = [call EXCEPT ![t] = k] /\ call[t].at \in {"success", "has"}
    BY <1>4 DEF PeerSucceeded, PeerHas, wants, Goto, At
  <2>2. k \in Calls /\ k.at \in {"has", "cancel"} /\ k.cid = call[t].cid
    BY <1>1, <2>1 DEF Calls
  <2>3. call[t].cid \in store
    BY <2>1 DEF BInv, StoredInv
  <2> HIDE DEF k
  <2>4. Fine(t, k)
    BY <2>1, <2>2, <2>3, Facts DEF Fine
  <2> QED
    BY <2>4
<1>5. CASE BlockArrived(t)
  <2> DEFINE k == [at |-> "forget", cids |-> {call[t].cid}]
  <2>1. /\ pending' = pending /\ owed' = owed /\ calls' = calls /\ store' = store /\ call[t].at = "cancel"
        /\ call' = [call EXCEPT ![t] = k] /\ place' = [place EXCEPT ![call[t].cid] = Absent]
    BY <1>5 DEF BlockArrived, RemoveWant, SetPlace, Goto, At
  <2>2. k \in Calls /\ k.at = "forget"
    BY <1>2 DEF Calls
  <2>3. call[t].cid \in store
    BY <2>1 DEF BInv, StoredInv
  <2> HIDE DEF k
  <2>4. place' \in Places /\ \A d \in Cids : d # call[t].cid => place'[d] = place[d]
    BY <1>2, <2>1, Facts DEF Places
  <2>5. Fine(t, k)
    BY <2>1, <2>2, <2>3, <2>4, Facts DEF Fine
  <2> QED
    BY <2>5
<1> QED
  BY <1>3, <1>4, <1>5

\* The selections and the marking of the peers.
LEMMA ContinueRequestFine ==
    ASSUME BInv, NEW t \in Threads,
           \/ \E S \in SUBSET Peers : SelectProviders(t, S) \/ SelectPeers(t, S)
           \/ \E p \in Peers : MarkPeer(t, p)
    PROVE  \E k : Fine(t, k)
<1>0. call[t] \in Calls /\ Idle \in Calls /\ Idle.at = "idle"
  BY Facts DEF Calls, Idle
<1>1. ASSUME NEW S \in SUBSET Peers, SelectProviders(t, S) \/ SelectPeers(t, S)
      PROVE  \E k : Fine(t, k)
  <2> DEFINE k == IF S # {} THEN [at |-> "mark", cid |-> call[t].cid, peers |-> S, left |-> S]
                  ELSE IF call[t].at = "providers" THEN [at |-> "candidates", cid |-> call[t].cid]
                  ELSE Idle
  <2>1. /\ place' = place /\ pending' = pending /\ owed' = owed /\ calls' = calls /\ store' = store
        /\ call' = [call EXCEPT ![t] = k] /\ call[t].at \in {"providers", "candidates"}
    BY <1>1 DEF SelectProviders, SelectPeers, wants, Chosen, Return, Goto, At
  <2>2. call[t].cid \in Cids /\ t \in Dispatchers
    BY <1>0, <2>1, CallAt DEF BInv, DispatchInv
  <2>3. k \in Calls /\ k.at \in {"mark", "candidates", "idle"}
    BY <1>0, <2>2 DEF Calls
  <2> HIDE DEF k
  <2>4. Fine(t, k)
    BY <2>1, <2>2, <2>3, Facts DEF Fine
  <2> QED
    BY <2>4
<1>2. ASSUME NEW p \in Peers, MarkPeer(t, p) PROVE \E k : Fine(t, k)
  <2> DEFINE k == [call[t] EXCEPT !.left = @ \ {p}]
  <2>1. /\ place' = place /\ pending' = pending /\ owed' = owed /\ calls' = calls /\ store' = store
        /\ call' = [call EXCEPT ![t] = k] /\ call[t].at = "mark"
    BY <1>2 DEF MarkPeer, wants, Goto, At
  <2>2. call[t] \in [at : {"mark"}, cid : Cids, peers : SUBSET Peers, left : SUBSET Peers] /\ t \in Dispatchers
    BY <1>0, <2>1, CallAt DEF BInv, DispatchInv
  <2>3. k \in Calls /\ k.at = "mark"
    BY <2>2 DEF Calls
  <2> HIDE DEF k
  <2>4. Fine(t, k)
    BY <2>1, <2>2, <2>3, Facts DEF Fine
  <2> QED
    BY <2>4
<1> QED
  BY <1>1, <1>2

\* Fewer requests are decided and not counted than there are dispatchers.
LEMMA MarkersBounded ==
    ASSUME NEW f, NEW p
    PROVE  /\ IsFiniteSet(Markers(f, p)) /\ Cardinality(Markers(f, p)) \in Nat
           /\ Cardinality(Dispatchers) \in Nat
           /\ Cardinality(Markers(f, p)) <= Cardinality(Dispatchers)
<1>1. Markers(f, p) \subseteq Dispatchers /\ IsFiniteSet(Dispatchers)
  BY BitswapAssumption DEF Markers
<1> HIDE DEF Markers
<1>2. IsFiniteSet(Markers(f, p)) /\ Cardinality(Markers(f, p)) <= Cardinality(Dispatchers)
  BY <1>1, FS_Subset
<1>3. Cardinality(Markers(f, p)) \in Nat /\ Cardinality(Dispatchers) \in Nat
  BY <1>1, <1>2, FS_CardinalityType
<1> QED
  BY <1>2, <1>3

\* A thread that has not just selected the peer p adds nothing to its load.
LEMMA MarkersShrink ==
    ASSUME NEW f, NEW g, NEW t, NEW p, \A u \in Threads \ {t} : g[u] = f[u],
           g[t].at = "mark" /\ p \in g[t].left => f[t].at = "mark" /\ p \in f[t].left
    PROVE  Cardinality(Markers(g, p)) <= Cardinality(Markers(f, p))
<1>1. Markers(g, p) \subseteq Markers(f, p)
  BY BitswapAssumption DEF Markers
<1>2. IsFiniteSet(Markers(f, p))
  BY MarkersBounded
<1> HIDE DEF Markers
<1> QED
  BY <1>1, <1>2, FS_Subset

\* The peers have no more active requests than before, apart from new ones, which have none.
Lighter ==
    \A p \in Known' : peers'[p].active = 0
                     \/ (p \in Known /\ peers'[p].active <= peers[p].active /\ peers'[p].active \in Nat)

\* A step that selects nobody and marks nothing.
LEMMA LoadLighter ==
    ASSUME LoadInv, PTypeOK, Lighter, NEW t \in Threads, NEW k, call' = [call EXCEPT ![t] = k],
           call \in [Threads -> Calls], k.at # "mark"
    PROVE  LoadInv'
<1> SUFFICES ASSUME NEW p \in Known'
             PROVE  peers'[p].active + Cardinality(Markers(call', p))
                        <= MaxConcurrent + Cardinality(Dispatchers) - 1
  BY DEF LoadInv
<1>1. /\ Cardinality(Markers(call', p)) \in Nat /\ Cardinality(Dispatchers) \in Nat
      /\ Cardinality(Markers(call', p)) <= Cardinality(Dispatchers)
      /\ Cardinality(Markers(call, p)) \in Nat
  BY MarkersBounded
<1>2. (\A u \in Threads \ {t} : call'[u] = call[u]) /\ call'[t] = k
  OBVIOUS
<1>3. Cardinality(Markers(call', p)) <= Cardinality(Markers(call, p))
  BY <1>2, MarkersShrink
<1>4. CASE peers'[p].active = 0
  BY <1>1, <1>4, PeersAssumption
<1>5. CASE p \in Known /\ peers'[p].active <= peers[p].active /\ peers'[p].active \in Nat
  <2>1. peers[p].active \in Nat
    BY <1>5 DEF PTypeOK, Known, PeerState
  <2>2. peers[p].active + Cardinality(Markers(call, p)) <= MaxConcurrent + Cardinality(Dispatchers) - 1
    BY <1>5 DEF LoadInv
  <2>3. MaxConcurrent \in Nat
    BY PeersAssumption
  <2> QED
    BY <1>1, <1>3, <1>5, <2>1, <2>2, <2>3
<1> QED
  BY <1>4, <1>5 DEF Lighter

\* What a selection returns can take a request; a selection adds at most one per dispatcher.
LEMMA LoadSelect ==
    ASSUME LoadInv, PTypeOK, peers' = peers, NEW t \in Threads, NEW k, NEW S,
           call' = [call EXCEPT ![t] = k], call \in [Threads -> Calls],
           k.at = "mark" => k.left = S, \A p \in S : p \in Known /\ peers[p].active < MaxConcurrent
    PROVE  LoadInv'
<1> SUFFICES ASSUME NEW p \in Known
             PROVE  peers[p].active + Cardinality(Markers(call', p))
                        <= MaxConcurrent + Cardinality(Dispatchers) - 1
  BY DEF LoadInv, Known
<1>1. /\ Cardinality(Markers(call', p)) \in Nat /\ Cardinality(Dispatchers) \in Nat
      /\ Cardinality(Markers(call', p)) <= Cardinality(Dispatchers)
      /\ Cardinality(Markers(call, p)) \in Nat
  BY MarkersBounded
<1>2. (\A u \in Threads \ {t} : call'[u] = call[u]) /\ call'[t] = k
  OBVIOUS
<1>3. peers[p].active \in Nat /\ MaxConcurrent \in Nat
  BY PeersAssumption DEF PTypeOK, Known, PeerState
<1>4. CASE p \in S
  <2>1. peers[p].active < MaxConcurrent
    BY <1>4
  <2> QED
    BY <1>1, <1>3, <2>1
<1>5. CASE p \notin S
  <2>1. Cardinality(Markers(call', p)) <= Cardinality(Markers(call, p))
    BY <1>2, <1>5, MarkersShrink
  <2>2. peers[p].active + Cardinality(Markers(call, p)) <= MaxConcurrent + Cardinality(Dispatchers) - 1
    BY DEF LoadInv
  <2> QED
    BY <1>1, <1>3, <2>1, <2>2
<1> QED
  BY <1>4, <1>5

\* mark_request_sent counts a request that had been decided.
LEMMA LoadMark ==
    ASSUME BInv, NEW t \in Threads, NEW q \in Peers, MarkPeer(t, q)
    PROVE  LoadInv'
<1> DEFINE k == [call[t] EXCEPT !.left = @ \ {q}]
           s == [peers[q] EXCEPT !.active = @ + 1]
<1>0. LoadInv /\ PTypeOK /\ call \in [Threads -> Calls]
  BY DEF BInv, BsTypeOK
<1>1. /\ call' = [call EXCEPT ![t] = k] /\ call[t].at = "mark" /\ q \in call[t].left
      /\ peers' = IF q \in Known THEN [peers EXCEPT ![q] = s] ELSE peers
  BY DEF MarkPeer, Goto, At, MarkRequestSent, Update
<1>2. call[t] \in [at : {"mark"}, cid : Cids, peers : SUBSET Peers, left : SUBSET Peers] /\ t \in Dispatchers
  BY <1>0, <1>1, CallAt DEF BInv, DispatchInv
<1>3. k.at = "mark" /\ k.left = call[t].left \ {q}
  BY <1>2
<1>4. q \in Known => peers[q] \in PeerState /\ s \in PeerState /\ s.active = peers[q].active + 1
  BY <1>0 DEF PTypeOK, Known, PeerState
<1> HIDE DEF k, s
<1>5. Known' = Known
  BY <1>0, <1>1, <1>4, AbsentAssumption DEF Known, PTypeOK
<1> SUFFICES ASSUME NEW p \in Known
             PROVE  peers'[p].active + Cardinality(Markers(call', p))
                        <= MaxConcurrent + Cardinality(Dispatchers) - 1
  BY <1>5 DEF LoadInv
<1>6. /\ Cardinality(Markers(call', p)) \in Nat /\ Cardinality(Dispatchers) \in Nat
      /\ Cardinality(Markers(call, p)) \in Nat /\ IsFiniteSet(Markers(call, p))
  BY MarkersBounded
<1>7. peers[p].active \in Nat /\ MaxConcurrent \in Nat
  BY <1>0, PeersAssumption DEF PTypeOK, Known, PeerState
<1>8. peers[p].active + Cardinality(Markers(call, p)) <= MaxConcurrent + Cardinality(Dispatchers) - 1
  BY <1>0 DEF LoadInv
<1>9. CASE p = q
  <2>1. Markers(call', p) = Markers(call, p) \ {t} /\ t \in Markers(call, p)
    BY <1>0, <1>1, <1>2, <1>3, <1>9, BitswapAssumption DEF Markers
  <2>2. Cardinality(Markers(call', p)) = Cardinality(Markers(call, p)) - 1
    BY <1>6, <2>1, FS_RemoveElement
  <2>3. peers'[p].active = peers[p].active + 1
    BY <1>0, <1>1, <1>4, <1>9 DEF PTypeOK, Known
  <2> QED
    BY <1>6, <1>7, <1>8, <2>2, <2>3
<1>10. CASE p # q
  <2>1. (\A u \in Threads \ {t} : call'[u] = call[u]) /\ call'[t] = k
    BY <1>0, <1>1
  <2>2. Cardinality(Markers(call', p)) <= Cardinality(Markers(call, p))
    BY <1>1, <1>3, <2>1, MarkersShrink
  <2>3. peers'[p] = peers[p]
    BY <1>0, <1>1, <1>10 DEF PTypeOK, Known
  <2> QED
    BY <1>6, <1>7, <1>8, <2>2, <2>3
<1> QED
  BY <1>9, <1>10

LEMMA LighterSame ==
    ASSUME PTypeOK, peers' = peers
    PROVE  Lighter
BY DEF Lighter, Known, PTypeOK, PeerState

LEMMA LighterUpdate ==
    ASSUME PTypeOK, NEW p \in Peers, NEW s, Update(p, s),
           p \in Known => s.active \in Nat /\ s.active <= peers[p].active
    PROVE  Lighter
<1> SUFFICES ASSUME NEW q \in Known'
             PROVE  q \in Known /\ peers'[q].active <= peers[q].active /\ peers'[q].active \in Nat
  BY DEF Lighter
<1>1. CASE q = p /\ p \in Known
  <2>1. peers'[q] = s
    BY <1>1 DEF Update, PTypeOK, Known
  <2> QED
    BY <1>1, <2>1
<1>2. CASE ~ (q = p /\ p \in Known)
  <2>1. q \in Known /\ peers'[q] = peers[q]
    BY <1>2 DEF Update, PTypeOK, Known
  <2> QED
    BY <2>1 DEF PTypeOK, Known, PeerState
<1> QED
  BY <1>1, <1>2

\* A ban removes the peer.
LEMMA LighterGone ==
    ASSUME PTypeOK, NEW p \in Peers, peers' = [peers EXCEPT ![p] = Absent]
    PROVE  Lighter
<1> SUFFICES ASSUME NEW q \in Known'
             PROVE  q \in Known /\ peers'[q] = peers[q] /\ peers[q].active \in Nat
  BY DEF Lighter
<1> QED
  BY DEF PTypeOK, Known, PeerState

\* A result takes a request off.
LEMMA LighterResult ==
    ASSUME PTypeOK, NEW p \in Peers, NEW n, Update(p, Result(peers[p], n))
    PROVE  Lighter
<1>1. ASSUME p \in Known
      PROVE  Result(peers[p], n).active \in Nat /\ Result(peers[p], n).active <= peers[p].active
  <2>1. peers[p] \in PeerState
    BY <1>1 DEF PTypeOK, Known
  <2>2. Result(peers[p], n).active = Less(peers[p].active) /\ peers[p].active \in Nat
    BY <2>1 DEF Result, PeerState
  <2> QED
    BY <2>2 DEF Less
<1> QED
  BY <1>1, LighterUpdate

LEMMA LighterSays ==
    ASSUME PTypeOK, NEW p \in Peers, NEW c, RecordHas(p, c) \/ RecordDoesntHave(p, c)
    PROVE  Lighter
<1> DEFINE s == [peers[p] EXCEPT !.has = @ \cup {c}, !.hasnt = @ \ {c}]
           u == [peers[p] EXCEPT !.hasnt = @ \cup {c}, !.has = @ \ {c}]
<1>1. Update(p, s) \/ Update(p, u)
  BY DEF RecordHas, RecordDoesntHave
<1>2. p \in Known => /\ s.active = peers[p].active /\ u.active = peers[p].active
                     /\ peers[p].active \in Nat
  BY DEF PTypeOK, Known, PeerState
<1> HIDE DEF s, u
<1>3. p \in Known => /\ s.active \in Nat /\ s.active <= peers[p].active
                     /\ u.active \in Nat /\ u.active <= peers[p].active
  BY <1>2
<1> QED
  BY <1>1, <1>3, LighterUpdate

LEMMA LighterFailure ==
    ASSUME PTypeOK, NEW p \in Peers, RecordFailure(p)
    PROVE  Lighter
<1>1. CASE peers' = peers
  BY <1>1, LighterSame
<1>2. ASSUME NEW d, BlacklistPeer(p, d) PROVE Lighter
  BY <1>2, LighterGone DEF BlacklistPeer
<1>3. ASSUME NEW n, Update(p, Result(peers[p], n)) PROVE Lighter
  BY <1>3, LighterResult
<1> QED
  BY <1>1, <1>2, <1>3 DEF RecordFailure, pvars

\* A selection returns peers that can take a request.
LEMMA SelectedCan ==
    ASSUME NEW t, NEW S \in SUBSET Peers, SelectProviders(t, S) \/ SelectPeers(t, S)
    PROVE  \A p \in S : p \in Known /\ peers[p].active < MaxConcurrent
<1>1. S \subseteq Providers(call[t].cid) \/ S \subseteq Candidates(call[t].cid)
  BY DEF SelectProviders, SelectPeers, FirstOf
<1> QED
  BY <1>1 DEF Providers, Candidates, CanAcceptRequest

\* The load over a step of a thread.
LEMMA LoadStep ==
    ASSUME BInv, NEW t \in Threads, Begin(t) \/ Continue(t)
    PROVE  LoadInv'
<1>0. /\ call \in [Threads -> Calls] /\ PTypeOK /\ LoadInv /\ call[t] \in Calls
      /\ Idle.at = "idle"
  BY DEF BInv, BsTypeOK, Idle
<1>1. ASSUME NEW k, call' = [call EXCEPT ![t] = k], k.at # "mark", Lighter PROVE LoadInv'
  BY <1>0, <1>1, LoadLighter
<1>2. ASSUME NEW c \in Cids, NEW prio \in Priorities, Want(t, c, prio) \/ UpdatePriority(t, c, prio)
      PROVE  LoadInv'
  <2>1. peers' = peers /\ call[t].at = "idle"
    BY <1>2 DEF Want, UpdatePriority, Call, At, pvars
  <2>2. \/ call' = [call EXCEPT ![t] = call[t]]
        \/ call' = [call EXCEPT ![t] = [at |-> "wantCheck", cid |-> c, priority |-> prio]]
    BY <1>0, <1>2 DEF Want, UpdatePriority, Goto
  <2> QED
    BY <1>0, <1>1, <2>1, <2>2, LighterSame
<1>3. ASSUME NEW c \in Cids, CancelWant(t, c) \/ NextWant(t, c) \/ RequestWanted(t, c) PROVE LoadInv'
  <2>1. peers' = peers
    BY <1>3 DEF CancelWant, NextWant, RequestWanted, pvars
  <2>2. \/ call' = [call EXCEPT ![t] = [at |-> "forget", cids |-> {c}]]
        \/ call' = [call EXCEPT ![t] = [at |-> "providers", cid |-> c]]
    BY <1>3 DEF CancelWant, NextWant, RequestWanted, RemoveWant, Goto
  <2> QED
    BY <1>0, <1>1, <2>1, <2>2, LighterSame
<1>4. ASSUME NEW expired, Cleanup(t, expired) PROVE LoadInv'
  <2> DEFINE k == [at |-> "forget", cids |-> expired]
  <2>1. peers' = peers /\ call' = [call EXCEPT ![t] = k] /\ k.at # "mark"
    BY <1>4 DEF Cleanup, Goto, pvars
  <2> HIDE DEF k
  <2> QED
    BY <1>0, <1>1, <2>1, LighterSame
<1>5. ASSUME NEW p \in Peers, NEW c,
             RequestFailed(t, p) \/ PeerSaysHave(t, p, c) \/ PeerSaysDontHave(t, p, c)
      PROVE  LoadInv'
  <2>1. call' = [call EXCEPT ![t] = call[t]] /\ call[t].at = "idle"
    BY <1>0, <1>5 DEF RequestFailed, PeerSaysHave, PeerSaysDontHave, Call, At
  <2>2. Lighter
    BY <1>0, <1>5, LighterFailure, LighterSays DEF RequestFailed, PeerSaysHave, PeerSaysDontHave
  <2> QED
    BY <1>1, <2>1, <2>2
<1>6. ASSUME NEW p \in Peers, NEW c \in Cids, ReceiveBlock(t, p, c) PROVE LoadInv'
  <2> DEFINE k == [at |-> "put", cid |-> c, peer |-> p]
  <2>1. peers' = peers /\ call' = [call EXCEPT ![t] = k] /\ k.at # "mark"
    BY <1>6 DEF ReceiveBlock, Goto, pvars
  <2> HIDE DEF k
  <2> QED
    BY <1>0, <1>1, <2>1, LighterSame
<1>7. CASE WantCheck(t)
  <2> DEFINE k == IF call[t].cid \in Wanted THEN [call[t] EXCEPT !.at = "wantUpdate"] ELSE Idle
  <2>1. call[t] \in [at : {"wantCheck", "wantUpdate"}, cid : Cids, priority : Priorities]
    BY <1>0, <1>7, CallAt DEF WantCheck, At
  <2>2. call' = [call EXCEPT ![t] = k] /\ peers' = peers
    BY <1>7 DEF WantCheck, Return, Goto, pvars
  <2>3. k.at \in {"wantUpdate", "idle"}
    BY <1>0, <2>1
  <2> HIDE DEF k
  <2> QED
    BY <1>0, <1>1, <2>2, <2>3, LighterSame
<1>8. CASE WantUpdate(t) \/ Forget(t) \/ MarkPending(t)
  <2>1. call' = [call EXCEPT ![t] = Idle] /\ peers' = peers
    BY <1>8 DEF WantUpdate, Forget, MarkPending, Return, Goto, pvars
  <2> QED
    BY <1>0, <1>1, <2>1, LighterSame
<1>9. ASSUME NEW S \in SUBSET Peers, SelectProviders(t, S) \/ SelectPeers(t, S) PROVE LoadInv'
  <2> DEFINE k == IF S # {} THEN [at |-> "mark", cid |-> call[t].cid, peers |-> S, left |-> S]
                  ELSE IF call[t].at = "providers" THEN [at |-> "candidates", cid |-> call[t].cid]
                  ELSE Idle
  <2>1. call' = [call EXCEPT ![t] = k] /\ peers' = peers
    BY <1>9 DEF SelectProviders, SelectPeers, Chosen, Return, Goto, At, Select
  <2>2. k.at = "mark" => k.left = S
    BY <1>0
  <2> HIDE DEF k
  <2>3. \A p \in S : p \in Known /\ peers[p].active < MaxConcurrent
    BY <1>9, SelectedCan
  <2> QED
    BY <1>0, <2>1, <2>2, <2>3, LoadSelect
<1>10. CASE Put(t) \/ PeerSucceeded(t) \/ PeerHas(t) \/ BlockArrived(t)
  <2>1. call[t] \in [at : {"put", "success", "has", "cancel"}, cid : Cids, peer : Peers]
    BY <1>0, <1>10, CallAt DEF Put, PeerSucceeded, PeerHas, BlockArrived, At
  <2>2. PICK k : call' = [call EXCEPT ![t] = k] /\ k.at # "mark"
    <3>1. PICK at \in {"success", "has", "cancel"} :
              \/ call' = [call EXCEPT ![t] = Idle]
              \/ call' = [call EXCEPT ![t] = [at |-> "forget", cids |-> {call[t].cid}]]
              \/ call' = [call EXCEPT ![t] = [call[t] EXCEPT !.at = at]]
      BY <1>10 DEF Put, PeerSucceeded, PeerHas, BlockArrived, RemoveWant, Return, Goto
    <3>2. [call[t] EXCEPT !.at = at].at # "mark"
      BY <2>1
    <3> QED
      BY <1>0, <3>1, <3>2
  <2>3. Lighter
    <3>1. CASE Put(t) \/ BlockArrived(t)
      BY <1>0, <3>1, LighterSame DEF Put, BlockArrived, pvars
    <3>2. CASE PeerSucceeded(t)
      BY <1>0, <2>1, <3>2, LighterResult DEF PeerSucceeded, RecordSuccess
    <3>3. CASE PeerHas(t)
      BY <1>0, <2>1, <3>3, LighterSays DEF PeerHas
    <3> QED
      BY <1>10, <3>1, <3>2, <3>3
  <2> QED
    BY <1>1, <2>2, <2>3
<1>11. ASSUME NEW p \in Peers, MarkPeer(t, p) PROVE LoadInv'
  BY <1>11, LoadMark
<1> QED
  BY <1>2, <1>3, <1>4, <1>5, <1>6, <1>7, <1>8, <1>9, <1>10, <1>11 DEF Begin, Continue

\* The invariant over a step of a thread, ...
LEMMA ThreadKeeps ==
    ASSUME BInv, PInv', NEW t \in Threads, Begin(t) \/ Continue(t)
    PROVE  BInv'
<1>1. PICK k : Fine(t, k)
  <2>1. CASE Begin(t)
    BY <2>1, WantFine, BeginWantsFine, BeginRestFine DEF Begin
  <2>2. CASE Continue(t)
    BY <2>2, ContinueWantsFine, ContinueBlockFine, ContinueRequestFine DEF Continue
  <2> QED
    BY <2>1, <2>2
<1>2. LoadInv'
  BY LoadStep
<1>3. /\ call \in [Threads -> Calls] /\ StoredInv /\ DispatchInv
      /\ call' = [call EXCEPT ![t] = k] /\ k \in Calls /\ store \subseteq store'
      /\ k.at \in {"success", "has", "cancel"} => k.cid \in store'
      /\ k.at \in {"providers", "candidates", "mark"} => t \in Dispatchers
  BY <1>1 DEF Fine, BInv, BsTypeOK
<1>4. BsTypeOK'
  BY <1>1, <1>3 DEF Fine, BsTypeOK, PInv, Places
<1>5. StoredInv' /\ DispatchInv'
  BY <1>3 DEF StoredInv, DispatchInv
<1>6. OwedIsKept'
  BY <1>1 DEF Fine, OwedIsKept, Wanted, Queue!Occupied
<1> QED
  BY <1>2, <1>4, <1>5, <1>6 DEF BInv

\* ... and when peers come and go or time passes.
LEMMA OutsideKeeps ==
    ASSUME BInv, PInv', Lighter, UNCHANGED <<place, answer, pending, store, call, owed, calls>>
    PROVE  BInv'
<1>1. BsTypeOK'
  BY DEF BInv, BsTypeOK, PInv
<1>2. StoredInv' /\ DispatchInv' /\ OwedIsKept'
  BY DEF BInv, StoredInv, DispatchInv, OwedIsKept, Wanted, Queue!Occupied
<1>3. ASSUME NEW p \in Known'
      PROVE  peers'[p].active + Cardinality(Markers(call, p))
                 <= MaxConcurrent + Cardinality(Dispatchers) - 1
  <2>1. /\ Cardinality(Markers(call, p)) \in Nat /\ Cardinality(Dispatchers) \in Nat
        /\ Cardinality(Markers(call, p)) <= Cardinality(Dispatchers)
    BY MarkersBounded
  <2>2. MaxConcurrent \in Nat \ {0}
    BY PeersAssumption
  <2>3. CASE peers'[p].active = 0
    BY <2>1, <2>2, <2>3
  <2>4. CASE p \in Known /\ peers'[p].active <= peers[p].active /\ peers'[p].active \in Nat
    <3>1. peers[p].active \in Nat
      BY <2>4 DEF BInv, BsTypeOK, PTypeOK, Known, PeerState
    <3>2. peers[p].active + Cardinality(Markers(call, p)) <= MaxConcurrent + Cardinality(Dispatchers) - 1
      BY <2>4 DEF BInv, LoadInv
    <3> QED
      BY <2>1, <2>2, <2>4, <3>1, <3>2
  <2> QED
    BY <1>3, <2>3, <2>4 DEF Lighter
<1>4. LoadInv'
  BY <1>3 DEF LoadInv
<1> QED
  BY <1>1, <1>2, <1>4 DEF BInv

LEMMA BInvStep ==
    ASSUME BInv, [BsNext]_xvars
    PROVE  BInv'
<1>1. PInv'
  BY PeersMove, StepLemma DEF BInv
<1>2. PTypeOK
  BY DEF BInv, PInv
<1>3. ASSUME NEW t \in Threads, Begin(t) \/ Continue(t) PROVE BInv'
  BY <1>1, <1>3, ThreadKeeps
<1>4. ASSUME NEW p \in Peers, PeerChange(p) PROVE BInv'
  <2>1. UNCHANGED <<place, answer, pending, store, call, owed, calls>>
    BY <1>4 DEF PeerChange, wants
  <2>2. CASE AddPeer(p)
    <3>1. \A q \in Known' : (q = p /\ peers'[q] = NewPeer) \/ (q \in Known /\ peers'[q] = peers[q])
      BY <1>2, <2>2 DEF AddPeer, Known, PTypeOK
    <3>2. NewPeer.active = 0 /\ \A q \in Known : peers[q].active \in Nat
      BY <1>2 DEF NewPeer, Known, PTypeOK, PeerState
    <3>3. Lighter
      BY <3>1, <3>2 DEF Lighter
    <3> QED
      BY <1>1, <2>1, <3>3, OutsideKeeps
  <2>3. CASE RemovePeer(p)
    BY <1>1, <1>2, <2>1, <2>3, LighterGone, OutsideKeeps DEF RemovePeer
  <2> QED
    BY <1>4, <2>2, <2>3 DEF PeerChange
<1>5. CASE Elapse /\ UNCHANGED <<wants, pending, store, call, owed, calls>>
  <2>1. peers' = peers /\ UNCHANGED <<place, answer, pending, store, call, owed, calls>>
    BY <1>5 DEF Elapse, wants
  <2> QED
    BY <1>1, <1>2, <2>1, LighterSame, OutsideKeeps
<1>6. CASE UNCHANGED xvars
  <2>1. peers' = peers /\ UNCHANGED <<place, answer, pending, store, call, owed, calls>>
    BY <1>6 DEF xvars
  <2> QED
    BY <1>1, <1>2, <2>1, LighterSame, OutsideKeeps
<1> QED
  BY <1>3, <1>4, <1>5, <1>6 DEF BsNext

LEMMA BInvInit == BsInit => BInv
<1> SUFFICES ASSUME BsInit PROVE BInv
  OBVIOUS
<1>1. PInv
  BY InitLemma DEF BsInit
<1>2. BsTypeOK
  BY <1>1, BitswapAssumption DEF BsInit, BsTypeOK, PInv, Queue!QInit, Idle, Calls
<1>3. StoredInv /\ DispatchInv /\ OwedIsKept /\ LoadInv
  BY DEF BsInit, PInit, StoredInv, DispatchInv, OwedIsKept, LoadInv, Known, Idle
<1> QED
  BY <1>1, <1>2, <1>3 DEF BInv

LEMMA BInvHolds == BsSpec => []BInv
BY BInvInit, BInvStep, PTL DEF BsSpec

\* The exchange's maps and the calls under way keep their types, whatever blocks, answers,
\* failures and peers come and go (BitswapExchange, bitswap.rs).
THEOREM ExchangeIsTyped == BsSpec => []BsTypeOK
BY BInvHolds, PTL DEF BInv

\* No want is lost before its block is stored, through failed puts, duplicate blocks and
\* wants renewed while receive_block runs (want, receive_block, cancel_want, bitswap.rs).
THEOREM OwedWantsAreKept == BsSpec => []OwedIsKept
BY BInvHolds, PTL DEF BInv

\* A peer is overloaded by at most one request for each dispatching thread beyond the first,
\* also when it is removed and added again while requests to it are decided
\* (select_peers_for_request and mark_request_sent, bitswap.rs).
THEOREM LoadIsBounded == BsSpec => []LoadBounded
<1>1. BInv => LoadBounded
  <2> SUFFICES ASSUME BInv, NEW p \in Known
               PROVE  peers[p].active <= MaxConcurrent + Cardinality(Dispatchers) - 1
    BY DEF LoadBounded
  <2>1. Cardinality(Markers(call, p)) \in Nat /\ Cardinality(Dispatchers) \in Nat
    BY MarkersBounded
  <2>2. peers[p].active \in Nat /\ MaxConcurrent \in Nat
    BY PeersAssumption DEF BInv, PInv, PTypeOK, Known, PeerState
  <2>3. peers[p].active + Cardinality(Markers(call, p)) <= MaxConcurrent + Cardinality(Dispatchers) - 1
    BY DEF BInv, LoadInv
  <2> QED
    BY <2>1, <2>2, <2>3
<1> QED
  BY <1>1, BInvHolds, PTL

\* The exchange is a user of the peer manager that makes only its calls, so what is proved
\* of the peer manager holds in the exchange (bitswap.rs, peer_manager.rs).
THEOREM ExchangeUsesPeers == BsSpec => PSpec
<1>1. BsInit => PInit
  BY DEF BsInit
<1>2. BInv /\ [BsNext]_xvars => [PNext]_pvars
  BY PeersMove DEF BInv
<1> QED
  BY <1>1, <1>2, BInvHolds, PTL DEF BsSpec, PSpec

================================================================================
