-------------------------------- MODULE Bitswap --------------------------------
(***************************************************************************)
(* The Bitswap exchange of ipfrs-transport (bitswap.rs), used by several   *)
(* threads at once.  It keeps a want list, a peer manager, a map of        *)
(* pending requests and a block store, each with a lock of its own, and    *)
(* most of its calls take several of them one after the other: a call is   *)
(* split into one step per lock.  The want list is the WantQueue that      *)
(* WantList implements (a want is its priority; which wants have expired   *)
(* is left open), the peer manager is PeerManager.                         *)
(***************************************************************************)
EXTENDS PeerManager

CONSTANTS
    Threads,
    Dispatchers,   \* the threads that select peers and send requests
    Ops,           \* the calls the threads make, a subset of AllOps
    Priorities,    \* the priorities callers ask for
    MaxWants,      \* WantListConfig::max_wants
    MaxPeers,      \* max_peers_per_request
    StoreFails,    \* whether the store's put can fail
    MaxCalls       \* bound: calls made in total

AllOps == {"want", "update", "cancel", "next", "request", "block", "failure", "have",
           "dontHave", "cleanup"}

ASSUME BitswapAssumption ==
    /\ Dispatchers \subseteq Threads /\ IsFiniteSet(Dispatchers)
    /\ Ops \subseteq AllOps
    /\ Priorities \subseteq Int
    /\ MaxWants \in Nat /\ MaxPeers \in Nat \ {0} /\ MaxCalls \in Nat
    /\ StoreFails \in BOOLEAN

VARIABLES
    place,     \* the want list: cid -> [priority, created], or Absent
    answer,    \* of the last pop
    pending,   \* pending_requests: cid -> the peers asked, or Absent
    store,     \* the blocks in the store
    call,      \* thread -> the call it is in
    owed,      \* history: wants neither cancelled, handed out nor expired since
    calls      \* calls made so far

Queue == INSTANCE WantQueue WITH
    Capacity <- MaxWants, Vacant <- Absent, Empty <- "none", Silent <- "silent"

\* Nothing that is in the want list is mistaken for its absence.
ASSUME PlaceAssumption == Absent \notin Queue!Place

wants == <<place, answer>>
xvars == <<place, answer, pending, store, call, owed, calls, peers, blacklist, clock>>

Wanted == Queue!Occupied

Idle == [at |-> "idle"]

At(t, step) == call[t].at = step

BsInit ==
    /\ PInit
    /\ Queue!QInit
    /\ pending = [c \in Cids |-> Absent]
    /\ store = {}
    /\ call = [t \in Threads |-> Idle]
    /\ owed = {}
    /\ calls = 0

\* An idle thread makes a call.
Call(t, op) ==
    /\ At(t, "idle") /\ op \in Ops
    /\ calls < MaxCalls
    /\ calls' = calls + 1

Goto(t, r) == call' = [call EXCEPT ![t] = r]

Return(t) == Goto(t, Idle)

--------------------------------------------------------------------------------
(* Wants.                                                                       *)

SetPlace(c, v) == place' = [place EXCEPT ![c] = v] /\ answer' = "silent"

IsFull == Cardinality(Wanted) >= MaxWants

\* want (and want_with_entry, when it succeeds): add_simple.
Want(t, c, prio) ==
    /\ Call(t, "want")
    /\ IF c \notin Wanted /\ ~ IsFull
       THEN /\ SetPlace(c, [priority |-> prio, created |-> 0])
            /\ owed' = owed \cup {c}
            /\ UNCHANGED call
       ELSE /\ Goto(t, [at |-> "wantCheck", cid |-> c, priority |-> prio])
            /\ UNCHANGED <<wants, owed>>
    /\ UNCHANGED <<pending, store, pvars>>

\* "Already wanted or list full - check which": not wanted is the error "Want list full".
WantCheck(t) ==
    /\ At(t, "wantCheck")
    /\ IF call[t].cid \in Wanted THEN Goto(t, [call[t] EXCEPT !.at = "wantUpdate"])
                                ELSE Return(t)
    /\ UNCHANGED <<wants, pending, store, owed, calls, pvars>>

\* update_priority.
Reprioritise(c, prio) ==
    IF c \in Wanted THEN SetPlace(c, [place[c] EXCEPT !.priority = prio])
                    ELSE UNCHANGED wants

WantUpdate(t) ==
    /\ At(t, "wantUpdate")
    /\ Reprioritise(call[t].cid, call[t].priority)
    /\ Return(t)
    /\ UNCHANGED <<pending, store, owed, calls, pvars>>

UpdatePriority(t, c, prio) ==
    /\ Call(t, "update")
    /\ Reprioritise(c, prio)
    /\ UNCHANGED <<pending, store, call, owed, pvars>>

\* cancel_want: the want list, then the pending requests.
RemoveWant(t, c) ==
    /\ SetPlace(c, Absent)
    /\ Goto(t, [at |-> "forget", cids |-> {c}])

CancelWant(t, c) ==
    /\ Call(t, "cancel")
    /\ RemoveWant(t, c)
    /\ owed' = owed \ {c}
    /\ UNCHANGED <<pending, store, pvars>>

\* cleanup: the wants that have expired leave the want list.
Cleanup(t, expired) ==
    /\ Call(t, "cleanup")
    /\ place' = [c \in Cids |-> IF c \in expired THEN Absent ELSE place[c]]
    /\ answer' = "silent"
    /\ owed' = owed \ expired
    /\ Goto(t, [at |-> "forget", cids |-> expired])
    /\ UNCHANGED <<pending, store, pvars>>

\* The pending requests of cancelled, received or expired wants are removed.
Forget(t) ==
    /\ At(t, "forget")
    /\ pending' = [c \in Cids |-> IF c \in call[t].cids THEN Absent ELSE pending[c]]
    /\ Return(t)
    /\ UNCHANGED <<wants, store, owed, calls, pvars>>

--------------------------------------------------------------------------------
(* Requests: a thread takes a CID, from next_want or from the list of wants,    *)
(* selects peers for it and marks the request as sent.                          *)

\* next_want.
NextWant(t, c) ==
    /\ Call(t, "next") /\ t \in Dispatchers
    /\ Queue!IsHead(c)
    /\ place' = [place EXCEPT ![c] = Absent]
    /\ answer' = c
    /\ owed' = owed \ {c}
    /\ Goto(t, [at |-> "providers", cid |-> c])
    /\ UNCHANGED <<pending, store, pvars>>

\* get_wanted_cids, without taking the want.
RequestWanted(t, c) ==
    /\ Call(t, "request") /\ t \in Dispatchers
    /\ c \in Wanted
    /\ Goto(t, [at |-> "providers", cid |-> c])
    /\ UNCHANGED <<wants, pending, store, owed, pvars>>

Chosen(t, S) == Goto(t, [at |-> "mark", cid |-> call[t].cid, peers |-> S, left |-> S])

\* select_peers_for_request: peers that have the block, or else any that might.
SelectProviders(t, S) ==
    /\ At(t, "providers")
    /\ Select
    /\ S \in FirstOf(Providers(call[t].cid), MaxPeers)
    /\ IF S # {} THEN Chosen(t, S)
                 ELSE Goto(t, [at |-> "candidates", cid |-> call[t].cid])
    /\ UNCHANGED <<wants, pending, store, owed, calls>>

SelectPeers(t, S) ==
    /\ At(t, "candidates")
    /\ Select
    /\ S \in FirstOf(Candidates(call[t].cid), MaxPeers)
    /\ IF S # {} THEN Chosen(t, S) ELSE Return(t)
    /\ UNCHANGED <<wants, pending, store, owed, calls>>

\* mark_request_sent: each peer under the lock of the peer manager, ...
MarkPeer(t, p) ==
    /\ At(t, "mark") /\ p \in call[t].left
    /\ MarkRequestSent(p)
    /\ Goto(t, [call[t] EXCEPT !.left = @ \ {p}])
    /\ UNCHANGED <<wants, pending, store, owed, calls>>

\* ... then the request.
MarkPending(t) ==
    /\ At(t, "mark") /\ call[t].left = {}
    /\ pending' = [pending EXCEPT ![call[t].cid] = call[t].peers]
    /\ Return(t)
    /\ UNCHANGED <<wants, store, owed, calls, pvars>>

--------------------------------------------------------------------------------
(* Answers.                                                                     *)

\* receive_block, up to the await of the store.
ReceiveBlock(t, p, c) ==
    /\ Call(t, "block")
    /\ Goto(t, [at |-> "put", cid |-> c, peer |-> p])
    /\ UNCHANGED <<wants, pending, store, owed, pvars>>

\* Mutant: the result of put is not looked at.
PutUnchecked(t) ==
    /\ At(t, "put")
    /\ \/ store' = store \cup {call[t].cid}
       \/ StoreFails /\ UNCHANGED store
    /\ Goto(t, [call[t] EXCEPT !.at = "success"])
    /\ UNCHANGED <<wants, pending, owed, calls, pvars>>

\* put stores the block, or fails and ends the call.
Put(t) ==
    /\ At(t, "put")
    /\ \/ /\ store' = store \cup {call[t].cid}
          /\ Goto(t, [call[t] EXCEPT !.at = "success"])
       \/ /\ StoreFails
          /\ Return(t)
          /\ UNCHANGED store
    /\ UNCHANGED <<wants, pending, owed, calls, pvars>>

PeerSucceeded(t) ==
    /\ At(t, "success")
    /\ RecordSuccess(call[t].peer)
    /\ Goto(t, [call[t] EXCEPT !.at = "has"])
    /\ UNCHANGED <<wants, pending, store, owed, calls>>

\* record_has
PeerHas(t) ==
    /\ At(t, "has")
    /\ RecordHas(call[t].peer, call[t].cid)
    /\ Goto(t, [call[t] EXCEPT !.at = "cancel"])
    /\ UNCHANGED <<wants, pending, store, owed, calls>>

\* cancel_want, of the block received.
BlockArrived(t) ==
    /\ At(t, "cancel")
    /\ RemoveWant(t, call[t].cid)
    /\ UNCHANGED <<pending, store, owed, calls, pvars>>

\* record_failure (mark_attempted only counts retries).
RequestFailed(t, p) ==
    /\ Call(t, "failure")
    /\ RecordFailure(p)
    /\ UNCHANGED <<wants, pending, store, call, owed>>

\* record_have, record_dont_have.
PeerSaysHave(t, p, c) ==
    /\ Call(t, "have")
    /\ RecordHas(p, c)
    /\ UNCHANGED <<wants, pending, store, call, owed>>

PeerSaysDontHave(t, p, c) ==
    /\ Call(t, "dontHave")
    /\ RecordDoesntHave(p, c)
    /\ UNCHANGED <<wants, pending, store, call, owed>>

--------------------------------------------------------------------------------

\* Peers come and go.
PeerChange(p) ==
    /\ AddPeer(p) \/ (p \in Known /\ RemovePeer(p))
    /\ UNCHANGED <<wants, pending, store, call, owed, calls>>

Continue(t) ==
    \/ WantCheck(t) \/ WantUpdate(t)
    \/ Forget(t)
    \/ \E S \in SUBSET Peers : SelectProviders(t, S) \/ SelectPeers(t, S)
    \/ \E p \in Peers : MarkPeer(t, p)
    \/ MarkPending(t)
    \/ Put(t) \/ PeerSucceeded(t) \/ PeerHas(t) \/ BlockArrived(t)

Begin(t) ==
    \/ \E c \in Cids, prio \in Priorities : Want(t, c, prio) \/ UpdatePriority(t, c, prio)
    \/ \E c \in Cids : CancelWant(t, c) \/ NextWant(t, c) \/ RequestWanted(t, c)
    \/ \E expired \in SUBSET Wanted : Cleanup(t, expired)
    \/ \E p \in Peers : RequestFailed(t, p)
    \/ \E p \in Peers, c \in Cids :
          ReceiveBlock(t, p, c) \/ PeerSaysHave(t, p, c) \/ PeerSaysDontHave(t, p, c)

BsNext ==
    \/ \E t \in Threads : Begin(t) \/ Continue(t)
    \/ \E p \in Peers : PeerChange(p)
    \/ Elapse /\ UNCHANGED <<wants, pending, store, call, owed, calls>>

BsSpec == BsInit /\ [][BsNext]_xvars
--------------------------------------------------------------------------------

Calls ==
    {Idle}
    \cup [at : {"wantCheck", "wantUpdate"}, cid : Cids, priority : Priorities]
    \cup [at : {"forget"}, cids : SUBSET Cids]
    \cup [at : {"providers", "candidates"}, cid : Cids]
    \cup [at : {"mark"}, cid : Cids, peers : SUBSET Peers, left : SUBSET Peers]
    \cup [at : {"put", "success", "has", "cancel"}, cid : Cids, peer : Peers]

\* The types of the exchange's maps and of the calls under way.
BsTypeOK ==
    /\ PTypeOK
    /\ place \in [Cids -> Queue!Place \cup {Absent}]
    /\ pending \in [Cids -> (SUBSET Peers) \cup {Absent}]
    /\ store \subseteq Cids /\ owed \subseteq Cids
    /\ call \in [Threads -> Calls]
    /\ calls \in 0..MaxCalls

\* A want the application has not cancelled, taken or let expire stays on the want list
\* until its block is in the store, through failed puts, duplicate blocks and renewed
\* wants that race receive_block.
OwedIsKept == \A c \in owed : c \in Wanted \cup store

\* Selections look at the limit of a peer and mark it later, so dispatching threads can
\* exceed it, but only by one request for each thread beyond the first.
LoadBounded ==
    \A p \in Known : peers[p].active <= MaxConcurrent + Cardinality(Dispatchers) - 1
================================================================================
