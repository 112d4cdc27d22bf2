---------------------------------- MODULE Raft ----------------------------------
(***************************************************************************)
(* RaftNode of ipfrs-storage (raft.rs): one node, its election timer and   *)
(* the event loop that answers AppendEntries and RequestVote and applies   *)
(* what is committed.  The code has no path to Leader and sends nothing,   *)
(* so the node is a follower or a candidate for ever and every request     *)
(* comes from outside.                                                     *)
(*                                                                         *)
(* The rest of the cluster is a history: the log of the leader of each     *)
(* term and how much of it that leader committed, any one that keeps       *)
(* Raft's own promises.  Any request a leader of the history could have    *)
(* sent may arrive at any moment: late, twice, out of order or never.      *)
(***************************************************************************)
EXTENDS Integers, Sequences

CONSTANTS
    Peers,          \* the other nodes
    Self, NoNode,   \* this node's id, and None
    Keys,           \* the CIDs the commands are about
    MaxTerm,        \* bound: the highest term
    Histories,      \* what the leaders may have done
    CappedCommit    \* leaders announce no commit index beyond the entries they send

Terms == 1..MaxTerm

Command == [op : {"put", "delete", "noop"}, key : Keys]

\* LogEntry: its index is its place in the log.
Entry == [term : Terms, command : Command]

\* s is a prefix of t.
Extends(t, s) == Len(s) <= Len(t) /\ \A i \in 1..Len(s) : s[i] = t[i]

\* A history: who led each term, the leader's log, and how many entries it
\* committed.  Terms never go down along a log, two logs with an entry of one term at
\* one index agree up to it, and a later leader has all that an earlier one committed.
IsHistory(h) ==
    /\ h.leader \in [Terms -> Peers]
    /\ h.log \in [Terms -> Seq(Entry)]
    /\ h.committed \in [Terms -> Nat]
    /\ \A t \in Terms : h.committed[t] <= Len(h.log[t])
    /\ \A t \in Terms : \A i, j \in 1..Len(h.log[t]) :
         i <= j => h.log[t][i].term <= h.log[t][j].term
    /\ \A t, u \in Terms : \A i \in 1..Len(h.log[t]) :
         /\ i <= Len(h.log[u]) /\ h.log[t][i].term = h.log[u][i].term
         => \A j \in 1..i : h.log[t][j] = h.log[u][j]
    /\ \A t, u \in Terms : t < u =>
         /\ h.committed[t] <= Len(h.log[u])
         /\ \A i \in 1..h.committed[t] : h.log[u][i] = h.log[t][i]

ASSUME RaftAssumption ==
    /\ MaxTerm \in Nat /\ CappedCommit \in BOOLEAN
    /\ Self # NoNode /\ Self \notin Peers /\ NoNode \notin Peers
    /\ \A h \in Histories : IsHistory(h)

VARIABLES
    hist,           \* what the rest of the cluster does
    state,          \* NodeState
    current_term, voted_for,    \* PersistentState, kept in memory
    log,
    commit_index, last_applied, \* VolatileState
    current_leader,
    timer,          \* where the election timer task is
    loop,           \* where the event loop is
    gap,            \* no request comes for the 10 ms the event loop waits for one
    store,          \* the block store, which a restart leaves as it is
    granted,        \* history: whom the node granted its vote to in each term
    replayed        \* history: how far earlier lives of the node applied the log

election == <<state, current_term, voted_for, current_leader, granted>>
applying == <<last_applied, loop, gap, store, replayed>>
rvars == <<hist, election, log, commit_index, timer, applying>>

RInit ==
    /\ hist \in Histories /\ store = {} /\ replayed = 0
    /\ state = "Follower" /\ current_term = 0 /\ voted_for = NoNode
    /\ log = <<>> /\ commit_index = 0 /\ last_applied = 0
    /\ current_leader = NoNode /\ timer = "sleep" /\ loop = "idle"
    /\ gap = FALSE
    /\ granted = [t \in Terms |-> {}]

--------------------------------------------------------------------------------
(* The election timer: three locks, one after the other.                       *)

\* No message for a whole timeout, and the node is not the leader.
TimerFires ==
    /\ timer = "sleep"
    /\ state' = "Candidate"
    /\ timer' = "increment"
    /\ UNCHANGED <<hist, current_term, voted_for, current_leader, granted, log,
                   commit_index, applying>>

TimerIncrements ==
    /\ timer = "increment" /\ current_term < MaxTerm
    /\ current_term' = current_term + 1
    /\ timer' = "vote"
    /\ UNCHANGED <<hist, state, voted_for, current_leader, granted, log,
                   commit_index, applying>>

\* Mutant: a new election clears the vote and leaves the vote for itself out.
TimerVotesNobody ==
    /\ timer = "vote"
    /\ voted_for' = NoNode
    /\ timer' = "sleep"
    /\ UNCHANGED <<hist, state, current_term, current_leader, granted, log,
                   commit_index, applying>>

TimerVotes ==
    /\ timer = "vote"
    /\ voted_for' = Self
    /\ timer' = "sleep"
    /\ UNCHANGED <<hist, state, current_term, current_leader, granted, log,
                   commit_index, applying>>

--------------------------------------------------------------------------------
(* AppendEntries.                                                              *)

\* The requests the leader of term t could have sent.
AppendRequests(t) ==
    [term : {t}, prev : 0..Len(hist.log[t]), end : 0..Len(hist.log[t]),
     commit : 0..hist.committed[t]]

\* A request carries the leader's entries from prev + 1 to end.
WellFormed(r) == r.prev <= r.end /\ (CappedCommit => r.commit <= r.end)

\* A request of a higher term makes the node a follower with its vote back.
SeeTerm(t) ==
    /\ current_term' = t
    /\ state' = IF t > current_term THEN "Follower" ELSE state
    /\ voted_for' = IF t > current_term THEN NoNode ELSE voted_for

\* Mutant: only the length of the log is looked at.
PrevMatchesLength(r) == r.prev = 0 \/ r.prev <= Len(log)

\* The log holds the entry at prev_log_index with prev_log_term.
PrevMatches(r) ==
    \/ r.prev = 0
    \/ r.prev <= Len(log) /\ log[r.prev].term = hist.log[r.term][r.prev].term

\* Mutant: whatever follows prev is replaced by what the request carries.
MergedAlways(r) ==
    [i \in 1..r.end |-> IF i <= r.prev THEN log[i] ELSE hist.log[r.term][i]]

\* Mutant: entries are overwritten in place and what follows them stays.
MergedInPlace(r) ==
    [i \in 1..(IF r.end > Len(log) THEN r.end ELSE Len(log)) |->
        IF i \in (r.prev + 1)..r.end THEN hist.log[r.term][i] ELSE log[i]]

\* Entries the log has are kept; the first that is missing or of another term
\* cuts the log off and the rest is pushed.
Known(r, i) == i <= Len(log) /\ log[i].term = hist.log[r.term][i].term

Merged(r) ==
    IF \A i \in (r.prev + 1)..r.end : Known(r, i)
    THEN log
    ELSE [i \in 1..r.end |->
            IF i <= r.prev \/ \A j \in (r.prev + 1)..i : Known(r, j)
            THEN log[i] ELSE hist.log[r.term][i]]

NewCommit(r) ==
    IF r.commit > commit_index
    THEN IF r.commit < Len(log') THEN r.commit ELSE Len(log')
    ELSE commit_index

\* Handlers run one at a time on the event loop, between two rounds of applying.
HandleAppendEntries(r) ==
    /\ loop = "idle" /\ ~ gap /\ r.term >= current_term
    /\ SeeTerm(r.term)
    /\ current_leader' = hist.leader[r.term]
    /\ IF PrevMatches(r)
       THEN log' = Merged(r) /\ commit_index' = NewCommit(r)
       ELSE UNCHANGED <<log, commit_index>>
    /\ UNCHANGED <<hist, granted, timer, applying>>

\* Mutant: the scan begins with the length of the log instead of prev_log_index.
ConflictIndexFromEnd(r) ==
    LET tail == {i \in 1..Len(log) : \A j \in i..Len(log) : log[j].term = log[r.prev].term}
    IN  IF r.prev > Len(log) \/ tail = {} THEN Len(log)
        ELSE CHOOSE i \in tail : \A j \in tail : i <= j

\* The index a refused request is answered with, the "next index to try": the length of
\* a log that is too short; otherwise, scanning from the end of the log, the last entry
\* met before one of another term than the refused entry's, or prev_log_index itself.
ConflictIndex(r) ==
    LET tail == {i \in 1..Len(log) : \A j \in i..Len(log) : log[j].term = log[r.prev].term}
    IN  IF r.prev > Len(log) THEN Len(log)
        ELSE IF tail = {} THEN r.prev ELSE CHOOSE i \in tail : \A j \in tail : i <= j

--------------------------------------------------------------------------------
(* RequestVote.                                                                *)

\* What a candidate of term t may claim of its log: the end of some prefix of the
\* log of a leader, from before t.
VoteRequests(t) ==
    {[term |-> t, candidate |-> c, last |-> l] : c \in Peers, l \in
        {[term |-> 0, index |-> 0]} \cup
        UNION {{[term |-> hist.log[u][i].term, index |-> i] :
                   i \in {j \in 1..Len(hist.log[u]) : hist.log[u][j].term < t}} :
               u \in Terms}}

LastLogTerm == IF log = <<>> THEN 0 ELSE log[Len(log)].term

\* The candidate's log is at least as up to date as this one.
LogOk(r) ==
    \/ r.last.term > LastLogTerm
    \/ r.last.term = LastLogTerm /\ r.last.index >= Len(log)

MayVote(r) ==
    /\ r.term > current_term \/ voted_for \in {NoNode, r.candidate}
    /\ LogOk(r)

HandleRequestVote(r) ==
    /\ loop = "idle" /\ ~ gap /\ r.term >= current_term
    /\ current_term' = r.term
    /\ state' = IF r.term > current_term THEN "Follower" ELSE state
    /\ voted_for' = IF MayVote(r) THEN r.candidate
                    ELSE IF r.term > current_term THEN NoNode ELSE voted_for
    /\ granted' = IF MayVote(r)
                  THEN [granted EXCEPT ![r.term] = @ \cup {r.candidate}] ELSE granted
    /\ UNCHANGED <<hist, current_leader, log, commit_index, timer, applying>>

--------------------------------------------------------------------------------
(* Applying what is committed.                                                 *)

\* Mutant: the last committed entry is left for the next round.
MoreToApplyLate == last_applied + 1 < commit_index

MoreToApply == last_applied < commit_index

\* The next entry counts as applied before it is; reading past the end of the log
\* panics and ends the event loop.
Take ==
    /\ last_applied' = last_applied + 1
    /\ loop' = IF last_applied' <= Len(log) THEN "store" ELSE "stopped"

\* Mutant: a round counts everything that is committed as applied at once.
BeginApplyAtCommit ==
    /\ loop = "idle" /\ MoreToApply
    /\ last_applied' = commit_index /\ loop' = "store"
    /\ UNCHANGED <<hist, election, log, commit_index, timer, gap, store, replayed>>

BeginApply ==
    /\ loop = "idle" /\ MoreToApply
    /\ Take
    /\ UNCHANGED <<hist, election, log, commit_index, timer, gap, store, replayed>>

Effect(c) ==
    IF c.op = "put" THEN store \cup {c.key}
    ELSE IF c.op = "delete" THEN store \ {c.key} ELSE store

\* The command reaches the block store, and the loop goes on with the next one.
ApplyCommand ==
    /\ loop = "store"
    /\ store' = Effect(log[last_applied].command)
    /\ IF MoreToApply THEN Take ELSE loop' = "idle" /\ UNCHANGED last_applied
    /\ UNCHANGED <<hist, election, log, commit_index, timer, gap, replayed>>

\* The block store fails: start() returns the error.
ApplyFails ==
    /\ loop = "store" /\ log[last_applied].command.op # "noop"
    /\ loop' = "stopped"
    /\ UNCHANGED <<hist, election, log, commit_index, timer, last_applied, gap, store,
                   replayed>>

\* External: the requests come closer together than 10 ms, and the wait of the event
\* loop begins anew with each; or one gap is longer.  A gap ends once the loop has
\* noticed it and begun to apply what there is.
Gap ==
    /\ gap => loop # "idle" \/ ~ MoreToApply
    /\ gap' = ~ gap
    /\ UNCHANGED <<hist, election, log, commit_index, timer, last_applied, loop, store,
                   replayed>>

\* The process ends and new() starts from nothing over the same block store.
Restart ==
    /\ state' = "Follower" /\ current_term' = 0 /\ voted_for' = NoNode
    /\ log' = <<>> /\ commit_index' = 0 /\ last_applied' = 0
    /\ current_leader' = NoNode /\ timer' = "sleep" /\ loop' = "idle"
    /\ granted' = [t \in Terms |-> {}]
    /\ replayed' = IF last_applied > replayed THEN last_applied ELSE replayed
    /\ UNCHANGED <<hist, gap, store>>

--------------------------------------------------------------------------------

RNext ==
    \/ TimerFires \/ TimerIncrements \/ TimerVotes
    \/ \E t \in Terms : \E r \in AppendRequests(t) :
          WellFormed(r) /\ HandleAppendEntries(r)
    \/ \E t \in Terms : \E r \in VoteRequests(t) : HandleRequestVote(r)
    \/ BeginApply \/ ApplyCommand \/ ApplyFails
    \/ Gap \/ Restart

\* In a gap between the requests the 10 ms branch of the event loop is taken, and a
\* round that has begun is driven on.  That there are gaps is not assumed.
RSpec ==
    RInit /\ [][RNext]_rvars /\ WF_rvars(gap /\ BeginApply) /\ WF_rvars(ApplyCommand)

--------------------------------------------------------------------------------
(* Properties.                                                                 *)

RTypeOK ==
    /\ hist \in Histories
    /\ state \in {"Follower", "Candidate"}
    /\ current_term \in 0..MaxTerm
    /\ voted_for \in Peers \cup {Self, NoNode}
    /\ log \in Seq(Entry)
    /\ commit_index \in Nat /\ last_applied \in Nat /\ replayed \in Nat
    /\ current_leader \in Peers \cup {NoNode}
    /\ timer \in {"sleep", "increment", "vote"}
    /\ loop \in {"idle", "store", "stopped"} /\ gap \in BOOLEAN
    /\ store \subseteq Keys
    /\ granted \in [Terms -> SUBSET Peers]

\* Log matching.  Whatever order handle_append_entries meets the requests in, and
\* however often, the log is a prefix of the log of one leader: never a mixture.
LogIsALeaders == log = <<>> \/ \E t \in Terms : Extends(hist.log[t], log)

\* commit_index is the "index of highest log entry known to be committed": a leader
\* of a term this node has seen committed the very entries the log has up to it.
CommitIsCommitted ==
    commit_index > 0 =>
        \E t \in 1..current_term :
            /\ commit_index <= hist.committed[t] /\ commit_index <= Len(log)
            /\ \A i \in 1..commit_index : log[i] = hist.log[t][i]

\* apply_committed_entries never runs past what is committed, so it never indexes
\* beyond the end of the log, a panic that would end the node.
AppliedIsCommitted == last_applied <= commit_index /\ commit_index <= Len(log)

\* In one term, and between two restarts, the node answers "granted" to one
\* candidate at most, whatever the timer writes between two handlers.
OneGrantPerTerm == \A t \in Terms : \A c, d \in granted[t] : c = d

\* Putting the applied entries in order leaves key k in the store.
LeavesKey(n, k) ==
    \E i \in 1..n :
        /\ log[i].command = [op |-> "put", key |-> k]
        /\ \A j \in i..n : log[j].command # [op |-> "delete", key |-> k]

\* Once a restarted node has applied again what it had applied before, and between
\* two rounds, the block store holds what the applied commands say: nothing is
\* skipped, applied twice out of order or left from an earlier life.
StoreIsReplay ==
    loop = "idle" /\ last_applied >= replayed =>
        store = {k \in Keys : LeavesKey(last_applied, k)}

\* The answer handle_append_entries gives to a refused request makes the leader go back:
\* it is never beyond prev_log_index, so the request sent from it as the next index has a
\* smaller one and no refusal repeats itself.  When the log has an entry there, everything
\* from the hint to it is of that entry's term: one refusal takes back entries of one term
\* only, some of which may match the leader's.  The hint is the first index of that term
\* when the log ends in it, and prev_log_index itself when the log goes on.
ConflictHintSound ==
    \A t \in current_term..MaxTerm : t > 0 => \A r \in AppendRequests(t) :
        WellFormed(r) /\ ~ PrevMatches(r) =>
            /\ ConflictIndex(r) <= r.prev
            /\ r.prev <= Len(log) => \A i \in ConflictIndex(r)..r.prev :
                                        i > 0 /\ log[i].term = log[r.prev].term

\* No request removes or replaces an entry the node knows to be committed.
CommittedStays ==
    [][Restart \/ \A i \in 1..commit_index :
          i <= Len(log) => i <= Len(log') /\ log'[i] = log[i]]_rvars

\* What is committed is applied when the requests leave the event loop 10 ms, unless
\* the block store fails and ends the loop: one gap is enough for everything.
CommittedIsApplied ==
    (gap /\ last_applied < commit_index) ~>
        (loop = "idle" /\ last_applied = commit_index) \/ loop = "stopped"
================================================================================
