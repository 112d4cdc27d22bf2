------------------------------- MODULE RaftProofs -------------------------------
(***************************************************************************)
(* Proofs about Raft, for any peers, keys, terms and histories.            *)
(***************************************************************************)
EXTENDS Raft, WellFoundedInduction, TLAPS

\* Votes answered "granted" belong to terms the node has reached, and in the current
\* one voted_for remembers the candidate or the node has voted for itself since.
GrantsRemembered ==
    /\ \A t \in Terms : t > current_term => granted[t] = {}
    /\ current_term \in Terms =>
         \A c \in granted[current_term] : voted_for \in {c, Self}

\* The entry being applied is an entry of the log.
TakenIsInLog == loop = "store" => last_applied \in 1..Len(log)

USE DEF Terms

--------------------------------------------------------------------------------
(* What a request can do to the log.                                           *)

\* In a log that is a leader's, one entry of a leader's term at its index makes all
\* before it that leader's too.
LEMMA Agree ==
    ASSUME RTypeOK, LogIsALeaders, NEW t \in Terms, NEW i \in 1..Len(log),
           i <= Len(hist.log[t]), log[i].term = hist.log[t][i].term
    PROVE  \A j \in 1..i : log[j] = hist.log[t][j]
<1>1. IsHistory(hist)
  BY RaftAssumption DEF RTypeOK
<1>2. Len(log) \in Nat /\ log # <<>>
  BY DEF RTypeOK
<1>3. PICK u \in Terms : Extends(hist.log[u], log)
  BY <1>2 DEF LogIsALeaders
<1>4. hist.log[u] \in Seq(Entry) /\ hist.log[t] \in Seq(Entry)
  BY <1>1 DEF IsHistory
<1>5. /\ i \in 1..Len(hist.log[u])
      /\ \A j \in 1..i : log[j] = hist.log[u][j]
  BY <1>2, <1>3, <1>4 DEF Extends
<1>6. hist.log[u][i].term = hist.log[t][i].term
  BY <1>5
<1>7. \A j \in 1..i : hist.log[u][j] = hist.log[t][j]
  BY <1>1, <1>5, <1>6 DEF IsHistory
<1> QED BY <1>5, <1>7

\* handle_append_entries either leaves the log as it is, and then it has the leader's
\* entries up to the end of the request, or makes it exactly those.
LEMMA MergeResult ==
    ASSUME RTypeOK, LogIsALeaders, NEW t \in Terms, NEW r \in AppendRequests(t),
           WellFormed(r), PrevMatches(r)
    PROVE  /\ Merged(r) \in Seq(Entry)
           /\ r.end <= Len(Merged(r))
           /\ \A i \in 1..r.end : Merged(r)[i] = hist.log[t][i]
           /\ \/ Merged(r) = log
              \/ /\ Len(Merged(r)) = r.end
                 /\ ~ \A i \in (r.prev + 1)..r.end : Known(r, i)
<1> DEFINE L == hist.log[t]
<1>1. IsHistory(hist)
  BY RaftAssumption DEF RTypeOK
<1>2. L \in Seq(Entry) /\ Len(L) \in Nat /\ log \in Seq(Entry) /\ Len(log) \in Nat
  <2>1. hist.log[t] \in Seq(Entry)
    BY <1>1 DEF IsHistory
  <2>2. log \in Seq(Entry)
    BY DEF RTypeOK
  <2> QED BY <2>1, <2>2
<1>3. /\ r.term = t /\ r.prev \in 0..Len(L) /\ r.end \in 0..Len(L) /\ r.prev <= r.end
  BY DEF AppendRequests, WellFormed
<1>4. r.prev <= Len(log) /\ \A j \in 1..r.prev : log[j] = L[j]
  <2>1. CASE r.prev = 0
    BY <2>1, <1>2, <1>3
  <2>2. CASE r.prev # 0
    <3>1. r.prev \in 1..Len(log) /\ r.prev <= Len(L) /\ log[r.prev].term = L[r.prev].term
      BY <2>2, <1>2, <1>3 DEF PrevMatches
    <3>2. \A j \in 1..r.prev : log[j] = hist.log[t][j]
      BY <3>1, Agree
    <3>3. r.prev <= Len(log)
      BY <3>1, <1>2
    <3> QED BY <3>2, <3>3
  <2> QED BY <2>1, <2>2
<1>5. \A i \in (r.prev + 1)..r.end : Known(r, i) => i <= Len(log) /\ log[i] = L[i]
  <2> SUFFICES ASSUME NEW i \in (r.prev + 1)..r.end, Known(r, i)
               PROVE  i <= Len(log) /\ log[i] = L[i]
    OBVIOUS
  <2>1. i \in 1..Len(log) /\ i <= Len(L) /\ log[i].term = L[i].term
    BY <1>2, <1>3 DEF Known
  <2>2. \A j \in 1..i : log[j] = L[j]
    BY <2>1, Agree
  <2> QED BY <2>1, <2>2, <1>2
<1>6. CASE \A i \in (r.prev + 1)..r.end : Known(r, i)
  <2>1. Merged(r) = log
    BY <1>6 DEF Merged
  <2>2. r.end <= Len(log)
    BY <1>2, <1>3, <1>4, <1>5, <1>6
  <2>3. \A i \in 1..r.end : log[i] = L[i]
    <3> SUFFICES ASSUME NEW i \in 1..r.end PROVE log[i] = L[i]
      OBVIOUS
    <3>1. i \in 1..r.prev \/ i \in (r.prev + 1)..r.end
      BY <1>2, <1>3
    <3>2. i \in (r.prev + 1)..r.end => log[i] = L[i]
      BY <1>5, <1>6
    <3>3. i \in 1..r.prev => log[i] = L[i]
      BY <1>4
    <3> QED BY <3>1, <3>2, <3>3
  <2>4. Merged(r) \in Seq(Entry) /\ r.end <= Len(Merged(r))
    BY <2>1, <2>2, <1>2
  <2>5. \A i \in 1..r.end : Merged(r)[i] = hist.log[t][i]
    BY <2>1, <2>3
  <2> QED BY <2>1, <2>4, <2>5
<1>7. CASE ~ \A i \in (r.prev + 1)..r.end : Known(r, i)
  <2> DEFINE M == [i \in 1..r.end |->
                     IF i <= r.prev \/ \A j \in (r.prev + 1)..i : Known(r, j)
                     THEN log[i] ELSE L[i]]
  <2>1. Merged(r) = M
    BY <1>7, <1>3 DEF Merged
  <2>2. \A i \in 1..r.end : M[i] = L[i]
    <3> SUFFICES ASSUME NEW i \in 1..r.end PROVE M[i] = L[i]
      OBVIOUS
    <3>1. CASE i <= r.prev
      BY <3>1, <1>4, <1>3, <1>2
    <3>2. CASE i > r.prev /\ \A j \in (r.prev + 1)..i : Known(r, j)
      <4>1. i \in (r.prev + 1)..r.end /\ i \in (r.prev + 1)..i
        BY <3>2, <1>3, <1>2
      <4>2. log[i] = L[i]
        BY <3>2, <4>1, <1>5
      <4> QED BY <4>2, <3>2
    <3>3. CASE i > r.prev /\ ~ \A j \in (r.prev + 1)..i : Known(r, j)
      BY <3>3, <1>2, <1>3
    <3> QED BY <3>1, <3>2, <3>3, <1>2, <1>3
  <2>3. \A i \in 1..r.end : M[i] \in Entry
    <3> SUFFICES ASSUME NEW i \in 1..r.end PROVE M[i] \in Entry
      OBVIOUS
    <3>1. L[i] \in Entry
      <4> HIDE DEF L
      <4> QED BY <1>2, <1>3
    <3> QED BY <3>1, <2>2
  <2>4. M \in Seq(Entry) /\ Len(M) = r.end
    <3> HIDE DEF L
    <3>1. r.end \in Nat /\ DOMAIN M = 1..r.end
      BY <1>3, <1>2
    <3>2. M = [i \in 1..r.end |-> M[i]]
      OBVIOUS
    <3>3. M \in [1..r.end -> Entry]
      BY <2>3
    <3> HIDE DEF M
    <3> QED BY <3>1, <3>3
  <2> HIDE DEF M
  <2> QED BY <2>1, <2>2, <2>4, <1>7, <1>3
<1> QED BY <1>6, <1>7

--------------------------------------------------------------------------------
(* Types, the log and the votes, whatever commit indices leaders announce.      *)

\* The log and the votes need nothing of the commit index.
Inv1 == RTypeOK /\ LogIsALeaders /\ OneGrantPerTerm /\ GrantsRemembered /\ TakenIsInLog

LEMMA InitInv1 == RInit => Inv1
<1> SUFFICES ASSUME RInit PROVE Inv1
  OBVIOUS
<1>1. log \in Seq(Entry) /\ current_term \in 0..MaxTerm
      /\ commit_index \in Nat /\ last_applied \in Nat /\ replayed \in Nat
  BY RaftAssumption DEF RInit
<1>2. gap \in BOOLEAN /\ store \subseteq Keys /\ granted \in [Terms -> SUBSET Peers]
  BY DEF RInit
<1>3. RTypeOK
  BY <1>1, <1>2 DEF RInit, RTypeOK
<1>4. LogIsALeaders /\ OneGrantPerTerm /\ GrantsRemembered /\ TakenIsInLog
  BY RaftAssumption DEF RInit, LogIsALeaders, OneGrantPerTerm, GrantsRemembered,
     TakenIsInLog
<1> QED BY <1>3, <1>4 DEF Inv1

LEMMA AppendInv1 ==
    ASSUME Inv1, NEW t \in Terms, NEW r \in AppendRequests(t), WellFormed(r),
           HandleAppendEntries(r)
    PROVE  Inv1'
<1> USE DEF Inv1
<1>1. IsHistory(hist)
  BY RaftAssumption DEF RTypeOK
<1>2. r.term = t /\ r.prev \in Nat /\ r.end \in Nat /\ r.commit \in Nat
  BY <1>1 DEF AppendRequests, IsHistory
<1>3. Len(log) \in Nat
  BY DEF RTypeOK
<1>4. log' \in Seq(Entry) /\ commit_index' \in Nat
  <2>1. CASE PrevMatches(r)
    <3>1. log' = Merged(r) /\ commit_index' = NewCommit(r)
      BY <2>1 DEF HandleAppendEntries
    <3>2. log' \in Seq(Entry)
      BY <2>1, <3>1, MergeResult
    <3>3. Len(log') \in Nat /\ commit_index \in Nat
      BY <3>2 DEF RTypeOK
    <3> QED BY <3>1, <3>2, <3>3, <1>2 DEF NewCommit
  <2>2. CASE ~ PrevMatches(r)
    BY <2>2 DEF HandleAppendEntries, RTypeOK
  <2> QED BY <2>1, <2>2
<1>5. LogIsALeaders'
  <2>1. CASE log' = log
    BY <2>1 DEF LogIsALeaders, Extends, HandleAppendEntries
  <2>2. CASE log' # log
    <3>1. PrevMatches(r) /\ log' = Merged(r)
      BY <2>2 DEF HandleAppendEntries
    <3>2. Len(log') = r.end /\ \A i \in 1..r.end : log'[i] = hist.log[t][i]
      BY <3>1, <2>2, MergeResult
    <3>3. r.end <= Len(hist.log[t])
      <4>1. hist.log[t] \in Seq(Entry)
        BY <1>1 DEF IsHistory
      <4> QED BY <4>1 DEF AppendRequests
    <3>4. Extends(hist'.log[t], log')
      BY <3>2, <3>3 DEF Extends, HandleAppendEntries
    <3> QED BY <3>4 DEF LogIsALeaders
  <2> QED BY <2>1, <2>2
<1>6. RTypeOK'
  <2>1. hist.leader[t] \in Peers
    BY <1>1 DEF IsHistory
  <2>2. /\ state' \in {"Follower", "Candidate"} /\ current_term' \in 0..MaxTerm
        /\ voted_for' \in Peers \cup {Self, NoNode} /\ current_leader' \in Peers
    BY <1>2, <2>1, RaftAssumption DEF HandleAppendEntries, SeeTerm, RTypeOK
  <2> QED BY <2>2, <1>4 DEF HandleAppendEntries, RTypeOK, applying
<1>7. OneGrantPerTerm'
  BY DEF OneGrantPerTerm, HandleAppendEntries
<1>8. GrantsRemembered'
  BY <1>2, RaftAssumption DEF GrantsRemembered, HandleAppendEntries, SeeTerm, RTypeOK
<1>9. TakenIsInLog'
  BY DEF TakenIsInLog, HandleAppendEntries, applying
<1> QED BY <1>5, <1>6, <1>7, <1>8, <1>9

LEMMA VoteInv1 ==
    ASSUME Inv1, NEW t \in Terms, NEW r \in VoteRequests(t), HandleRequestVote(r)
    PROVE  Inv1'
<1> USE DEF Inv1
<1>1. r.term = t /\ r.candidate \in Peers
  BY DEF VoteRequests
<1>2. t >= current_term /\ current_term \in 0..MaxTerm /\ t \in 1..MaxTerm
  BY <1>1 DEF HandleRequestVote, RTypeOK
<1>3. MayVote(r) => granted[t] \subseteq {r.candidate}
  <2> SUFFICES ASSUME MayVote(r), NEW c \in granted[t] PROVE c = r.candidate
    OBVIOUS
  <2>1. ~ (t > current_term)
    BY <1>2 DEF GrantsRemembered
  <2>2. t = current_term
    BY <2>1, <1>2, RaftAssumption
  <2>3. voted_for \in {c, Self} /\ voted_for \in {NoNode, r.candidate}
    BY <2>1, <2>2, <1>1 DEF GrantsRemembered, MayVote
  <2>4. c \in Peers
    BY DEF RTypeOK
  <2> QED BY <2>3, <2>4, <1>1, RaftAssumption
<1>4. /\ granted' \in [Terms -> SUBSET Peers]
      /\ \A u \in Terms : u # t => granted'[u] = granted[u]
      /\ granted'[t] = IF MayVote(r) THEN {r.candidate} ELSE granted[t]
  BY <1>1, <1>3 DEF HandleRequestVote, RTypeOK
<1>5. RTypeOK'
  BY <1>1, <1>2, <1>4 DEF HandleRequestVote, RTypeOK, applying
<1>6. OneGrantPerTerm'
  BY <1>4 DEF OneGrantPerTerm
<1>7. GrantsRemembered'
  <2>1. current_term' = t
    BY <1>1 DEF HandleRequestVote
  <2>2. \A u \in Terms : u > t => granted'[u] = {}
    BY <1>2, <1>4, RaftAssumption DEF GrantsRemembered
  <2>3. \A c \in granted'[t] : voted_for' \in {c, Self}
    <3>1. CASE MayVote(r)
      BY <3>1, <1>4 DEF HandleRequestVote
    <3>2. CASE ~ MayVote(r)
      <4>1. granted'[t] = granted[t]
        BY <3>2, <1>4
      <4>2. CASE t > current_term
        BY <4>1, <4>2 DEF GrantsRemembered
      <4>3. CASE t = current_term
        BY <4>1, <4>3, <3>2, <1>1 DEF GrantsRemembered, HandleRequestVote
      <4> QED BY <4>2, <4>3, <1>2, RaftAssumption
    <3> QED BY <3>1, <3>2
  <2> QED BY <2>1, <2>2, <2>3 DEF GrantsRemembered
<1>8. LogIsALeaders'
  BY DEF LogIsALeaders, Extends, HandleRequestVote
<1>9. TakenIsInLog'
  BY DEF TakenIsInLog, HandleRequestVote, applying
<1> QED BY <1>5, <1>6, <1>7, <1>8, <1>9

LEMMA NextInv1 == Inv1 /\ [RNext]_rvars => Inv1'
<1> SUFFICES ASSUME Inv1, [RNext]_rvars PROVE Inv1'
  OBVIOUS
<1>0. current_term \in 0..MaxTerm /\ MaxTerm \in Nat
  BY RaftAssumption DEF Inv1, RTypeOK
<1>1. CASE TimerFires
  BY <1>1 DEF Inv1, TimerFires, RTypeOK, LogIsALeaders, Extends, OneGrantPerTerm,
     GrantsRemembered, TakenIsInLog, applying
<1>2. CASE TimerIncrements
  <2>1. /\ current_term' \in 0..MaxTerm /\ current_term' \in Terms
        /\ current_term' > current_term
    BY <1>0, <1>2 DEF TimerIncrements
  <2>2. RTypeOK' /\ LogIsALeaders' /\ OneGrantPerTerm' /\ TakenIsInLog'
    BY <1>2, <2>1 DEF Inv1, TimerIncrements, RTypeOK, LogIsALeaders, Extends,
       OneGrantPerTerm, TakenIsInLog, applying
  <2>3. GrantsRemembered'
    BY <1>0, <1>2, <2>1 DEF Inv1, TimerIncrements, GrantsRemembered
  <2> QED BY <2>2, <2>3 DEF Inv1
<1>3. CASE TimerVotes
  BY <1>3 DEF Inv1, TimerVotes, RTypeOK, LogIsALeaders, Extends, OneGrantPerTerm,
     GrantsRemembered, TakenIsInLog, applying
<1>4. ASSUME NEW t \in Terms, NEW r \in AppendRequests(t), WellFormed(r),
             HandleAppendEntries(r)
      PROVE  Inv1'
  BY <1>4, AppendInv1
<1>5. ASSUME NEW t \in Terms, NEW r \in VoteRequests(t), HandleRequestVote(r)
      PROVE  Inv1'
  BY <1>5, VoteInv1
<1>6. CASE BeginApply
  BY <1>6 DEF Inv1, BeginApply, Take, RTypeOK, LogIsALeaders, Extends,
     OneGrantPerTerm, GrantsRemembered, TakenIsInLog, election
<1>7. CASE Inv1 /\ UNCHANGED <<hist, election, log, commit_index, timer, gap, replayed>>
           /\ store' \subseteq Keys /\ last_applied' \in Nat
           /\ loop' \in {"idle", "store", "stopped"} /\ TakenIsInLog'
  BY <1>7 DEF Inv1, RTypeOK, LogIsALeaders, Extends, OneGrantPerTerm,
     GrantsRemembered, election
<1>8. CASE Restart
  BY <1>0, <1>8 DEF Inv1, Restart, RTypeOK, LogIsALeaders, OneGrantPerTerm,
     GrantsRemembered, TakenIsInLog
<1>9. CASE UNCHANGED rvars
  BY <1>9 DEF Inv1, rvars, RTypeOK, LogIsALeaders, Extends, OneGrantPerTerm,
     GrantsRemembered, TakenIsInLog, election, applying
<1>10. CASE ApplyFails
  BY <1>10, <1>7 DEF ApplyFails, Inv1, RTypeOK, TakenIsInLog
<1>11. CASE ApplyCommand
  <2>1. last_applied \in 1..Len(log) /\ log \in Seq(Entry) /\ Len(log) \in Nat
    BY <1>11 DEF ApplyCommand, Inv1, RTypeOK, TakenIsInLog
  <2>2. log[last_applied] \in Entry
    BY <2>1
  <2>3. store' \subseteq Keys
    BY <1>11, <2>2 DEF ApplyCommand, Effect, Inv1, RTypeOK, Entry, Command
  <2>4. /\ last_applied' \in Nat /\ loop' \in {"idle", "store", "stopped"}
        /\ TakenIsInLog'
    BY <1>11, <2>1 DEF ApplyCommand, Take, TakenIsInLog
  <2> QED BY <1>11, <1>7, <2>3, <2>4 DEF ApplyCommand
<1>12. CASE Gap
  BY <1>12 DEF Inv1, Gap, RTypeOK, LogIsALeaders, Extends, OneGrantPerTerm,
     GrantsRemembered, TakenIsInLog, election
<1> QED
  BY <1>1, <1>2, <1>3, <1>4, <1>5, <1>6, <1>8, <1>9, <1>10, <1>11, <1>12 DEF RNext

\* RaftNode keeps its types; its log is always a prefix of one leader's log, whatever
\* requests arrive, and it never grants its vote twice in a term.
THEOREM LogAndVotesAreSound == RSpec => [](RTypeOK /\ LogIsALeaders /\ OneGrantPerTerm)
<1>1. Inv1 => RTypeOK /\ LogIsALeaders /\ OneGrantPerTerm
  BY DEF Inv1
<1> QED BY InitInv1, NextInv1, <1>1, PTL DEF RSpec

\* One candidate at most gets the vote of a term between two restarts, wherever the
\* timer stands between its three writes (handle_request_vote, spawn_election_timer).
THEOREM OneVotePerTerm == RSpec => []OneGrantPerTerm
BY LogAndVotesAreSound, PTL

\* The node's state keeps its types; in particular it never takes itself for the leader.
THEOREM NodeIsTyped == RSpec => []RTypeOK
BY LogAndVotesAreSound, PTL

--------------------------------------------------------------------------------
(* What is committed, when leaders announce no more than they send.             *)

\* What the node knows as committed is in the log of every leader from its term on.
LEMMA CommittedElsewhere ==
    ASSUME RTypeOK, CommitIsCommitted, NEW t \in Terms, t >= current_term,
           NEW i \in 1..commit_index
    PROVE  /\ commit_index <= Len(log) /\ commit_index <= Len(hist.log[t])
           /\ log[i] = hist.log[t][i]
<1>1. IsHistory(hist)
  BY RaftAssumption DEF RTypeOK
<1>2. commit_index > 0 /\ commit_index \in Nat /\ current_term \in 0..MaxTerm
  BY DEF RTypeOK
<1>3. PICK u \in 1..current_term :
        /\ commit_index <= hist.committed[u] /\ commit_index <= Len(log)
        /\ \A j \in 1..commit_index : log[j] = hist.log[u][j]
  BY <1>2 DEF CommitIsCommitted
<1>4. u \in Terms /\ (u = t \/ u < t)
  BY <1>2, RaftAssumption
<1>5. /\ hist.log[t] \in Seq(Entry) /\ hist.committed[u] \in Nat
      /\ hist.committed[u] <= Len(hist.log[u])
  BY <1>1, <1>4 DEF IsHistory
<1>6. CASE u = t
  BY <1>2, <1>3, <1>5, <1>6
<1>7. CASE u < t
  <2>1. /\ hist.committed[u] <= Len(hist.log[t])
        /\ \A j \in 1..hist.committed[u] : hist.log[t][j] = hist.log[u][j]
    BY <1>1, <1>4, <1>7 DEF IsHistory
  <2>2. i \in 1..hist.committed[u] /\ commit_index \in Nat
    BY <1>2, <1>3, <1>5
  <2>3. log[i] = hist.log[t][i]
    BY <1>3, <2>1, <2>2
  <2>4. commit_index <= Len(hist.log[t])
    BY <1>2, <1>3, <1>5, <2>1
  <2> QED BY <1>3, <2>3, <2>4
<1> QED BY <1>4, <1>6, <1>7

\* A request leaves the committed entries where they are.
LEMMA AppendKeepsCommitted ==
    ASSUME Inv1, CommitIsCommitted, NEW t \in Terms, NEW r \in AppendRequests(t),
           WellFormed(r), HandleAppendEntries(r), NEW i \in 1..commit_index
    PROVE  i <= Len(log') /\ log'[i] = log[i]
<1>1. RTypeOK /\ LogIsALeaders
  BY DEF Inv1
<1>2. /\ r.term = t /\ t >= current_term /\ commit_index \in Nat /\ Len(log) \in Nat
      /\ i \in Nat /\ r.prev \in Nat
  BY <1>1 DEF RTypeOK, AppendRequests, HandleAppendEntries
<1>3. /\ commit_index <= Len(log)
      /\ \A j \in 1..commit_index : log[j] = hist.log[t][j]
  BY <1>1, <1>2, CommittedElsewhere
<1>4. CASE log' = log
  BY <1>2, <1>3, <1>4
<1>5. CASE log' # log
  <2>1. PrevMatches(r) /\ log' = Merged(r)
    BY <1>5 DEF HandleAppendEntries
  <2>2. /\ Len(log') = r.end /\ ~ \A j \in (r.prev + 1)..r.end : Known(r, j)
        /\ \A j \in 1..r.end : log'[j] = hist.log[t][j]
    BY <2>1, <1>1, <1>5, MergeResult
  <2>3. r.end \in Nat
    <3>1. Len(hist.log[t]) \in Nat
      BY RaftAssumption, <1>1 DEF IsHistory, RTypeOK
    <3> QED BY <3>1 DEF AppendRequests
  <2>4. PICK j \in (r.prev + 1)..r.end : ~ Known(r, j)
    BY <2>2
  <2>5. j \in Nat /\ j >= 1 /\ j <= r.end
    BY <1>2, <2>3
  <2>6. commit_index < j
    <3> SUFFICES ASSUME j <= commit_index PROVE FALSE
      BY <1>2, <2>5
    <3>1. j \in 1..commit_index /\ j <= Len(log)
      BY <1>2, <1>3, <2>5
    <3>2. Known(r, j)
      BY <3>1, <1>2, <1>3 DEF Known
    <3> QED BY <3>2, <2>4
  <2>7. i \in 1..r.end
    BY <2>5, <2>6, <1>2, <2>3
  <2> QED BY <2>2, <2>3, <2>7, <1>3
<1> QED BY <1>4, <1>5

Inv2 == Inv1 /\ CommitIsCommitted /\ AppliedIsCommitted

LEMMA InitInv2 == RInit => Inv2
BY InitInv1 DEF RInit, Inv2, CommitIsCommitted, AppliedIsCommitted

\* A request that announces no commit index beyond its own entries leaves a
\* commit_index that its leader vouches for.
LEMMA AppendInv2 ==
    ASSUME CappedCommit, Inv2, NEW t \in Terms, NEW r \in AppendRequests(t),
           WellFormed(r), HandleAppendEntries(r)
    PROVE  CommitIsCommitted' /\ AppliedIsCommitted'
<1>1. Inv1 /\ RTypeOK /\ LogIsALeaders /\ IsHistory(hist)
  BY RaftAssumption DEF Inv1, Inv2, RTypeOK
<1>2. Inv1'
  BY <1>1, AppendInv1
<1>3. hist.log[t] \in Seq(Entry) /\ hist.committed[t] \in Nat
  BY <1>1 DEF IsHistory
<1>4. /\ r.term = t /\ r.commit \in 0..hist.committed[t] /\ r.end \in Nat
      /\ r.commit <= r.end
  BY <1>3 DEF AppendRequests, WellFormed
<1>5. /\ Len(log) \in Nat /\ Len(log') \in Nat /\ commit_index \in Nat
      /\ last_applied \in Nat /\ current_term \in 0..MaxTerm
  BY <1>1, <1>2 DEF Inv1, RTypeOK
<1>6. /\ hist' = hist /\ last_applied' = last_applied /\ current_term' = t
      /\ t >= current_term
  BY <1>4 DEF HandleAppendEntries, SeeTerm, applying
<1>7. CASE commit_index' = commit_index
  <2>1. \A i \in 1..commit_index : i <= Len(log') /\ log'[i] = log[i]
    BY <1>1, AppendKeepsCommitted DEF Inv2
  <2>2. commit_index <= Len(log')
    BY <2>1, <1>5
  <2>3. CommitIsCommitted'
    <3> SUFFICES ASSUME commit_index > 0 PROVE CommitIsCommitted'
      BY <1>7 DEF CommitIsCommitted
    <3>1. PICK u \in 1..current_term :
            /\ commit_index <= hist.committed[u]
            /\ \A i \in 1..commit_index : log[i] = hist.log[u][i]
      BY DEF Inv2, CommitIsCommitted
    <3>2. u \in 1..current_term'
      BY <1>5, <1>6
    <3>3. \A i \in 1..commit_index : log'[i] = hist.log[u][i]
      BY <3>1, <2>1
    <3> QED BY <3>1, <3>2, <3>3, <2>2, <1>6, <1>7 DEF CommitIsCommitted
  <2> QED BY <2>2, <2>3, <1>5, <1>6, <1>7 DEF Inv2, AppliedIsCommitted
<1>8. CASE commit_index' # commit_index
  <2>1. PrevMatches(r) /\ log' = Merged(r) /\ commit_index' = NewCommit(r)
    BY <1>8 DEF HandleAppendEntries
  <2>2. /\ r.end <= Len(log')
        /\ \A i \in 1..r.end : log'[i] = hist.log[t][i]
    BY <2>1, <1>1, MergeResult
  <2>3. commit_index' = r.commit /\ r.commit > commit_index
    BY <2>1, <2>2, <1>4, <1>5, <1>8 DEF NewCommit
  <2>4. \A i \in 1..r.commit : log'[i] = hist.log[t][i]
    BY <2>2, <1>3, <1>4
  <2>5. t \in 1..current_term' /\ r.commit <= Len(log') /\ r.commit <= hist.committed[t]
    BY <1>3, <1>4, <1>5, <1>6, <2>2, RaftAssumption
  <2>6. CommitIsCommitted'
    BY <2>3, <2>4, <2>5, <1>6 DEF CommitIsCommitted
  <2> QED BY <2>3, <2>5, <2>6, <1>3, <1>4, <1>5, <1>6 DEF Inv2, AppliedIsCommitted
<1> QED BY <1>7, <1>8

LEMMA NextInv2 == ASSUME CappedCommit PROVE Inv2 /\ [RNext]_rvars => Inv2'
<1> SUFFICES ASSUME Inv2, [RNext]_rvars PROVE CommitIsCommitted' /\ AppliedIsCommitted'
  BY NextInv1 DEF Inv2
<1>0. /\ current_term \in Nat /\ commit_index \in Nat /\ last_applied \in Nat
      /\ Len(log) \in Nat
  BY RaftAssumption DEF Inv2, Inv1, RTypeOK
<1>1. CASE /\ UNCHANGED <<hist, log, commit_index>> /\ current_term' >= current_term
           /\ current_term' \in Nat
           /\ last_applied' \in Nat /\ last_applied' <= commit_index
  <2>1. 1..current_term \subseteq 1..current_term'
    BY <1>0, <1>1
  <2>2. CommitIsCommitted'
    BY <1>1, <2>1 DEF Inv2, CommitIsCommitted
  <2>3. AppliedIsCommitted'
    BY <1>1 DEF Inv2, AppliedIsCommitted
  <2> QED BY <2>2, <2>3
<1>2. CASE TimerFires
  BY <1>0, <1>1, <1>2 DEF TimerFires, Inv2, AppliedIsCommitted, applying
<1>3. CASE TimerIncrements
  BY <1>0, <1>1, <1>3 DEF TimerIncrements, Inv2, AppliedIsCommitted, applying
<1>4. CASE TimerVotes
  BY <1>0, <1>1, <1>4 DEF TimerVotes, Inv2, AppliedIsCommitted, applying
<1>5. ASSUME NEW t \in Terms, NEW r \in AppendRequests(t), WellFormed(r),
             HandleAppendEntries(r)
      PROVE  CommitIsCommitted' /\ AppliedIsCommitted'
  BY <1>5, AppendInv2
<1>6. ASSUME NEW t \in Terms, NEW r \in VoteRequests(t), HandleRequestVote(r)
      PROVE  CommitIsCommitted' /\ AppliedIsCommitted'
  <2>1. r.term = t /\ t \in Nat
    BY DEF VoteRequests
  <2> QED BY <1>0, <1>1, <1>6, <2>1 DEF HandleRequestVote, Inv2, AppliedIsCommitted, applying
<1>7. CASE BeginApply
  BY <1>0, <1>1, <1>7 DEF BeginApply, Take, MoreToApply, election
<1>8. CASE ApplyCommand
  BY <1>0, <1>1, <1>8 DEF ApplyCommand, Take, MoreToApply, election, Inv2,
     AppliedIsCommitted
<1>9. CASE ApplyFails
  BY <1>0, <1>1, <1>9 DEF ApplyFails, election, Inv2, AppliedIsCommitted
<1>10. CASE Restart
  BY <1>10 DEF Restart, CommitIsCommitted, AppliedIsCommitted
<1>11. CASE UNCHANGED rvars
  BY <1>0, <1>1, <1>11 DEF rvars, election, applying, Inv2, AppliedIsCommitted
<1>12. CASE Gap
  BY <1>0, <1>1, <1>12 DEF Gap, election, Inv2, AppliedIsCommitted
<1> QED
  BY <1>2, <1>3, <1>4, <1>5, <1>6, <1>7, <1>8, <1>9, <1>10, <1>11, <1>12 DEF RNext

\* With leaders that announce no more than they send, what handle_append_entries takes
\* for committed is committed and is all that apply_committed_entries ever reads.
THEOREM CommitIsSound ==
    ASSUME CappedCommit
    PROVE  RSpec => [](CommitIsCommitted /\ AppliedIsCommitted)
<1>1. Inv2 /\ [RNext]_rvars => Inv2'
  BY NextInv2
<1>2. Inv2 => CommitIsCommitted /\ AppliedIsCommitted
  BY DEF Inv2
<1> QED BY InitInv2, <1>1, <1>2, PTL DEF RSpec

\* Under the same assumption apply_committed_entries never reads beyond the log.
THEOREM AppliedIsSound ==
    ASSUME CappedCommit
    PROVE  RSpec => []AppliedIsCommitted
BY CommitIsSound, PTL

\* And no request ever removes or replaces an entry known to be committed.
THEOREM CommittedIsKept ==
    ASSUME CappedCommit
    PROVE  RSpec => CommittedStays
<1> DEFINE Kept == Restart \/ \A i \in 1..commit_index :
                       i <= Len(log) => i <= Len(log') /\ log'[i] = log[i]
<1>1. Inv2 /\ [RNext]_rvars => [Kept]_rvars
  <2> SUFFICES ASSUME Inv2, RNext PROVE Kept
    OBVIOUS
  <2>1. CASE log' = log
    BY <2>1
  <2>2. ASSUME NEW t \in Terms, NEW r \in AppendRequests(t), WellFormed(r),
               HandleAppendEntries(r)
        PROVE  Kept
    BY <2>2, AppendKeepsCommitted DEF Inv2
  <2> QED
    BY <2>1, <2>2 DEF RNext, TimerFires, TimerIncrements, TimerVotes,
       HandleRequestVote, BeginApply, ApplyCommand, ApplyFails, Gap
<1>2. Inv2 /\ [RNext]_rvars => Inv2'
  BY NextInv2
<1> QED BY InitInv2, <1>1, <1>2, PTL DEF RSpec, CommittedStays

--------------------------------------------------------------------------------
(* The hint a refused request is answered with.                                 *)

\* A non-empty set of positions has a first one.
LEMMA FirstExists ==
    ASSUME NEW S \in SUBSET Nat, S # {}
    PROVE  \E i \in S : \A j \in S : i <= j
<1>1. PICK i \in S : \A j \in S : ~ (<<j, i>> \in OpToRel(<, Nat))
  BY NatLessThanWellFounded, WFMin
<1>2. \A j \in S : ~ (j < i)
  BY <1>1 DEF OpToRel
<1> QED BY <1>2

\* Terms never go down along the log, which is a prefix of a leader's.
LEMMA TermsOrdered ==
    ASSUME RTypeOK, LogIsALeaders, NEW i \in 1..Len(log), NEW j \in 1..Len(log), i <= j
    PROVE  log[i].term \in Nat /\ log[j].term \in Nat /\ log[i].term <= log[j].term
<1>1. IsHistory(hist)
  BY RaftAssumption DEF RTypeOK
<1>2. log \in Seq(Entry) /\ Len(log) \in Nat /\ log # <<>>
  BY DEF RTypeOK
<1>3. PICK u \in Terms : Extends(hist.log[u], log)
  BY <1>2 DEF LogIsALeaders
<1>4. hist.log[u] \in Seq(Entry)
  BY <1>1 DEF IsHistory
<1>5. /\ i \in 1..Len(hist.log[u]) /\ log[i] = hist.log[u][i]
      /\ j \in 1..Len(hist.log[u]) /\ log[j] = hist.log[u][j]
  BY <1>2, <1>3, <1>4 DEF Extends
<1>6. hist.log[u][i].term <= hist.log[u][j].term
  BY <1>1, <1>5 DEF IsHistory
<1>7. log[i] \in Entry /\ log[j] \in Entry
  BY <1>2
<1>8. log[i].term \in Nat /\ log[j].term \in Nat
  BY <1>7 DEF Entry
<1> QED BY <1>5, <1>6, <1>8

\* A request refused for the term of the entry at prev_log_index.
LEMMA HintInLog ==
    ASSUME RTypeOK, LogIsALeaders, NEW r, NEW p \in 1..Len(log), p = r.prev
    PROVE  /\ ConflictIndex(r) \in 1..p
           /\ \A i \in ConflictIndex(r)..p : log[i].term = log[p].term
<1> DEFINE tail == {i \in 1..Len(log) : \A j \in i..Len(log) : log[j].term = log[p].term}
<1>1. Len(log) \in Nat /\ p \in Nat
  BY DEF RTypeOK
<1>2. CASE tail = {}
  <2>1. ConflictIndex(r) = p
    BY <1>1, <1>2 DEF ConflictIndex
  <2> QED BY <2>1, <1>1
<1>3. CASE tail # {}
  <2>1. \E i \in tail : \A j \in tail : i <= j
    <3>1. tail \in SUBSET Nat
      BY <1>1
    <3> HIDE DEF tail
    <3> QED BY <3>1, <1>3, FirstExists
  <2>2. ConflictIndex(r) = CHOOSE i \in tail : \A j \in tail : i <= j
    BY <1>1, <1>3 DEF ConflictIndex
  <2>3. ConflictIndex(r) \in tail /\ \A j \in tail : ConflictIndex(r) <= j
    <3> HIDE DEF tail
    <3> QED BY <2>1, <2>2
  <2>4. PICK m \in 1..Len(log) :
          m = ConflictIndex(r) /\ \A j \in m..Len(log) : log[j].term = log[p].term
    BY <2>3
  <2>5. p \in tail
    <3> SUFFICES ASSUME NEW j \in p..Len(log) PROVE log[j].term = log[p].term
      OBVIOUS
    <3>1. log[Len(log)].term = log[p].term
      BY <2>4, <1>1
    <3>2. j \in 1..Len(log) /\ Len(log) \in 1..Len(log) /\ p <= j /\ j <= Len(log)
      BY <1>1
    <3>3. /\ log[p].term \in Nat /\ log[j].term \in Nat /\ log[p].term <= log[j].term
      BY <3>2, TermsOrdered
    <3>4. log[j].term <= log[Len(log)].term
      BY <3>2, TermsOrdered
    <3> QED BY <3>1, <3>3, <3>4
  <2>6. m <= p
    BY <2>3, <2>4, <2>5
  <2>7. \A i \in m..p : i \in m..Len(log)
    BY <1>1
  <2> QED BY <1>1, <2>4, <2>6, <2>7
<1> QED BY <1>2, <1>3

\* And one refused for the length of the log.
LEMMA HintIsSound == Inv1 => ConflictHintSound
<1> SUFFICES ASSUME RTypeOK, LogIsALeaders, NEW t \in Terms, NEW r \in AppendRequests(t),
                    ~ PrevMatches(r)
             PROVE  /\ ConflictIndex(r) <= r.prev
                    /\ r.prev <= Len(log) => \A i \in ConflictIndex(r)..r.prev :
                          i > 0 /\ log[i].term = log[r.prev].term
  BY RaftAssumption DEF Inv1, RTypeOK, ConflictHintSound
<1>1. Len(log) \in Nat
  BY DEF RTypeOK
<1>2. r.prev \in Nat /\ r.prev # 0
  BY DEF AppendRequests, PrevMatches
<1>3. CASE r.prev > Len(log)
  <2>1. ConflictIndex(r) = Len(log)
    BY <1>3 DEF ConflictIndex
  <2> QED BY <1>1, <1>2, <1>3, <2>1
<1>4. CASE r.prev \in 1..Len(log)
  <2>1. /\ ConflictIndex(r) \in 1..r.prev
        /\ \A i \in ConflictIndex(r)..r.prev : log[i].term = log[r.prev].term
    BY <1>4, HintInLog
  <2> QED BY <1>2, <2>1
<1> QED BY <1>1, <1>2, <1>3, <1>4

\* The index handle_append_entries answers a refusal with is never beyond the entry it
\* refused, and all entries of the log between them are of one term: the scan runs from
\* the end of the log, and terms never go down along it.
THEOREM HintGoesBack == RSpec => []ConflictHintSound
BY InitInv1, NextInv1, HintIsSound, PTL DEF RSpec


--------------------------------------------------------------------------------
(* The block store as the replay of the log.                                    *)

PutOf(k) == [op |-> "put", key |-> k]
DeleteOf(k) == [op |-> "delete", key |-> k]

\* The first n entries of log l leave key k in the store.
Leaves(l, n, k) ==
    \E i \in 1..n : l[i].command = PutOf(k) /\ \A j \in i..n : l[j].command # DeleteOf(k)

\* One of the first n entries of log l puts or deletes key k.
Touched(l, n, k) == \E i \in 1..n : l[i].command \in {PutOf(k), DeleteOf(k)}

\* A committed entry of history h, one of the first n, puts key k.
EverPut(h, n, k) ==
    \E u \in Terms : \E i \in 1..n :
        i <= h.committed[u] /\ h.log[u][i].command = PutOf(k)

\* How many entries have reached the block store in this life of the node.
Done == IF loop = "idle" THEN last_applied ELSE last_applied - 1

\* A key that an entry of this life has touched is in the store as the log says; one
\* that none has touched is there only if an earlier life put it there, from an entry
\* that this life will come to before it has applied as much.
Replayed(l, n, h, m, s) ==
    \A k \in Keys : /\ Touched(l, n, k) => (k \in s <=> Leaves(l, n, k))
                    /\ ~ Touched(l, n, k) /\ k \in s => EverPut(h, m, k)

ReplayInv ==
    /\ loop # "idle" => last_applied >= 1
    /\ Replayed(log, Done, hist, replayed, store)

\* Two logs that agree on their first n entries leave and touch the same keys.
LEMMA ReplayAgrees ==
    ASSUME NEW l, NEW m, NEW n \in Nat, \A i \in 1..n : l[i] = m[i], NEW k
    PROVE  (Leaves(l, n, k) <=> Leaves(m, n, k)) /\ (Touched(l, n, k) <=> Touched(m, n, k))
<1>1. \A i \in 1..n : \A j \in i..n : j \in 1..n
  OBVIOUS
<1>2. Leaves(l, n, k) <=> Leaves(m, n, k)
  BY <1>1 DEF Leaves
<1>3. Touched(l, n, k) <=> Touched(m, n, k)
  BY DEF Touched
<1> QED BY <1>2, <1>3

\* What one more entry changes.
LEMMA ReplayOneMore ==
    ASSUME NEW l, NEW n \in Nat, n >= 1, NEW k
    PROVE  /\ Leaves(l, n, k) <=>
                \/ l[n].command = PutOf(k)
                \/ Leaves(l, n - 1, k) /\ l[n].command # DeleteOf(k)
           /\ Touched(l, n, k) <=>
                \/ l[n].command \in {PutOf(k), DeleteOf(k)}
                \/ Touched(l, n - 1, k)
<1>0. PutOf(k) # DeleteOf(k)
  BY DEF PutOf, DeleteOf
<1>1. 1..n = (1..(n - 1)) \cup {n}
  OBVIOUS
<1>2. \A i \in 1..(n - 1) : i..n = (i..(n - 1)) \cup {n}
  OBVIOUS
<1>3. n..n = {n}
  OBVIOUS
<1>4. Touched(l, n, k) <=>
        \/ l[n].command \in {PutOf(k), DeleteOf(k)}
        \/ Touched(l, n - 1, k)
  BY <1>1 DEF Touched
<1>5. ASSUME Leaves(l, n, k), l[n].command # PutOf(k)
      PROVE  Leaves(l, n - 1, k) /\ l[n].command # DeleteOf(k)
  <2>1. PICK i \in 1..n : l[i].command = PutOf(k) /\ \A j \in i..n : l[j].command # DeleteOf(k)
    BY <1>5 DEF Leaves
  <2>2. i \in 1..(n - 1)
    BY <2>1, <1>5, <1>1
  <2>3. i..n = (i..(n - 1)) \cup {n}
    BY <2>2, <1>2
  <2> QED BY <2>1, <2>2, <2>3 DEF Leaves
<1>6. ASSUME l[n].command = PutOf(k) PROVE Leaves(l, n, k)
  BY <1>0, <1>1, <1>3, <1>6 DEF Leaves
<1>7. ASSUME Leaves(l, n - 1, k), l[n].command # DeleteOf(k) PROVE Leaves(l, n, k)
  <2>1. PICK i \in 1..(n - 1) :
          l[i].command = PutOf(k) /\ \A j \in i..(n - 1) : l[j].command # DeleteOf(k)
    BY <1>7 DEF Leaves
  <2>2. i..n = (i..(n - 1)) \cup {n}
    BY <1>2
  <2>3. i \in 1..n
    BY <1>1
  <2> QED BY <2>1, <2>2, <2>3, <1>7 DEF Leaves
<1> QED BY <1>4, <1>5, <1>6, <1>7

\* A command does to the store what it does to the keys the log leaves.
LEMMA ReplayApply ==
    ASSUME NEW l, NEW n \in Nat, n >= 1, NEW h, NEW m, NEW s, NEW s1,
           l[n].command \in Command, Replayed(l, n - 1, h, m, s),
           s1 = IF l[n].command.op = "put" THEN s \cup {l[n].command.key}
                ELSE IF l[n].command.op = "delete" THEN s \ {l[n].command.key} ELSE s
    PROVE  Replayed(l, n, h, m, s1)
<1> SUFFICES ASSUME NEW k \in Keys
             PROVE  /\ Touched(l, n, k) => (k \in s1 <=> Leaves(l, n, k))
                    /\ ~ Touched(l, n, k) /\ k \in s1 => EverPut(h, m, k)
  BY DEF Replayed
<1>1. /\ Leaves(l, n, k) <=>
           \/ l[n].command = PutOf(k)
           \/ Leaves(l, n - 1, k) /\ l[n].command # DeleteOf(k)
      /\ Touched(l, n, k) <=>
           \/ l[n].command \in {PutOf(k), DeleteOf(k)}
           \/ Touched(l, n - 1, k)
  BY ReplayOneMore
<1>2. /\ Touched(l, n - 1, k) => (k \in s <=> Leaves(l, n - 1, k))
      /\ ~ Touched(l, n - 1, k) /\ k \in s => EverPut(h, m, k)
  BY DEF Replayed
<1>3. /\ l[n].command = PutOf(k) <=> l[n].command.op = "put" /\ l[n].command.key = k
      /\ l[n].command = DeleteOf(k) <=> l[n].command.op = "delete" /\ l[n].command.key = k
  BY DEF Command, PutOf, DeleteOf
<1>4. Leaves(l, n - 1, k) => Touched(l, n - 1, k)
  BY DEF Leaves, Touched
<1>5. CASE l[n].command = PutOf(k)
  <2>1. k \in s1 /\ Leaves(l, n, k) /\ Touched(l, n, k)
    BY <1>1, <1>3, <1>5
  <2> QED BY <2>1
<1>6. CASE l[n].command = DeleteOf(k)
  <2>1. PutOf(k) # DeleteOf(k)
    BY DEF PutOf, DeleteOf
  <2>2. k \notin s1 /\ ~ Leaves(l, n, k)
    BY <1>1, <1>3, <1>6, <2>1
  <2> QED BY <2>2
<1>7. CASE l[n].command # PutOf(k) /\ l[n].command # DeleteOf(k)
  <2>1. k \in s1 <=> k \in s
    BY <1>3, <1>7
  <2> QED BY <1>1, <1>2, <1>7, <2>1
<1> QED BY <1>5, <1>6, <1>7

\* A new life of the node starts with a store that earlier lives put together from
\* committed entries.
LEMMA ReplayRestart ==
    ASSUME NEW l, NEW n \in Nat, NEW h, NEW m \in Nat, NEW m1 \in Nat, NEW s,
           Replayed(l, n, h, m, s), m <= m1, n <= m1,
           n > 0 => \E u \in Terms :
                       n <= h.committed[u] /\ \A i \in 1..n : l[i] = h.log[u][i],
           \A u \in Terms : h.committed[u] \in Nat
    PROVE  Replayed(<< >>, 0, h, m1, s)
<1> SUFFICES ASSUME NEW k \in Keys, k \in s PROVE EverPut(h, m1, k)
  BY DEF Replayed, Touched
<1>1. CASE Touched(l, n, k)
  <2>1. Leaves(l, n, k)
    BY <1>1 DEF Replayed
  <2>2. PICK i \in 1..n : l[i].command = PutOf(k)
    BY <2>1 DEF Leaves
  <2>3. PICK u \in Terms : n <= h.committed[u] /\ \A j \in 1..n : l[j] = h.log[u][j]
    OBVIOUS
  <2>4. i \in 1..m1 /\ i <= h.committed[u]
    BY <2>3
  <2>5. h.log[u][i].command = PutOf(k)
    BY <2>2, <2>3
  <2> QED BY <2>4, <2>5 DEF EverPut
<1>2. CASE ~ Touched(l, n, k)
  <2>1. EverPut(h, m, k)
    BY <1>2 DEF Replayed
  <2>2. 1..m \subseteq 1..m1
    OBVIOUS
  <2> QED BY <2>1, <2>2 DEF EverPut
<1> QED BY <1>1, <1>2

Inv3 == Inv2 /\ ReplayInv

LEMMA InitInv3 == RInit => Inv3
<1> SUFFICES ASSUME RInit PROVE ReplayInv
  BY InitInv2 DEF Inv3
<1> QED BY DEF RInit, ReplayInv, Replayed, Touched, Done

LEMMA NextInv3 == ASSUME CappedCommit PROVE Inv3 /\ [RNext]_rvars => Inv3'
<1> SUFFICES ASSUME Inv3, [RNext]_rvars PROVE ReplayInv'
  BY NextInv2 DEF Inv3
<1>0. /\ Inv1 /\ Inv2 /\ CommitIsCommitted /\ RTypeOK /\ AppliedIsCommitted
      /\ Replayed(log, Done, hist, replayed, store) /\ (loop # "idle" => last_applied >= 1)
  BY DEF Inv3, Inv2, Inv1, ReplayInv
<1>1. /\ commit_index \in Nat /\ last_applied \in Nat /\ replayed \in Nat
      /\ log \in Seq(Entry) /\ Len(log) \in Nat
      /\ last_applied <= commit_index /\ commit_index <= Len(log)
      /\ IsHistory(hist)
  BY <1>0, RaftAssumption DEF RTypeOK, AppliedIsCommitted
<1>2. Done \in Nat /\ Done <= last_applied
  BY <1>0, <1>1 DEF Done
<1>3. CASE UNCHANGED <<hist, log, loop, last_applied, store, replayed>>
  <2>1. Done' = Done
    BY <1>3 DEF Done
  <2> QED BY <1>0, <1>3, <2>1 DEF ReplayInv
<1>4. ASSUME NEW t \in Terms, NEW r \in AppendRequests(t), WellFormed(r),
             HandleAppendEntries(r)
      PROVE  ReplayInv'
  <2>1. UNCHANGED <<hist, loop, last_applied, store, replayed>> /\ Done' = Done
    BY <1>4 DEF HandleAppendEntries, applying, Done
  <2>2. \A i \in 1..commit_index : log'[i] = log[i]
    BY <1>0, <1>4, AppendKeepsCommitted
  <2>3. \A i \in 1..Done : log'[i] = log[i]
    BY <1>1, <1>2, <2>2
  <2>4. \A k \in Keys : /\ Leaves(log', Done, k) <=> Leaves(log, Done, k)
                        /\ Touched(log', Done, k) <=> Touched(log, Done, k)
    BY <1>2, <2>3, ReplayAgrees
  <2>5. Replayed(log', Done, hist, replayed, store)
    BY <1>0, <2>4 DEF Replayed
  <2> QED BY <1>0, <2>1, <2>5 DEF ReplayInv
<1>5. CASE BeginApply
  <2>1. /\ UNCHANGED <<hist, log, store, replayed>> /\ loop = "idle"
        /\ last_applied' = last_applied + 1 /\ loop' # "idle"
    BY <1>5 DEF BeginApply, Take
  <2>2. Done' = Done /\ last_applied' >= 1
    BY <1>1, <2>1 DEF Done
  <2> QED BY <1>0, <2>1, <2>2 DEF ReplayInv
<1>6. CASE ApplyCommand
  <2>1. /\ UNCHANGED <<hist, log, replayed>> /\ loop = "store"
        /\ store' = Effect(log[last_applied].command)
        /\ \/ last_applied' = last_applied + 1 /\ loop' # "idle"
           \/ last_applied' = last_applied /\ loop' = "idle"
    BY <1>6 DEF ApplyCommand, Take
  <2>2. Done = last_applied - 1 /\ Done' = last_applied
        /\ (loop' # "idle" => last_applied' >= 1)
    BY <1>1, <2>1 DEF Done
  <2>3. last_applied >= 1 /\ last_applied \in 1..Len(log)
    BY <1>0, <1>1, <2>1
  <2>4. log[last_applied].command \in Command
    <3>1. log[last_applied] \in Entry
      BY <1>1, <2>3
    <3> QED BY <3>1 DEF Entry
  <2>5. Replayed(log, last_applied - 1, hist, replayed, store)
    BY <1>0, <2>2
  <2>6. Replayed(log, last_applied, hist, replayed, store')
    BY <1>1, <2>1, <2>3, <2>4, <2>5, ReplayApply DEF Effect
  <2> QED BY <2>1, <2>2, <2>6 DEF ReplayInv
<1>7. CASE ApplyFails
  <2>1. /\ UNCHANGED <<hist, log, store, replayed, last_applied>>
        /\ loop = "store" /\ loop' = "stopped"
    BY <1>7 DEF ApplyFails
  <2>2. Done' = Done
    BY <2>1 DEF Done
  <2> QED BY <1>0, <2>1, <2>2 DEF ReplayInv
<1>8. CASE Restart
  <2>1. /\ log' = << >> /\ last_applied' = 0 /\ loop' = "idle" /\ UNCHANGED <<hist, store>>
        /\ replayed' = IF last_applied > replayed THEN last_applied ELSE replayed
    BY <1>8 DEF Restart
  <2>2. Done' = 0
    BY <2>1 DEF Done
  <2>3. replayed' \in Nat /\ replayed <= replayed' /\ Done <= replayed'
    BY <1>1, <1>2, <2>1
  <2>4. \A u \in Terms : hist.committed[u] \in Nat
    BY <1>1 DEF IsHistory
  <2>5. Done > 0 => \E u \in Terms :
          Done <= hist.committed[u] /\ \A i \in 1..Done : log[i] = hist.log[u][i]
    <3> SUFFICES ASSUME Done > 0
                 PROVE  \E u \in Terms : /\ Done <= hist.committed[u]
                                         /\ \A i \in 1..Done : log[i] = hist.log[u][i]
      OBVIOUS
    <3>1. commit_index > 0
      BY <1>1, <1>2
    <3>2. PICK u \in 1..current_term :
            /\ commit_index <= hist.committed[u]
            /\ \A i \in 1..commit_index : log[i] = hist.log[u][i]
      BY <1>0, <3>1 DEF CommitIsCommitted
    <3>3. u \in Terms
      BY <1>0, RaftAssumption DEF RTypeOK
    <3>4. Done <= hist.committed[u] /\ \A i \in 1..Done : i \in 1..commit_index
      BY <1>1, <1>2, <2>4, <3>2, <3>3
    <3> QED BY <3>2, <3>3, <3>4
  <2>6. Replayed(<< >>, 0, hist, replayed', store)
    BY <1>0, <1>1, <1>2, <2>3, <2>4, <2>5, ReplayRestart
  <2> QED BY <2>1, <2>2, <2>6 DEF ReplayInv
<1>9. ASSUME NEW t \in Terms, NEW r \in VoteRequests(t), HandleRequestVote(r)
      PROVE  ReplayInv'
  BY <1>9, <1>3 DEF HandleRequestVote, applying
<1>10. CASE TimerFires \/ TimerIncrements \/ TimerVotes
  BY <1>10, <1>3 DEF TimerFires, TimerIncrements, TimerVotes, applying
<1>11. CASE UNCHANGED rvars
  BY <1>11, <1>3 DEF rvars, applying
<1>12. CASE Gap
  BY <1>12, <1>3 DEF Gap
<1> QED BY <1>4, <1>5, <1>6, <1>7, <1>8, <1>9, <1>10, <1>11, <1>12 DEF RNext

\* Once this life has come as far as the earlier ones, no key is left from them.
LEMMA NothingLeftOver == Inv3 => StoreIsReplay
<1> SUFFICES ASSUME Inv3, loop = "idle", last_applied >= replayed,
                    NEW k \in Keys
             PROVE  k \in store <=> LeavesKey(last_applied, k)
  <2>1. Inv3 => store \subseteq Keys
    BY DEF Inv3, Inv2, Inv1, RTypeOK
  <2> QED BY <2>1 DEF StoreIsReplay
<1>1. /\ RTypeOK /\ CommitIsCommitted /\ AppliedIsCommitted
      /\ Replayed(log, last_applied, hist, replayed, store)
  BY DEF Inv3, Inv2, Inv1, ReplayInv, Done
<1>2. /\ commit_index \in Nat /\ last_applied \in Nat /\ replayed \in Nat
      /\ current_term \in 0..MaxTerm /\ last_applied <= commit_index /\ IsHistory(hist)
  BY <1>1, RaftAssumption DEF RTypeOK, AppliedIsCommitted
<1>3. LeavesKey(last_applied, k) <=> Leaves(log, last_applied, k)
  BY DEF LeavesKey, Leaves, PutOf, DeleteOf
<1>4. Leaves(log, last_applied, k) => Touched(log, last_applied, k)
  BY DEF Leaves, Touched
<1>5. ASSUME EverPut(hist, replayed, k) PROVE Touched(log, last_applied, k)
  <2>1. PICK u \in Terms : \E i \in 1..replayed :
          i <= hist.committed[u] /\ hist.log[u][i].command = PutOf(k)
    BY <1>5 DEF EverPut
  <2>2. PICK i \in 1..replayed : i <= hist.committed[u] /\ hist.log[u][i].command = PutOf(k)
    BY <2>1
  <2>3. i \in 1..last_applied /\ i \in 1..commit_index /\ commit_index > 0
    BY <1>2
  <2>4. PICK w \in 1..current_term :
          /\ commit_index <= hist.committed[w]
          /\ \A j \in 1..commit_index : log[j] = hist.log[w][j]
    BY <1>1, <2>3 DEF CommitIsCommitted
  <2>5. w \in Terms /\ hist.committed[w] \in Nat /\ hist.committed[u] \in Nat
    <3>1. w \in Terms
      BY <1>2, RaftAssumption
    <3> QED BY <3>1, <1>2 DEF IsHistory
  <2>6. i \in 1..hist.committed[w] /\ i \in 1..hist.committed[u]
    BY <1>2, <2>2, <2>3, <2>4, <2>5
  <2>7. hist.log[u][i] = hist.log[w][i]
    <3>1. u < w \/ w < u \/ u = w
      BY <2>5, RaftAssumption
    <3>2. CASE u < w
      BY <3>2, <1>2, <2>5, <2>6 DEF IsHistory
    <3>3. CASE w < u
      BY <3>3, <1>2, <2>5, <2>6 DEF IsHistory
    <3> QED BY <3>1, <3>2, <3>3
  <2>8. log[i].command = PutOf(k)
    BY <2>2, <2>3, <2>4, <2>7
  <2> QED BY <2>3, <2>8 DEF Touched
<1>6. /\ Touched(log, last_applied, k) =>
           (k \in store <=> Leaves(log, last_applied, k))
      /\ ~ Touched(log, last_applied, k) /\ k \in store => EverPut(hist, replayed, k)
  BY <1>1 DEF Replayed
<1> QED BY <1>3, <1>4, <1>5, <1>6

\* If leaders announce no commit index beyond the entries they send, then whenever
\* apply_committed_entries has come to rest as far as any earlier life of the node did,
\* the block store is what replaying the applied entries gives, after any number of
\* restarts over the same store.
THEOREM StoreReplaysLog ==
    ASSUME CappedCommit
    PROVE  RSpec => []StoreIsReplay
<1>1. Inv3 /\ [RNext]_rvars => Inv3'
  BY NextInv3
<1> QED BY InitInv3, <1>1, NothingLeftOver, PTL DEF RSpec

================================================================================
