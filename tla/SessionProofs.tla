----------------------------- MODULE SessionProofs ------------------------------
(***************************************************************************)
(* Proofs about a session of ipfrs-transport, for any threads, blocks and  *)
(* number of calls.                                                        *)
(***************************************************************************)
EXTENDS Session, FiniteSetTheorems, TLAPS

--------------------------------------------------------------------------------
(* The types.                                                                  *)

\* The places of a call that is about a block.
BlockSteps == {"addInsert", "addCount"} \cup ReceiveSteps \cup FailSteps

\* A thread goes on to k, and the others stay where they are.
LEMMA GotoFacts ==
    ASSUME STypeOK, NEW t \in Threads, NEW k \in Calls, Goto(t, k)
    PROVE  call' \in [Threads -> Calls] /\ call'[t] = k /\ \A u \in Threads \ {t} : call'[u] = call[u]
BY DEF STypeOK, Goto

LEMMA ReturnFacts ==
    ASSUME STypeOK, NEW t \in Threads, Return(t)
    PROVE  call' \in [Threads -> Calls] /\ call'[t].at = "idle"
           /\ \A u \in Threads \ {t} : call'[u] = call[u]
<1>1. Idle \in Calls /\ Idle.at = "idle"
  BY DEF Idle, Calls
<1> QED
  BY <1>1, GotoFacts DEF Return

\* A call about a block goes on to another of its steps.
LEMMA StepFacts ==
    ASSUME STypeOK, NEW t \in Threads, call[t].at \in BlockSteps, NEW place \in BlockSteps,
           Step(t, place)
    PROVE  /\ call' \in [Threads -> Calls] /\ call'[t].at = place /\ call'[t].cid = call[t].cid
           /\ call[t].cid \in Cids /\ \A u \in Threads \ {t} : call'[u] = call[u]
<1>1. call[t] \in [at : BlockSteps, cid : Cids]
  BY DEF STypeOK, Calls, BlockSteps, ReceiveSteps, FailSteps
<1>2. call' = [call EXCEPT ![t] = [call[t] EXCEPT !.at = place]]
  BY DEF Step, STypeOK
<1>3. [call[t] EXCEPT !.at = place] \in [at : BlockSteps, cid : Cids]
  BY <1>1
<1>4. [at : BlockSteps, cid : Cids] \subseteq Calls
  BY DEF Calls, BlockSteps
<1> QED
  BY <1>1, <1>2, <1>3, <1>4 DEF STypeOK

LEMMA WaitFacts ==
    ASSUME STypeOK, NEW t \in Threads, Waiting(t)
    PROVE  call[t] \in [at : {"waitCheck", "waitChanged", "waitStats"}, seen : Nat]
BY DEF STypeOK, Calls, Waiting, ReceiveSteps, FailSteps

\* A call that waits goes on.
LEMMA WaitGoes ==
    ASSUME STypeOK, NEW t \in Threads, WaitCheck(t) \/ WaitChanged(t)
    PROVE  /\ call' \in [Threads -> Calls] /\ \A u \in Threads \ {t} : call'[u] = call[u]
           /\ call'[t].at \in {"waitChanged", "waitStats"}
           /\ call'[t].seen = IF At(t, "waitCheck") THEN call[t].seen ELSE watch.version
           /\ call'[t].at = "waitChanged" /\ At(t, "waitChanged") => watch.value \notin Terminal
<1>1. call[t] \in [at : {"waitCheck", "waitChanged", "waitStats"}, seen : Nat]
  BY WaitFacts DEF WaitCheck, WaitChanged, At, Waiting
<1>2. [at : {"waitCheck", "waitChanged", "waitStats"}, seen : Nat] \subseteq Calls
  BY DEF Calls
<1>3. CASE WaitCheck(t)
  <2>1. PICK place \in {"waitStats", "waitChanged"} : Step(t, place)
    BY <1>3 DEF WaitCheck
  <2> DEFINE k == [call[t] EXCEPT !.at = place]
  <2>2. k \in [at : {"waitCheck", "waitChanged", "waitStats"}, seen : Nat] /\ k.at = place
        /\ k.seen = call[t].seen
    BY <1>1
  <2>3. call' = [call EXCEPT ![t] = k]
    BY <2>1 DEF Step, STypeOK
  <2> HIDE DEF k
  <2>4. call[t].at = "waitCheck"
    BY <1>3 DEF WaitCheck, At
  <2> QED
    BY <1>2, <2>2, <2>3, <2>4 DEF STypeOK, At
<1>4. CASE WaitChanged(t)
  <2> DEFINE place == IF watch.value \in Terminal THEN "waitStats" ELSE call[t].at
             k == [call[t] EXCEPT !.seen = watch.version, !.at = place]
  <2>1. call' = [call EXCEPT ![t] = k] /\ call[t].at = "waitChanged"
    BY <1>1, <1>4 DEF WaitChanged, STypeOK, At
  <2>2. watch.version \in Nat /\ place \in {"waitStats", "waitChanged"}
        /\ (place = "waitChanged" => watch.value \notin Terminal)
    BY <2>1 DEF STypeOK
  <2> HIDE DEF place
  <2>3. k \in [at : {"waitCheck", "waitChanged", "waitStats"}, seen : Nat] /\ k.at = place
        /\ k.seen = watch.version
    BY <1>1, <2>2
  <2> HIDE DEF k
  <2> QED
    BY <1>2, <2>1, <2>2, <2>3 DEF STypeOK, At
<1> QED
  BY <1>3, <1>4

LEMMA BlockPlaces ==
    /\ {"addInsert", "addCount", "recvStats", "recvState", "recvWatch", "recvDone", "recvEvents",
        "failStats", "failState", "failWatch", "failDone"} = BlockSteps
    /\ \A c \in Cids, p \in BlockSteps : [at |-> p, cid |-> c] \in Calls
BY DEF BlockSteps, ReceiveSteps, FailSteps, Calls

\* What each action does to the calls: t goes on to a place, the others stay.
LEMMA CallEffects ==
    ASSUME STypeOK, NEW t \in Threads
    PROVE  /\ Begin(t) \/ Continue(t) =>
                /\ call' \in [Threads -> Calls] /\ \A u \in Threads \ {t} : call'[u] = call[u]
           /\ \A c \in Cids :
                /\ AddBlock(t, c) => call'[t] = IF state = "Active" THEN [at |-> "addInsert", cid |-> c]
                                                ELSE call[t]
                /\ MarkReceived(t, c) => call'[t] = [at |-> "recvStats", cid |-> c]
                /\ MarkFailed(t, c) => call'[t] = [at |-> "failStats", cid |-> c]
           /\ \A op \in {"pause", "resume", "cancel"} :
                Move(t, op) => call'[t] = [at |-> "moveWatch", to |-> Target(op)]
           /\ Wait(t) => call'[t] = [at |-> "waitCheck", seen |-> 0]
           /\ AddInsert(t) => /\ call[t].cid \in Cids /\ call'[t].at = "addCount"
                              /\ call'[t].cid = call[t].cid
           /\ RecvStats(t) => /\ call[t].cid \in Cids /\ call'[t].at \in {"recvState", "recvEvents"}
           /\ RecvState(t) => call'[t].at = "recvWatch"
           /\ RecvWatch(t) => call'[t].at = "recvDone"
           /\ RecvDone(t) => call'[t].at = "recvEvents"
           /\ FailStats(t) => /\ call[t].cid \in Cids /\ call'[t].at \in {"failState", "idle"}
           /\ FailState(t) => call'[t].at = "failWatch"
           /\ FailWatch(t) => call'[t].at = "failDone"
           /\ AddCount(t) \/ RecvEvents(t) \/ FailDone(t) \/ MoveWatch(t) \/ WaitStats(t)
                => call'[t].at = "idle"
<1> DEFINE Ok == call' \in [Threads -> Calls] /\ \A u \in Threads \ {t} : call'[u] = call[u]
<1>1. ASSUME NEW c \in Cids, AddBlock(t, c)
      PROVE  Ok /\ call'[t] = IF state = "Active" THEN [at |-> "addInsert", cid |-> c] ELSE call[t]
  <2>1. [at |-> "addInsert", cid |-> c] \in Calls
    BY BlockPlaces
  <2>2. CASE state = "Active"
    BY <1>1, <2>1, <2>2, GotoFacts DEF AddBlock
  <2>3. CASE state # "Active"
    BY <1>1, <2>3 DEF AddBlock, STypeOK
  <2> QED
    BY <2>2, <2>3
<1>2. ASSUME NEW c \in Cids, MarkReceived(t, c) PROVE Ok /\ call'[t] = [at |-> "recvStats", cid |-> c]
  <2>1. [at |-> "recvStats", cid |-> c] \in Calls
    BY BlockPlaces
  <2> QED
    BY <1>2, <2>1, GotoFacts DEF MarkReceived
<1>3. ASSUME NEW c \in Cids, MarkFailed(t, c) PROVE Ok /\ call'[t] = [at |-> "failStats", cid |-> c]
  <2>1. [at |-> "failStats", cid |-> c] \in Calls
    BY BlockPlaces
  <2> QED
    BY <1>3, <2>1, GotoFacts DEF MarkFailed
<1>4. ASSUME NEW op \in {"pause", "resume", "cancel"}, Move(t, op)
      PROVE  Ok /\ call'[t] = [at |-> "moveWatch", to |-> Target(op)]
  <2>1. [at |-> "moveWatch", to |-> Target(op)] \in Calls
    BY DEF Calls, Target, States
  <2> QED
    BY <1>4, <2>1, GotoFacts DEF Move
<1>5. ASSUME Wait(t) PROVE Ok /\ call'[t] = [at |-> "waitCheck", seen |-> 0]
  <2>1. [at |-> "waitCheck", seen |-> 0] \in Calls
    BY DEF Calls
  <2> QED
    BY <1>5, <2>1, GotoFacts DEF Wait
<1>6. ASSUME AddInsert(t)
      PROVE  Ok /\ call[t].cid \in Cids /\ call'[t].at = "addCount" /\ call'[t].cid = call[t].cid
  BY <1>6, StepFacts, BlockPlaces DEF AddInsert, At
<1>7. ASSUME RecvStats(t) PROVE Ok /\ call[t].cid \in Cids /\ call'[t].at \in {"recvState", "recvEvents"}
  BY <1>7, StepFacts, BlockPlaces DEF RecvStats, At
<1>8. ASSUME RecvState(t) PROVE Ok /\ call'[t].at = "recvWatch"
  BY <1>8, StepFacts, BlockPlaces DEF RecvState, At
<1>9. ASSUME RecvWatch(t) PROVE Ok /\ call'[t].at = "recvDone"
  BY <1>9, StepFacts, BlockPlaces DEF RecvWatch, At
<1>10. ASSUME RecvDone(t) PROVE Ok /\ call'[t].at = "recvEvents"
  BY <1>10, StepFacts, BlockPlaces DEF RecvDone, At
<1>11. ASSUME FailStats(t) PROVE Ok /\ call[t].cid \in Cids /\ call'[t].at \in {"failState", "idle"}
  <2>1. call[t].at = "failStats" /\ "failStats" \in BlockSteps /\ "failState" \in BlockSteps
    BY <1>11, BlockPlaces DEF FailStats, At
  <2>2. call[t] \in [at : BlockSteps, cid : Cids]
    BY <2>1 DEF STypeOK, Calls, BlockSteps
  <2>3. Step(t, "failState") \/ Return(t)
    BY <1>11 DEF FailStats
  <2> QED
    BY <2>1, <2>2, <2>3, StepFacts, ReturnFacts
<1>12. ASSUME FailState(t) PROVE Ok /\ call'[t].at = "failWatch"
  BY <1>12, StepFacts, BlockPlaces DEF FailState, At
<1>13. ASSUME FailWatch(t) PROVE Ok /\ call'[t].at = "failDone"
  BY <1>13, StepFacts, BlockPlaces DEF FailWatch, At
<1>14. ASSUME AddCount(t) \/ RecvEvents(t) \/ FailDone(t) \/ MoveWatch(t) \/ WaitStats(t)
       PROVE  Ok /\ call'[t].at = "idle"
  BY <1>14, ReturnFacts DEF AddCount, RecvEvents, FailDone, MoveWatch, WaitStats
<1>15. ASSUME WaitCheck(t) \/ WaitChanged(t) PROVE Ok
  BY <1>15, WaitGoes
<1> HIDE DEF Ok
<1>16. Begin(t) \/ Continue(t) => Ok
  BY <1>1, <1>2, <1>3, <1>4, <1>5, <1>6, <1>7, <1>8, <1>9, <1>10, <1>11, <1>12, <1>13, <1>14, <1>15
     DEF Begin, Continue
<1> QED
  BY <1>1, <1>2, <1>3, <1>4, <1>5, <1>6, <1>7, <1>8, <1>9, <1>10, <1>11, <1>12, <1>13, <1>14, <1>16 DEF Ok

LEMMA STypeStep == STypeOK /\ [SNext]_svars => STypeOK'
<1> SUFFICES ASSUME STypeOK, [SNext]_svars PROVE STypeOK'
  OBVIOUS
<1>1. CASE UNCHANGED svars \/ Rest
  BY <1>1 DEF Rest, svars, STypeOK
<1>2. ASSUME NEW t \in Threads, Begin(t) \/ Continue(t) PROVE STypeOK'
  <2>1. call' \in [Threads -> Calls]
    BY <1>2, CallEffects
  <2>2. calls' \in 0..MaxCalls /\ usage' \in Usages
    <3>1. usage' = usage /\ (calls' = calls \/ (calls < MaxCalls /\ calls' = calls + 1))
      BY <1>2 DEF Begin, Continue, AddBlock, MarkReceived, MarkFailed, Move, Wait, Call, AddInsert,
         AddCount, RecvStats, RecvState, RecvWatch, RecvDone, RecvEvents, FailStats, FailState,
         FailWatch, FailDone, MoveWatch, WaitCheck, WaitChanged, WaitStats
    <3> QED
      BY <3>1, SessionAssumption DEF STypeOK
  <2>3. state' \in States
    BY <1>2 DEF STypeOK, States, Target, Begin, Continue, AddBlock, MarkReceived, MarkFailed, Move, Wait, AddInsert,
       AddCount, RecvStats, RecvState, RecvWatch, RecvDone, RecvEvents, FailStats, FailState,
       FailWatch, FailDone, MoveWatch, WaitCheck, WaitChanged, WaitStats
  <2>4. watch' \in [value : States, version : Nat]
    <3>1. CASE watch' = watch
      BY <3>1 DEF STypeOK
    <3>2. ASSUME NEW v \in States, Publish(v) PROVE watch' \in [value : States, version : Nat]
      BY <3>2 DEF STypeOK, Publish
    <3>3. ASSUME MoveWatch(t) PROVE call[t].to \in States
      BY <3>3 DEF MoveWatch, At, STypeOK, Calls, ReceiveSteps, FailSteps
    <3> QED
      BY <1>2, <3>1, <3>2, <3>3 DEF Begin, Continue, AddBlock, MarkReceived, MarkFailed, Move, Wait, AddInsert,
       AddCount, RecvStats, RecvState, RecvWatch, RecvDone, RecvEvents, FailStats, FailState,
       FailWatch, FailDone, MoveWatch, WaitCheck, WaitChanged, WaitStats, States
  <2>5. block' \in [Cids -> {"absent", "pending", "done"}] /\ reported' \subseteq Cids
    BY <1>2 DEF STypeOK, Begin, Continue, AddBlock, MarkReceived, MarkFailed, Move, Wait, AddInsert,
       AddCount, RecvStats, RecvState, RecvWatch, RecvDone, RecvEvents, FailStats, FailState,
       FailWatch, FailDone, MoveWatch, WaitCheck, WaitChanged, WaitStats
  <2>6. stats' \in [total : Nat, received : Nat, failed : Nat] /\ completions' \in Nat
    <3>1. /\ \/ stats' = stats
             \/ stats' = [stats EXCEPT !.total = @ + 1]
             \/ stats' = [stats EXCEPT !.received = @ + 1]
             \/ stats' = [stats EXCEPT !.failed = @ + 1]
          /\ completions' = completions \/ completions' = completions + 1
      BY <1>2 DEF Begin, Continue, AddBlock, MarkReceived, MarkFailed, Move, Wait, AddInsert,
         AddCount, RecvStats, RecvState, RecvWatch, RecvDone, RecvEvents, FailStats, FailState,
         FailWatch, FailDone, MoveWatch, WaitCheck, WaitChanged, WaitStats
    <3> QED
      BY <3>1 DEF STypeOK
  <2> QED
    BY <2>1, <2>2, <2>3, <2>4, <2>5, <2>6 DEF STypeOK
<1> QED
  BY <1>1, <1>2 DEF SNext

\* The types of the session's fields and of the calls under way.
THEOREM STypeCorrect == SSpec => []STypeOK
<1>1. SInit => STypeOK
  BY SessionAssumption DEF SInit, STypeOK, States, Calls, Idle
<1> QED
  BY <1>1, STypeStep, PTL DEF SSpec

--------------------------------------------------------------------------------
(* Waiting.                                                                    *)

\* A waiter has seen no later value than the channel's, and one that sleeps on the
\* latest value has found it not to end the session.  The first value is not such a one.
WaitInv ==
    /\ watch.version = 0 => watch.value = "Active"
    /\ \A t \in Threads :
         /\ At(t, "waitCheck") => call[t].seen = 0
         /\ At(t, "waitChanged") =>
              /\ call[t].seen <= watch.version
              /\ call[t].seen = watch.version => watch.value \notin Terminal

LEMMA WaitStep == STypeOK /\ WaitInv /\ [SNext]_svars => WaitInv'
<1> SUFFICES ASSUME STypeOK, WaitInv, [SNext]_svars PROVE WaitInv'
  OBVIOUS
<1>1. CASE UNCHANGED svars \/ Rest
  BY <1>1 DEF Rest, svars, WaitInv, At
<1>2. ASSUME NEW t \in Threads, Begin(t) \/ Continue(t) PROVE WaitInv'
  <2>1. call' \in [Threads -> Calls] /\ \A u \in Threads \ {t} : call'[u] = call[u]
    BY <1>2, CallEffects
  <2>2. watch' = watch \/ watch'.version = watch.version + 1
    <3>1. watch' = watch \/ Publish("Completed") \/ Publish(call[t].to)
      BY <1>2 DEF Begin, Continue, AddBlock, MarkReceived, MarkFailed, Move, Wait, AddInsert,
         AddCount, RecvStats, RecvState, RecvWatch, RecvDone, RecvEvents, FailStats, FailState,
         FailWatch, FailDone, MoveWatch, WaitCheck, WaitChanged, WaitStats
    <3> QED
      BY <3>1 DEF Publish
  <2>3. watch.version \in Nat
    BY DEF STypeOK
  <2>4. watch'.version = 0 => watch'.value = "Active"
    BY <2>2, <2>3 DEF WaitInv
  <2>5. ASSUME NEW u \in Threads, u # t
        PROVE  /\ At(u, "waitCheck")' => call'[u].seen = 0
               /\ At(u, "waitChanged")' =>
                    /\ call'[u].seen <= watch'.version
                    /\ call'[u].seen = watch'.version => watch'.value \notin Terminal
    <3>1. call'[u] = call[u]
      BY <2>1, <2>5
    <3>2. At(u, "waitChanged") => call[u].seen \in Nat
      BY WaitFacts DEF At, Waiting
    <3> QED
      BY <2>2, <2>3, <3>1, <3>2 DEF WaitInv, At
  <2>6. /\ At(t, "waitCheck")' => call'[t].seen = 0
        /\ At(t, "waitChanged")' =>
             /\ call'[t].seen <= watch'.version
             /\ call'[t].seen = watch'.version => watch'.value \notin Terminal
    <3>1. CASE Wait(t)
      BY <3>1, CallEffects DEF At
    <3>2. CASE WaitCheck(t)
      <4>1. watch' = watch /\ call[t].at = "waitCheck" /\ call[t].seen = 0
            /\ call'[t].at \in {"waitChanged", "waitStats"} /\ call'[t].seen = 0
        BY <3>2, WaitGoes DEF WaitCheck, At, WaitInv
      <4> QED
        BY <2>3, <4>1 DEF WaitInv, At, Terminal
    <3>3. CASE WaitChanged(t)
      <4>1. watch' = watch /\ call[t].at = "waitChanged" /\ call'[t].seen = watch.version
            /\ call'[t].at \in {"waitChanged", "waitStats"}
            /\ (call'[t].at = "waitChanged" => watch.value \notin Terminal)
        BY <3>3, WaitGoes DEF WaitChanged, At
      <4> QED
        BY <2>3, <4>1 DEF At
    <3>4. ASSUME NEW c \in Cids, AddBlock(t, c) PROVE call'[t].at \notin {"waitCheck", "waitChanged"}
      <4>1. call'[t] = IF state = "Active" THEN [at |-> "addInsert", cid |-> c] ELSE call[t]
        BY <3>4, CallEffects
      <4>2. call[t].at = "idle"
        BY <3>4 DEF AddBlock, Call, At
      <4> QED
        BY <4>1, <4>2
    <3>5. ASSUME NEW c \in Cids, MarkReceived(t, c) \/ MarkFailed(t, c)
          PROVE  call'[t].at \notin {"waitCheck", "waitChanged"}
      <4>1. call'[t] = [at |-> "recvStats", cid |-> c] \/ call'[t] = [at |-> "failStats", cid |-> c]
        BY <3>5, CallEffects
      <4> QED
        BY <4>1
    <3>6. ASSUME NEW op \in {"pause", "resume", "cancel"}, Move(t, op)
          PROVE  call'[t].at \notin {"waitCheck", "waitChanged"}
      BY <3>6, CallEffects
    <3>7. ASSUME \/ AddInsert(t) \/ AddCount(t) \/ RecvStats(t) \/ RecvState(t) \/ RecvWatch(t)
                 \/ RecvDone(t) \/ RecvEvents(t) \/ FailStats(t) \/ FailState(t) \/ FailWatch(t)
                 \/ FailDone(t) \/ MoveWatch(t) \/ WaitStats(t)
          PROVE  call'[t].at \notin {"waitCheck", "waitChanged"}
      BY <3>7, CallEffects
    <3> QED
      BY <1>2, <3>1, <3>2, <3>3, <3>4, <3>5, <3>6, <3>7 DEF Begin, Continue, At
  <2> QED
    BY <2>4, <2>5, <2>6 DEF WaitInv
<1> QED
  BY <1>1, <1>2 DEF SNext

\* wait_completion: a waiter that sleeps on the watch channel has seen the latest value
\* sent, and that value does not end the session, however the calls interleave.
THEOREM WakeupsKept == SSpec => []NoLostWakeup
<1>1. SInit => WaitInv
  BY DEF SInit, WaitInv, Idle, At
<1>2. SInit => STypeOK
  BY SessionAssumption DEF SInit, STypeOK, States, Calls, Idle
<1>3. WaitInv => NoLostWakeup
  BY DEF WaitInv, NoLostWakeup
<1> QED
  BY <1>1, <1>2, <1>3, STypeStep, WaitStep, PTL DEF SSpec

--------------------------------------------------------------------------------
(* Orderly use: the counters follow the blocks.                                *)

\* The blocks some thread is at one of the places P for.
AtPlaces(calling, P) ==
    {c \in Cids : \E t \in Threads : calling[t].at \in P /\ calling[t].cid = c}

Adding  == {"addInsert", "addCount"}
Reports == {"recvStats", "failStats"}
Ends    == {"recvState", "recvWatch", "recvDone", "failState", "failWatch", "failDone"}

\* Reported and not counted yet; inserted and not counted yet.
Reporting == AtPlaces(call, Reports)
Counting  == AtPlaces(call, {"addCount"})

\* A block is added once, and the total counts those that are in.
AddInv ==
    /\ \A t \in Threads : At(t, "addInsert") => block[call[t].cid] = "absent"
    /\ \A t \in Threads : At(t, "addCount") => block[call[t].cid] # "absent"
    /\ \A t, u \in Threads :
         t # u /\ call[t].at \in Adding /\ call[u].at = call[t].at => call[t].cid # call[u].cid
    /\ stats.total = Cardinality(Present \ Counting)

\* A block is reported once, after all were added, and the counters count the reports.
RepInv ==
    /\ reported \subseteq Present /\ Reporting \subseteq reported
    /\ \A t, u \in Threads :
         t # u /\ call[t].at \in Reports /\ call[u].at \in Reports => call[t].cid # call[u].cid
    /\ reported # {} => \A t \in Threads : call[t].at \notin Adding
    /\ stats.received + stats.failed = Cardinality(reported \ Reporting)

\* The session is completed once, by the last report that is counted, and then the state
\* and the channel follow.
EndInv ==
    /\ \A t \in Threads : call[t].at # "moveWatch"
    /\ completions \in {0, 1}
    /\ completions = 0 => /\ state = "Active" /\ watch.value = "Active"
                          /\ \A t \in Threads : call[t].at \notin Ends
    /\ completions = 1 => reported = Present /\ Reporting = {} /\ reported # {}
    /\ completions = 1 =>
         \/ \E t \in Threads : call[t].at \in {"recvState", "failState"}
         \/ /\ state = "Completed"
            /\ watch.value = "Completed" \/ \E t \in Threads : call[t].at \in {"recvWatch", "failWatch"}
    /\ reported # {} /\ reported = Present /\ Reporting = {} => completions = 1

OrderlyInv == Orderly => AddInv /\ RepInv /\ EndInv

\* A thread enters or leaves the places P, or neither.
LEMMA PlacesFacts ==
    ASSUME NEW f, NEW g, NEW P, NEW t \in Threads, \A u \in Threads \ {t} : g[u] = f[u]
    PROVE  /\ f[t].at \notin P /\ g[t].at \notin P => AtPlaces(g, P) = AtPlaces(f, P)
           /\ f[t].at \notin P /\ g[t].at \in P /\ g[t].cid \in Cids
                => AtPlaces(g, P) = AtPlaces(f, P) \cup {g[t].cid}
           /\ /\ f[t].at \in P /\ f[t].cid \in Cids /\ g[t].at \notin P
              /\ \A u \in Threads \ {t} : f[u].at \in P => f[u].cid # f[t].cid
              => AtPlaces(g, P) = AtPlaces(f, P) \ {f[t].cid} /\ f[t].cid \in AtPlaces(f, P)
<1>1. CASE f[t].at \notin P /\ g[t].at \notin P
  BY <1>1 DEF AtPlaces
<1>2. ASSUME f[t].at \notin P, g[t].at \in P, g[t].cid \in Cids
      PROVE  AtPlaces(g, P) = AtPlaces(f, P) \cup {g[t].cid}
  BY <1>2 DEF AtPlaces
<1>3. ASSUME f[t].at \in P, f[t].cid \in Cids, g[t].at \notin P,
             \A u \in Threads \ {t} : f[u].at \in P => f[u].cid # f[t].cid
      PROVE  AtPlaces(g, P) = AtPlaces(f, P) \ {f[t].cid} /\ f[t].cid \in AtPlaces(f, P)
  BY <1>3 DEF AtPlaces
<1> QED
  BY <1>1, <1>2, <1>3

\* A step that adds no block and counts none.
LEMMA AddStays ==
    ASSUME AddInv, NEW t \in Threads, \A u \in Threads \ {t} : call'[u] = call[u],
           call[t].at \notin Adding, call'[t].at \notin Adding, STypeOK, Present' = Present,
           stats'.total = stats.total
    PROVE  AddInv'
<1>1. Counting' = Counting
  BY PlacesFacts DEF Counting, Adding
<1>2. \A c \in Cids : block'[c] = "absent" <=> block[c] = "absent"
  BY DEF Present
<1>3. ASSUME NEW u \in Threads, call'[u].at \in Adding
      PROVE  u # t /\ call'[u] = call[u] /\ call[u].cid \in Cids
  BY <1>3 DEF STypeOK, Calls, Adding
<1> QED
  BY <1>1, <1>2, <1>3 DEF AddInv, At, Adding

\* A step that reports no block and counts no report.
LEMMA RepStays ==
    ASSUME RepInv, NEW t \in Threads, \A u \in Threads \ {t} : call'[u] = call[u],
           call[t].at \notin Reports, call'[t].at \notin Reports,
           reported = {} \/ call'[t].at \notin Adding, Present \subseteq Present', reported' = reported,
           stats'.received = stats.received, stats'.failed = stats.failed
    PROVE  RepInv'
<1>1. Reporting' = Reporting
  BY PlacesFacts DEF Reporting
<1>2. ASSUME NEW u \in Threads, call'[u].at \in Reports PROVE u # t /\ call'[u] = call[u]
  BY <1>2
<1>3. reported' # {} => \A u \in Threads : call'[u].at \notin Adding
  BY DEF RepInv
<1> QED
  BY <1>1, <1>2, <1>3 DEF RepInv

\* A step that has no part in completing the session.
LEMMA EndStays ==
    ASSUME EndInv, NEW t \in Threads, \A u \in Threads \ {t} : call'[u] = call[u],
           call[t].at \notin Reports, call'[t].at \notin Reports \cup Ends \cup {"moveWatch"},
           call[t].at \notin {"recvState", "failState", "recvWatch", "failWatch"},
           reported = {} \/ Present' = Present, reported' = reported,
           state' = state, watch'.value = watch.value, completions' = completions
    PROVE  EndInv'
<1>1. Reporting' = Reporting
  BY PlacesFacts DEF Reporting
<1>2. \A u \in Threads : call'[u].at # "moveWatch" /\ (call[u].at \notin Ends => call'[u].at \notin Ends)
  BY DEF EndInv
<1>3. ASSUME NEW u \in Threads, call[u].at \in {"recvState", "failState", "recvWatch", "failWatch"}
      PROVE  call'[u] = call[u]
  BY <1>3
<1>4. reported = {} => completions = 0
  BY DEF EndInv
<1> QED
  BY <1>1, <1>2, <1>3, <1>4 DEF EndInv

\* The sets the counters count are finite.
LEMMA CountedFinite ==
    ASSUME STypeOK
    PROVE  /\ IsFiniteSet(Present \ Counting) /\ IsFiniteSet(reported \ Reporting)
           /\ IsFiniteSet(Present) /\ Present \subseteq Cids
<1>1. Present \subseteq Cids /\ reported \subseteq Cids
  BY DEF Present, STypeOK
<1> QED
  BY <1>1, FS_Subset, SessionAssumption

LEMMA AddBlockInv ==
    ASSUME STypeOK, AddInv, RepInv, EndInv, Orderly, NEW t \in Threads, NEW c \in Cids, AddBlock(t, c)
    PROVE  AddInv' /\ RepInv' /\ EndInv'
<1>1. call[t].at = "idle" /\ reported = {} /\ block[c] = "absent"
      /\ (\A u \in Threads : ~ (At(u, "addInsert") /\ call[u].cid = c))
      /\ UNCHANGED <<usage, state, watch, block, stats, completions, reported>>
  BY DEF AddBlock, Call, At
<1>2. call'[t] = IF state = "Active" THEN [at |-> "addInsert", cid |-> c] ELSE call[t]
  BY CallEffects
<1>3. \A u \in Threads \ {t} : call'[u] = call[u]
  BY CallEffects DEF Begin
<1>4. Present' = Present
  BY <1>1 DEF Present
<1>5. call'[t].at \in {"idle", "addInsert"} /\ (call'[t].at = "addInsert" => call'[t].cid = c)
  BY <1>1, <1>2
<1>6. AddInv'
  <2>1. Counting' = Counting
    BY <1>1, <1>3, <1>5, PlacesFacts DEF Counting
  <2>2. ASSUME NEW u \in Threads, NEW v \in Threads, u # v, call'[u].at \in Adding, call'[v].at = call'[u].at
        PROVE  call'[u].cid # call'[v].cid
    BY <1>1, <1>3, <1>5, <2>2 DEF AddInv, At, Adding
  <2> QED
    BY <1>1, <1>3, <1>4, <1>5, <2>1, <2>2 DEF AddInv, At
<1>7. RepInv'
  BY <1>1, <1>3, <1>4, <1>5, RepStays DEF Reports
<1>8. EndInv'
  BY <1>1, <1>3, <1>4, <1>5, EndStays DEF Reports, Ends
<1> QED
  BY <1>6, <1>7, <1>8

LEMMA AddInsertInv ==
    ASSUME STypeOK, AddInv, RepInv, EndInv, NEW t \in Threads, AddInsert(t)
    PROVE  AddInv' /\ RepInv' /\ EndInv'
<1> DEFINE c == call[t].cid
<1>1. call[t].at = "addInsert" /\ block' = [block EXCEPT ![c] = "pending"]
      /\ UNCHANGED <<usage, state, watch, stats, completions, reported, calls>>
  BY DEF AddInsert, At
<1>2. c \in Cids /\ call'[t].at = "addCount" /\ call'[t].cid = c
  BY CallEffects
<1>3. \A u \in Threads \ {t} : call'[u] = call[u]
  BY CallEffects DEF Continue
<1>4. block[c] = "absent" /\ reported = {}
  BY <1>1 DEF AddInv, RepInv, At, Adding
<1> HIDE DEF c
<1>5. Present' = Present \cup {c} /\ c \notin Present
  BY <1>1, <1>2, <1>4 DEF Present, STypeOK
<1>6. AddInv'
  <2>1. Counting' = Counting \cup {c}
    BY <1>1, <1>2, <1>3, PlacesFacts DEF Counting
  <2>2. Present' \ Counting' = Present \ Counting
    BY <1>5, <2>1
  <2>3. ASSUME NEW u \in Threads, u # t, call[u].at \in Adding
        PROVE  /\ call'[u] = call[u] /\ call[u].cid \in Cids /\ call[u].cid # c
    BY <1>1, <1>3, <1>4, <2>3 DEF AddInv, At, Adding, STypeOK, Calls, c
  <2>4. ASSUME NEW u \in Threads PROVE At(u, "addInsert")' => block'[call'[u].cid] = "absent"
    BY <1>1, <1>2, <1>3, <2>3 DEF AddInv, At, Adding, STypeOK
  <2>5. ASSUME NEW u \in Threads PROVE At(u, "addCount")' => block'[call'[u].cid] # "absent"
    BY <1>1, <1>2, <1>3, <2>3 DEF AddInv, At, Adding, STypeOK
  <2>6. ASSUME NEW u \in Threads, NEW v \in Threads, u # v, call'[u].at \in Adding, call'[v].at = call'[u].at
        PROVE  call'[u].cid # call'[v].cid
    BY <1>1, <1>2, <1>3, <2>3, <2>6 DEF AddInv, Adding
  <2> QED
    BY <1>1, <2>2, <2>4, <2>5, <2>6 DEF AddInv
<1>7. RepInv'
  BY <1>1, <1>2, <1>3, <1>4, <1>5, RepStays DEF Reports
<1>8. EndInv'
  BY <1>1, <1>2, <1>3, <1>4, EndStays DEF Reports, Ends
<1> QED
  BY <1>6, <1>7, <1>8

LEMMA AddCountInv ==
    ASSUME STypeOK, AddInv, RepInv, EndInv, NEW t \in Threads, AddCount(t)
    PROVE  AddInv' /\ RepInv' /\ EndInv'
<1> DEFINE c == call[t].cid
<1>1. call[t].at = "addCount" /\ stats' = [stats EXCEPT !.total = @ + 1]
      /\ UNCHANGED <<usage, state, watch, block, completions, reported, calls>>
  BY DEF AddCount, At
<1>2. c \in Cids /\ call'[t].at = "idle" /\ \A u \in Threads \ {t} : call'[u] = call[u]
  BY <1>1, CallEffects DEF Continue, STypeOK, Calls
<1>3. block[c] # "absent" /\ \A u \in Threads \ {t} : call[u].at = "addCount" => call[u].cid # c
  BY <1>1 DEF AddInv, At, Adding
<1>4. stats'.total = stats.total + 1 /\ stats'.received = stats.received /\ stats'.failed = stats.failed
  BY <1>1 DEF STypeOK
<1> HIDE DEF c
<1>5. Present' = Present /\ c \in Present
  BY <1>1, <1>2, <1>3 DEF Present
<1>6. AddInv'
  <2>1. Counting' = Counting \ {c} /\ c \in Counting
    <3>1. call[t].at \in {"addCount"} /\ call[t].cid \in Cids /\ call'[t].at \notin {"addCount"}
          /\ \A u \in Threads \ {t} : call[u].at \in {"addCount"} => call[u].cid # call[t].cid
      BY <1>1, <1>2, <1>3 DEF c
    <3> QED
      BY <1>2, <3>1, PlacesFacts DEF Counting, c
  <2>2. Present' \ Counting' = (Present \ Counting) \cup {c} /\ c \notin Present \ Counting
    BY <1>5, <2>1
  <2>3. Cardinality(Present' \ Counting') = Cardinality(Present \ Counting) + 1
    BY <2>2, CountedFinite, FS_AddElement
  <2>4. ASSUME NEW u \in Threads, call'[u].at \in Adding PROVE u # t /\ call'[u] = call[u]
    BY <1>2, <2>4 DEF Adding
  <2> QED
    BY <1>1, <1>4, <2>3, <2>4 DEF AddInv, At, Adding
<1>7. RepInv'
  BY <1>1, <1>2, <1>4, <1>5, RepStays DEF Reports, Adding
<1>8. EndInv'
  BY <1>1, <1>2, <1>5, EndStays DEF Reports, Ends
<1> QED
  BY <1>6, <1>7, <1>8

LEMMA MarkInv ==
    ASSUME STypeOK, AddInv, RepInv, EndInv, Orderly, NEW t \in Threads, NEW c \in Cids,
           MarkReceived(t, c) \/ MarkFailed(t, c)
    PROVE  AddInv' /\ RepInv' /\ EndInv'
<1>1. /\ call[t].at = "idle" /\ block[c] # "absent" /\ c \notin reported
      /\ \A u \in Threads : call[u].at \notin Adding
      /\ reported' = reported \cup {c} /\ UNCHANGED <<usage, state, watch, stats, completions>>
      /\ block' = [block EXCEPT ![c] = "done"] \/ block' = block
  BY DEF MarkReceived, MarkFailed, Call, MayReport, At, Adding
<1>2. call'[t].at \in Reports /\ call'[t].cid = c
  <2>1. call'[t] = [at |-> "recvStats", cid |-> c] \/ call'[t] = [at |-> "failStats", cid |-> c]
    BY CallEffects
  <2> QED
    BY <2>1 DEF Reports
<1>3. \A u \in Threads \ {t} : call'[u] = call[u]
  BY CallEffects DEF Begin
<1>4. Present' = Present /\ c \in Present
  BY <1>1 DEF Present, STypeOK
<1>5. Reporting' = Reporting \cup {c} /\ c \notin Reporting
  <2>1. call[t].at \notin Reports /\ call'[t].at \in Reports /\ call'[t].cid \in Cids
    BY <1>1, <1>2 DEF Reports
  <2>2. AtPlaces(call', Reports) = AtPlaces(call, Reports) \cup {call'[t].cid}
    BY <1>3, <2>1, PlacesFacts
  <2> QED
    BY <1>1, <1>2, <2>2 DEF Reporting, RepInv
<1>6. AddInv'
  BY <1>1, <1>2, <1>3, <1>4, AddStays DEF Adding, Reports
<1>7. RepInv'
  <2>1. reported' \ Reporting' = reported \ Reporting
    BY <1>1, <1>5
  <2>2. ASSUME NEW u \in Threads, u # t, call'[u].at \in Reports
        PROVE  call'[u].cid # c /\ call'[u] = call[u]
    <3>1. call'[u] = call[u] /\ call[u].cid \in Cids
      BY <1>3, <2>2 DEF STypeOK, Calls, Reports
    <3>2. call[u].cid \in Reporting
      BY <2>2, <3>1 DEF Reporting, AtPlaces
    <3> QED
      BY <1>5, <3>1, <3>2
  <2>3. ASSUME NEW u \in Threads, NEW v \in Threads, u # v, call'[u].at \in Reports, call'[v].at \in Reports
        PROVE  call'[u].cid # call'[v].cid
    BY <1>2, <2>2, <2>3 DEF RepInv
  <2>4. \A u \in Threads : call'[u].at \notin Adding
    BY <1>1, <1>2, <1>3 DEF Reports, Adding
  <2>5. reported' \subseteq Present' /\ Reporting' \subseteq reported'
    BY <1>1, <1>4, <1>5 DEF RepInv
  <2> QED
    BY <1>1, <2>1, <2>3, <2>4, <2>5 DEF RepInv
<1>8. EndInv'
  <2>1. completions = 0
    BY <1>1, <1>4 DEF EndInv
  <2>2. \A u \in Threads : call'[u].at \notin Ends \cup {"moveWatch"}
    BY <1>2, <1>3, <2>1 DEF EndInv, Reports, Ends
  <2> QED
    BY <1>1, <1>5, <2>1, <2>2 DEF EndInv
<1> QED
  BY <1>6, <1>7, <1>8

\* The counters reach the total exactly when the last report is counted.
LEMMA CountInv ==
    ASSUME STypeOK, AddInv, RepInv, EndInv, NEW t \in Threads, RecvStats(t) \/ FailStats(t)
    PROVE  AddInv' /\ RepInv' /\ EndInv'
<1> DEFINE c == call[t].cid
<1>1. /\ call[t].at \in Reports /\ UNCHANGED <<usage, state, watch, block, reported>>
      /\ IF IsComplete(stats') /\ state = "Active"
         THEN call'[t].at \in {"recvState", "failState"} /\ completions' = completions + 1
         ELSE call'[t].at \in {"recvEvents", "idle"} /\ completions' = completions
  <2>1. CASE RecvStats(t)
    <3>1. call[t].at = "recvStats" /\ "recvState" \in BlockSteps /\ "recvEvents" \in BlockSteps
          /\ call[t].at \in BlockSteps
      BY <2>1, BlockPlaces DEF RecvStats, At
    <3>2. /\ Step(t, "recvState") => call'[t].at = "recvState"
          /\ Step(t, "recvEvents") => call'[t].at = "recvEvents"
      BY <3>1, StepFacts
    <3> QED
      BY <2>1, <3>1, <3>2 DEF RecvStats, Reports
  <2>2. CASE FailStats(t)
    <3>1. call[t].at = "failStats" /\ "failState" \in BlockSteps /\ call[t].at \in BlockSteps
      BY <2>2, BlockPlaces DEF FailStats, At
    <3>2. /\ Step(t, "failState") => call'[t].at = "failState"
          /\ Return(t) => call'[t].at = "idle"
      BY <3>1, StepFacts, ReturnFacts
    <3> QED
      BY <2>2, <3>1, <3>2 DEF FailStats, Reports
  <2> QED
    BY <2>1, <2>2
<1>2. c \in Cids /\ \A u \in Threads \ {t} : call'[u] = call[u]
  BY CallEffects DEF Continue
<1>3. stats'.total = stats.total /\ stats'.received + stats'.failed = stats.received + stats.failed + 1
      /\ stats.total \in Nat /\ stats.received + stats.failed \in Nat
  <2>1. stats' = [stats EXCEPT !.received = @ + 1] \/ stats' = [stats EXCEPT !.failed = @ + 1]
    BY DEF RecvStats, FailStats
  <2>2. stats \in [total : Nat, received : Nat, failed : Nat]
    BY DEF STypeOK
  <2> QED
    BY <2>1, <2>2
<1>4. \A u \in Threads \ {t} : call[u].at \in Reports => call[u].cid # c
  BY <1>1 DEF RepInv
<1>5. call'[t].at \notin Reports \cup Adding
  BY <1>1 DEF Reports, Adding
<1>6. Present' = Present
  BY <1>1 DEF Present
<1>7. Reporting' = Reporting \ {c} /\ c \in Reporting
  BY <1>1, <1>2, <1>4, <1>5, PlacesFacts DEF Reporting
<1> HIDE DEF c
<1>8. reported \ Reporting' = (reported \ Reporting) \cup {c} /\ c \notin reported \ Reporting
      /\ c \in reported
  BY <1>7 DEF RepInv
<1>9. /\ IsFiniteSet(reported \ Reporting')
      /\ Cardinality(reported \ Reporting') = stats'.received + stats'.failed
  <2>1. IsFiniteSet(reported \ Reporting)
    BY CountedFinite
  <2>2. /\ IsFiniteSet((reported \ Reporting) \cup {c})
        /\ Cardinality((reported \ Reporting) \cup {c}) = Cardinality(reported \ Reporting) + 1
    BY <1>8, <2>1, FS_AddElement
  <2> QED
    BY <1>3, <1>8, <2>2 DEF RepInv
<1>10. AddInv'
  <2>1. call[t].at \notin Adding
    BY <1>1 DEF Adding, Reports
  <2> QED
    BY <1>2, <1>3, <1>5, <1>6, <2>1, AddStays
<1>11. RepInv'
  <2>1. ASSUME NEW u \in Threads, call'[u].at \in Reports PROVE u # t /\ call'[u] = call[u]
    BY <1>2, <1>5, <2>1
  <2>2. \A u \in Threads : call'[u].at \notin Adding
    BY <1>2, <1>5, <1>8 DEF RepInv
  <2> QED
    BY <1>1, <1>6, <1>7, <1>9, <2>1, <2>2 DEF RepInv
<1>12. EndInv'
  <2>1. completions = 0 /\ state = "Active" /\ watch.value = "Active"
    BY <1>7 DEF EndInv
  <2>2. stats.total = Cardinality(Present)
    <3>1. Counting = {}
      BY <1>8 DEF RepInv, Counting, AtPlaces, Adding
    <3> QED
      BY <3>1 DEF AddInv
  <2>3. IsComplete(stats') <=> reported \ Reporting' = Present
    <3>1. reported \ Reporting' \subseteq Present /\ IsFiniteSet(Present)
      BY CountedFinite DEF RepInv
    <3>2. Cardinality(reported \ Reporting') <= Cardinality(Present)
          /\ (Cardinality(reported \ Reporting') = Cardinality(Present) => reported \ Reporting' = Present)
      BY <3>1, FS_Subset
    <3>3. Cardinality(Present) \in Nat /\ Cardinality(reported \ Reporting') \in Nat
      BY <1>9, <3>1, FS_CardinalityType
    <3> QED
      BY <1>3, <1>9, <2>2, <3>2, <3>3 DEF IsComplete
  <2>4. reported \ Reporting' = Present <=> reported = Present /\ Reporting' = {}
    BY <1>7 DEF RepInv
  <2>5. \A u \in Threads \ {t} : call'[u].at \notin Ends \cup {"moveWatch"}
    BY <1>2, <2>1 DEF EndInv
  <2>6. CASE IsComplete(stats')
    <3>1. completions' = 1 /\ call'[t].at \in {"recvState", "failState"}
      BY <1>1, <2>1, <2>6
    <3>2. reported' = Present' /\ Reporting' = {} /\ reported' # {}
      BY <1>1, <1>6, <1>8, <2>3, <2>4, <2>6
    <3>3. \A u \in Threads : call'[u].at # "moveWatch"
      BY <2>5, <3>1
    <3> QED
      BY <3>1, <3>2, <3>3 DEF EndInv
  <2>7. CASE ~ IsComplete(stats')
    <3>1. completions' = 0 /\ call'[t].at \in {"recvEvents", "idle"}
      BY <1>1, <2>1, <2>7
    <3>2. \A u \in Threads : call'[u].at \notin Ends \cup {"moveWatch"}
      BY <2>5, <3>1 DEF Ends
    <3>3. ~ (reported' = Present' /\ Reporting' = {})
      BY <1>1, <1>6, <2>3, <2>4, <2>7
    <3> QED
      BY <1>1, <2>1, <3>1, <3>2, <3>3 DEF EndInv
  <2> QED
    BY <2>6, <2>7
<1> QED
  BY <1>10, <1>11, <1>12

\* The steps that complete the session.
LEMMA CompleteInv ==
    ASSUME STypeOK, AddInv, RepInv, EndInv, NEW t \in Threads,
           RecvState(t) \/ RecvWatch(t) \/ FailState(t) \/ FailWatch(t) \/ RecvDone(t) \/ FailDone(t)
    PROVE  AddInv' /\ RepInv' /\ EndInv'
<1>1. call[t].at \in Ends /\ UNCHANGED <<usage, block, stats, completions, reported>>
  BY DEF RecvState, RecvWatch, FailState, FailWatch, RecvDone, FailDone, At, Ends
<1>2. call'[t].at \in {"recvWatch", "recvDone", "recvEvents", "failWatch", "failDone", "idle"}
      /\ \A u \in Threads \ {t} : call'[u] = call[u]
  BY CallEffects DEF Continue
<1>3. Present' = Present
  BY <1>1 DEF Present
<1>4. Reporting' = Reporting
  BY <1>1, <1>2, PlacesFacts DEF Reporting, Reports, Ends
<1>5. AddInv'
  BY <1>1, <1>2, <1>3, AddStays DEF Ends, Adding
<1>6. RepInv'
  BY <1>1, <1>2, <1>3, RepStays DEF Ends, Reports, Adding
<1>7. completions = 1 /\ completions' = 1
  BY <1>1 DEF EndInv
<1>8. \A u \in Threads : call'[u].at # "moveWatch"
  BY <1>2 DEF EndInv
<1>9. \/ \E u \in Threads : call'[u].at \in {"recvState", "failState"}
      \/ /\ state' = "Completed"
         /\ watch'.value = "Completed" \/ \E u \in Threads : call'[u].at \in {"recvWatch", "failWatch"}
  <2>1. CASE RecvState(t) \/ FailState(t)
    <3>1. state' = "Completed" /\ call'[t].at \in {"recvWatch", "failWatch"}
      BY <2>1, CallEffects DEF RecvState, FailState
    <3> QED
      BY <3>1
  <2>2. CASE RecvWatch(t) \/ FailWatch(t)
    <3>1. state' = state /\ watch'.value = "Completed" /\ call[t].at \in {"recvWatch", "failWatch"}
      BY <2>2 DEF RecvWatch, FailWatch, Publish, At
    <3> QED
      BY <1>2, <1>7, <3>1 DEF EndInv
  <2>3. CASE RecvDone(t) \/ FailDone(t)
    <3>1. state' = state /\ watch' = watch /\ call[t].at \in {"recvDone", "failDone"}
      BY <2>3 DEF RecvDone, FailDone, At
    <3> QED
      BY <1>2, <1>7, <3>1 DEF EndInv
  <2> QED
    BY <2>1, <2>2, <2>3
<1>10. EndInv'
  BY <1>1, <1>3, <1>4, <1>7, <1>8, <1>9 DEF EndInv
<1> QED
  BY <1>5, <1>6, <1>10

LEMMA OtherInv ==
    ASSUME STypeOK, AddInv, RepInv, EndInv, NEW t \in Threads,
           Wait(t) \/ WaitCheck(t) \/ WaitChanged(t) \/ WaitStats(t) \/ RecvEvents(t)
    PROVE  AddInv' /\ RepInv' /\ EndInv'
<1>1. call[t].at \in {"idle", "waitCheck", "waitChanged", "waitStats", "recvEvents"}
      /\ UNCHANGED <<usage, state, watch, block, stats, completions, reported>>
  BY DEF Wait, WaitCheck, WaitChanged, WaitStats, RecvEvents, Call, At
<1>2. call'[t].at \in {"idle", "waitCheck", "waitChanged", "waitStats"}
  BY CallEffects, WaitGoes
<1>3. \A u \in Threads \ {t} : call'[u] = call[u]
  BY CallEffects DEF Begin, Continue
<1>4. Present' = Present
  BY <1>1 DEF Present
<1>5. call[t].at \notin Adding \cup Reports \cup {"recvState", "failState", "recvWatch", "failWatch"}
      /\ call'[t].at \notin Adding \cup Reports \cup Ends \cup {"moveWatch"}
  BY <1>1, <1>2 DEF Adding, Reports, Ends
<1> QED
  BY <1>1, <1>3, <1>4, <1>5, AddStays, RepStays, EndStays

LEMMA OrderlyStep == STypeOK /\ OrderlyInv /\ [SNext]_svars => OrderlyInv'
<1> SUFFICES ASSUME STypeOK, OrderlyInv, [SNext]_svars, Orderly' PROVE AddInv' /\ RepInv' /\ EndInv'
  BY DEF OrderlyInv
<1>1. usage' = usage
  BY DEF SNext, Rest, svars, Begin, Continue, AddBlock, MarkReceived, MarkFailed, Move, Wait, AddInsert,
     AddCount, RecvStats, RecvState, RecvWatch, RecvDone, RecvEvents, FailStats, FailState,
     FailWatch, FailDone, MoveWatch, WaitCheck, WaitChanged, WaitStats
<1>2. Orderly /\ AddInv /\ RepInv /\ EndInv
  BY <1>1 DEF Orderly, OrderlyInv
<1>3. CASE UNCHANGED svars \/ Rest
  <2>1. UNCHANGED svars
    BY <1>3 DEF Rest
  <2> QED
    BY <1>2, <2>1 DEF svars, AddInv, RepInv, EndInv, Present, Counting, Reporting, At
<1>4. ASSUME NEW t \in Threads, NEW c \in Cids, AddBlock(t, c) PROVE AddInv' /\ RepInv' /\ EndInv'
  BY <1>2, <1>4, AddBlockInv
<1>5. ASSUME NEW t \in Threads, NEW c \in Cids, MarkReceived(t, c) \/ MarkFailed(t, c)
      PROVE  AddInv' /\ RepInv' /\ EndInv'
  BY <1>2, <1>5, MarkInv
<1>6. ASSUME NEW t \in Threads, NEW op \in {"pause", "resume", "cancel"}, Move(t, op) PROVE FALSE
  BY <1>2, <1>6 DEF Move, Call
<1>7. ASSUME NEW t \in Threads, MoveWatch(t) PROVE FALSE
  BY <1>2, <1>7 DEF MoveWatch, EndInv, At
<1>8. ASSUME NEW t \in Threads, AddInsert(t) PROVE AddInv' /\ RepInv' /\ EndInv'
  BY <1>2, <1>8, AddInsertInv
<1>9. ASSUME NEW t \in Threads, AddCount(t) PROVE AddInv' /\ RepInv' /\ EndInv'
  BY <1>2, <1>9, AddCountInv
<1>10. ASSUME NEW t \in Threads, RecvStats(t) \/ FailStats(t) PROVE AddInv' /\ RepInv' /\ EndInv'
  BY <1>2, <1>10, CountInv
<1>11. ASSUME NEW t \in Threads,
              RecvState(t) \/ RecvWatch(t) \/ FailState(t) \/ FailWatch(t) \/ RecvDone(t) \/ FailDone(t)
       PROVE  AddInv' /\ RepInv' /\ EndInv'
  BY <1>2, <1>11, CompleteInv
<1>12. ASSUME NEW t \in Threads,
              Wait(t) \/ WaitCheck(t) \/ WaitChanged(t) \/ WaitStats(t) \/ RecvEvents(t)
       PROVE  AddInv' /\ RepInv' /\ EndInv'
  BY <1>2, <1>12, OtherInv
<1> QED
  BY <1>3, <1>4, <1>5, <1>6, <1>7, <1>8, <1>9, <1>10, <1>11, <1>12 DEF SNext, Begin, Continue

LEMMA SInitInv == SInit => STypeOK /\ OrderlyInv
<1> SUFFICES ASSUME SInit PROVE STypeOK /\ OrderlyInv
  OBVIOUS
<1>1. STypeOK
  BY SessionAssumption DEF SInit, STypeOK, States, Calls, Idle
<1>2. Present = {} /\ Reporting = {} /\ reported = {} /\ \A t \in Threads : call[t].at = "idle"
  BY DEF SInit, Present, Reporting, AtPlaces, Reports, Idle
<1>3. Cardinality({}) = 0 /\ Present \ Counting = {} /\ reported \ Reporting = {}
  BY <1>2, FS_EmptySet
<1>4. AddInv /\ RepInv /\ EndInv
  BY <1>2, <1>3 DEF SInit, AddInv, RepInv, EndInv, Adding, Reports, Ends, At
<1> QED
  BY <1>1, <1>4 DEF OrderlyInv

\* mark_received and mark_failed: an orderly session that is completed has heard of every
\* block it was given; the counters never run ahead of the blocks.
THEOREM CompletedIsReported == SSpec => []CompletedMeansReported
<1>1. OrderlyInv => CompletedMeansReported
  BY DEF OrderlyInv, EndInv, CompletedMeansReported
<1> QED
  BY <1>1, SInitInv, STypeStep, OrderlyStep, PTL DEF SSpec

\* mark_received and mark_failed: at most one of the concurrent last reports completes an
\* orderly session.
THEOREM CompletedOnce == SSpec => []CompletesOnce
<1>1. OrderlyInv => CompletesOnce
  BY DEF OrderlyInv, EndInv, CompletesOnce
<1> QED
  BY <1>1, SInitInv, STypeStep, OrderlyStep, PTL DEF SSpec

\* mark_received and mark_failed: once every block of an orderly session is reported and
\* the calls have returned, the session and its watch channel say Completed.
THEOREM ReportedIsCompleted == SSpec => []AllReportedCompletes
<1>1. OrderlyInv => AllReportedCompletes
  <2> SUFFICES ASSUME AddInv, RepInv, EndInv, Quiet, Present # {}, reported = Present
               PROVE  state = "Completed" /\ watch.value = "Completed"
    BY DEF OrderlyInv, AllReportedCompletes
  <2>1. Reporting = {}
    BY DEF Quiet, At, Reporting, AtPlaces, Reports
  <2>2. completions = 1
    BY <2>1 DEF EndInv
  <2> QED
    BY <2>2 DEF EndInv, Quiet, At
<1> QED
  BY <1>1, SInitInv, STypeStep, OrderlyStep, PTL DEF SSpec

================================================================================
