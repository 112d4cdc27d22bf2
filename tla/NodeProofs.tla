------------------------------- MODULE NodeProofs -------------------------------
(***************************************************************************)
(* The node's pins, its collector and its owner's saves and loads, for     *)
(* every DAG, every store and any number of threads: first the three maps  *)
(* of the pin manager and their locks, then what the collector deletes,    *)
(* then what a recursive pin covers, and last the node with crashes.       *)
(***************************************************************************)
EXTENDS NodeRestart, TLAPS

\* What some root depends on.
Needed(x) == \E r \in Cids : x \in deps[r]

\* The indirect pins are what some root depends on, what an add_indirect has
\* not yet recorded as a dependency, and what an unpin has not yet released;
\* there are none while clear is between its last two maps.
AgreeInv ==
    /\ \A t \in Threads : At(t, "clearDeps") => indirect = {}
    /\ (\A t \in Threads : ~ At(t, "clearDeps")) =>
           \A x \in Cids :
               x \in indirect <=>
                   \/ Needed(x)
                   \/ \E t \in Threads : At(t, "linkDeps") /\ x = call[t].link
                   \/ \E t \in Threads : At(t, "unpinIndirect") /\ x \in call[t].removed

NInv == NTypeOK /\ AgreeInv

\* What a call holds is told by the step it is at.
LEMMA CallAt ==
    ASSUME NEW r \in Calls
    PROVE  /\ r.at \in {"visit", "link", "linkDeps"} => r \in Markings
           /\ r.at = "pin" => r.root \in Cids /\ r.kind \in {"Direct", "Recursive"}
           /\ r.at = "unpinDeps" => r.root \in Cids
           /\ r.at = "unpinIndirect" => r.removed \in SUBSET Cids
BY DEF Calls, Markings, Idle

\* A thread that moves on takes a lock only when it is free.
LEMMA LocksStep ==
    ASSUME NEW t \in Threads, NEW r, LocksExclusive, call \in [Threads -> Calls],
           call' = [call EXCEPT ![t] = r],
           r.at \in {"unpinDeps", "unpinIndirect", "clearIndirect", "clearDeps"}
               => HoldsPins(t) \/ PinsFree,
           r.at = "unpinIndirect" => HoldsDeps(t) \/ DepsFree,
           r.at \in {"linkDeps", "clearDeps"} => HoldsIndirect(t) \/ IndirectFree
    PROVE  LocksExclusive'
BY DEF LocksExclusive, HoldsPins, HoldsDeps, HoldsIndirect, PinsFree, DepsFree, IndirectFree, At

\* The types and the locks after a step, given where the thread goes.
LEMMA TypeStep ==
    ASSUME NEW t \in Threads, NEW r \in Calls, NTypeOK,
           call' = [call EXCEPT ![t] = r], LocksExclusive',
           store' \in SUBSET Cids, pins' \in [Cids -> {"Direct", "Recursive", "none"}],
           indirect' \in SUBSET Cids, deps' \in [Cids -> SUBSET Cids],
           calls' \in 0..MaxCalls, gaps' \in SUBSET Cids
    PROVE  NTypeOK'
BY DEF NTypeOK

LEMMA PinKeeps ==
    ASSUME NInv, NEW t \in Threads, Pin(t)
    PROVE  NInv'
<1> DEFINE r == IF call[t].kind = "Recursive" THEN Marking(call[t].root) ELSE Idle
<1>1. call[t].root \in Cids /\ call[t].kind \in {"Direct", "Recursive"}
  BY CallAt DEF NInv, NTypeOK, Pin, At
<1>2. r \in Calls /\ r.at \in {"visit", "idle"}
  BY <1>1 DEF Marking, Idle, Calls, Markings
<1>3. call' = [call EXCEPT ![t] = r]
  BY DEF Pin, Goto, Return
<1> HIDE DEF r
<1>4. LocksExclusive'
  BY <1>2, <1>3, LocksStep DEF NInv, NTypeOK
<1>5. NTypeOK'
  BY <1>1, <1>2, <1>3, <1>4, TypeStep DEF NInv, NTypeOK, Pin
<1>6. AgreeInv'
  BY <1>2, <1>3 DEF NInv, NTypeOK, AgreeInv, Needed, At, Pin
<1> QED
  BY <1>5, <1>6 DEF NInv

LEMMA VisitKeeps ==
    ASSUME NInv, NEW t \in Threads, NEW c \in Cids, Visit(t, c)
    PROVE  NInv'
<1> DEFINE links == IF c \in store THEN Links[c] ELSE {}
           r == [call[t] EXCEPT !.at = IF links = {} THEN "visit" ELSE "link",
                                !.visited = @ \cup {c},
                                !.toVisit = (@ \cup links) \ (call[t].visited \cup {c}),
                                !.links = links]
<1>1. call[t] \in Markings
  BY CallAt DEF NInv, NTypeOK, Visit, At
<1>2. links \in SUBSET Cids
  BY PinsAssumption
<1>3. call' = [call EXCEPT ![t] = r]
  BY DEF Visit, Goto
<1> HIDE DEF links
<1>4. r \in Markings /\ r.at \in {"visit", "link"}
  BY <1>1, <1>2 DEF Markings
<1> HIDE DEF r
<1>5. r \in Calls
  BY <1>4 DEF Calls
<1>6. LocksExclusive'
  BY <1>3, <1>4, LocksStep DEF NInv, NTypeOK
<1>7. NTypeOK'
  <2>1. gaps' \in SUBSET Cids
    BY <1>1 DEF NInv, NTypeOK, Visit, Markings
  <2> QED BY <1>3, <1>5, <1>6, <2>1, TypeStep DEF NInv, NTypeOK, Visit, maps
<1>8. AgreeInv'
  BY <1>3, <1>4 DEF NInv, NTypeOK, AgreeInv, Needed, At, Visit, maps
<1> QED
  BY <1>7, <1>8 DEF NInv

LEMMA VisitDoneKeeps ==
    ASSUME NInv, NEW t \in Threads, VisitDone(t)
    PROVE  NInv'
<1>1. call' = [call EXCEPT ![t] = Idle] /\ Idle \in Calls /\ Idle.at = "idle"
  BY DEF VisitDone, Return, Goto, Idle, Calls
<1>2. LocksExclusive'
  BY <1>1, LocksStep DEF NInv, NTypeOK
<1>3. NTypeOK'
  BY <1>1, <1>2, TypeStep DEF NInv, NTypeOK, VisitDone, maps
<1>4. AgreeInv'
  BY <1>1 DEF NInv, NTypeOK, AgreeInv, Needed, At, VisitDone, maps
<1> QED
  BY <1>3, <1>4 DEF NInv

LEMMA VisitFailsKeeps ==
    ASSUME NInv, NEW t \in Threads, VisitFails(t)
    PROVE  NInv'
<1>1. call' = [call EXCEPT ![t] = Idle] /\ Idle \in Calls /\ Idle.at = "idle"
  BY DEF VisitFails, Return, Goto, Idle, Calls
<1>2. call[t].root \in Cids /\ calls' \in 0..MaxCalls
  BY CallAt, PinsAssumption DEF NInv, NTypeOK, VisitFails, Counted, At, Markings
<1>3. LocksExclusive'
  BY <1>1, LocksStep DEF NInv, NTypeOK
<1>4. NTypeOK'
  BY <1>1, <1>2, <1>3, TypeStep DEF NInv, NTypeOK, VisitFails, maps
<1>5. AgreeInv'
  BY <1>1 DEF NInv, NTypeOK, AgreeInv, Needed, At, VisitFails, maps
<1> QED
  BY <1>4, <1>5 DEF NInv

LEMMA AddIndirectKeeps ==
    ASSUME NInv, NEW t \in Threads, NEW c \in Cids, AddIndirect(t, c)
    PROVE  NInv'
<1> DEFINE r == [call[t] EXCEPT !.at = "linkDeps", !.links = @ \ {c}, !.link = c]
<1>1. call[t] \in Markings
  BY CallAt DEF NInv, NTypeOK, AddIndirect, At
<1>2. r \in Markings /\ r.at = "linkDeps" /\ r.link = c
  BY <1>1 DEF Markings
<1>3. call' = [call EXCEPT ![t] = r] /\ IndirectFree
  BY DEF AddIndirect, Goto
<1> HIDE DEF r
<1>4. r \in Calls
  BY <1>2 DEF Calls
<1>5. LocksExclusive'
  BY <1>2, <1>3, LocksStep DEF NInv, NTypeOK
<1>6. NTypeOK'
  BY <1>3, <1>4, <1>5, TypeStep DEF NInv, NTypeOK, AddIndirect
<1>7. \A u \in Threads : ~ At(u, "linkDeps") /\ ~ At(u, "clearDeps")
  BY <1>3 DEF IndirectFree, HoldsIndirect, At
<1>8. AgreeInv'
  <2>1. indirect' = indirect \cup {c} /\ deps' = deps
    BY DEF AddIndirect
  <2>2. \A u \in Threads : ~ At(u, "clearDeps")'
    BY <1>2, <1>3, <1>7 DEF NInv, NTypeOK, At
  <2>3. ASSUME NEW x \in Cids
        PROVE  (\E u \in Threads : At(u, "linkDeps") /\ x = call[u].link)' <=> x = c
    BY <1>2, <1>3, <1>7 DEF NInv, NTypeOK, At
  <2>4. ASSUME NEW x \in Cids
        PROVE  (\E u \in Threads : At(u, "unpinIndirect") /\ x \in call[u].removed)'
                   <=> \E u \in Threads : At(u, "unpinIndirect") /\ x \in call[u].removed
    BY <1>2, <1>3 DEF NInv, NTypeOK, At, AddIndirect
  <2> QED
    BY <1>7, <2>1, <2>2, <2>3, <2>4 DEF NInv, AgreeInv, Needed
<1> QED
  BY <1>6, <1>8 DEF NInv

LEMMA AddDepKeeps ==
    ASSUME NInv, NEW t \in Threads, AddDep(t)
    PROVE  NInv'
<1> DEFINE r == [call[t] EXCEPT !.at = IF call[t].links = {} THEN "visit" ELSE "link"]
<1>1. call[t] \in Markings
  BY CallAt DEF NInv, NTypeOK, AddDep, At
<1>2. r \in Markings /\ r.at \in {"visit", "link"} /\ call[t].link \in Cids /\ call[t].root \in Cids
  BY <1>1 DEF Markings
<1>3. call' = [call EXCEPT ![t] = r]
  BY DEF AddDep, Goto
<1> HIDE DEF r
<1>4. r \in Calls
  BY <1>2 DEF Calls
<1>5. LocksExclusive'
  BY <1>2, <1>3, LocksStep DEF NInv, NTypeOK
<1>6. NTypeOK'
  BY <1>2, <1>3, <1>4, <1>5, TypeStep DEF NInv, NTypeOK, AddDep
<1>7. \A u \in Threads : ~ At(u, "clearDeps") /\ (At(u, "linkDeps") => u = t)
  BY DEF NInv, NTypeOK, LocksExclusive, HoldsIndirect, At, AddDep
<1>8. AgreeInv'
  <2>1. indirect' = indirect
    BY DEF AddDep
  <2>2. \A u \in Threads : ~ At(u, "clearDeps")' /\ ~ At(u, "linkDeps")'
    BY <1>2, <1>3, <1>7 DEF NInv, NTypeOK, At
  <2>3. ASSUME NEW x \in Cids PROVE Needed(x)' <=> Needed(x) \/ x = call[t].link
    BY <1>2 DEF NInv, NTypeOK, Needed, AddDep
  <2>4. ASSUME NEW x \in Cids
        PROVE  (\E u \in Threads : At(u, "unpinIndirect") /\ x \in call[u].removed)'
                   <=> \E u \in Threads : At(u, "unpinIndirect") /\ x \in call[u].removed
    BY <1>2, <1>3 DEF NInv, NTypeOK, At, AddDep
  <2>5. ASSUME NEW x \in Cids
        PROVE  (\E u \in Threads : At(u, "linkDeps") /\ x = call[u].link) <=> x = call[t].link
    BY <1>7 DEF AddDep
  <2> QED
    BY <1>7, <2>1, <2>2, <2>3, <2>4, <2>5 DEF NInv, AgreeInv
<1> QED
  BY <1>6, <1>8 DEF NInv

\* A call that begins: one more call is counted.
LEMMA BeginStep ==
    ASSUME NEW t \in Threads, NEW op, NEW r \in Calls, NTypeOK, Begin(t, op),
           call' = [call EXCEPT ![t] = r], LocksExclusive',
           store' \in SUBSET Cids, pins' \in [Cids -> {"Direct", "Recursive", "none"}],
           indirect' = indirect, deps' = deps, gaps' \in SUBSET Cids
    PROVE  NTypeOK'
BY PinsAssumption DEF NTypeOK, Begin, Counted

\* A call that begins leaves the indirect pins and the dependencies alone.
LEMMA BeginAgrees ==
    ASSUME NInv, NEW t \in Threads, NEW r \in Calls, call' = [call EXCEPT ![t] = r],
           call[t].at \notin {"linkDeps", "unpinIndirect", "clearDeps"},
           r.at \notin {"linkDeps", "unpinIndirect", "clearDeps"},
           indirect' = indirect, deps' = deps
    PROVE  AgreeInv'
BY DEF NInv, NTypeOK, AgreeInv, Needed, At

LEMMA StartKeeps ==
    ASSUME NInv, NEW t \in Threads, Start(t)
    PROVE  NInv'
<1> USE DEF NInv
<1>1. ASSUME NEW c \in Cids, NEW kind \in {"Direct", "Recursive"}, PinAdd(t, c, kind)
      PROVE  NInv'
  <2>1. PICK r \in {[at |-> "pin", root |-> c, kind |-> kind], call[t]} :
          At(t, "idle") /\ call' = [call EXCEPT ![t] = r]
    BY <1>1 DEF PinAdd, Begin, Goto, NTypeOK
  <2>2. r \in Calls /\ r.at \in {"pin", "idle"}
    BY <2>1 DEF NTypeOK, Calls, At
  <2>3. LocksExclusive'
    BY <2>1, <2>2, LocksStep DEF NTypeOK
  <2>4. NTypeOK'
    BY <1>1, <2>1, <2>2, <2>3, BeginStep DEF PinAdd, maps, NTypeOK
  <2>5. AgreeInv'
    BY <1>1, <2>1, <2>2, BeginAgrees DEF PinAdd, maps, At
  <2> QED
    BY <2>4, <2>5
<1>2. ASSUME NEW c \in Cids, Unpin(t, c) PROVE NInv'
  <2> DEFINE r == IF pins[c] = "Recursive" THEN [at |-> "unpinDeps", root |-> c] ELSE call[t]
  <2>1. At(t, "idle") /\ call' = [call EXCEPT ![t] = r]
    BY <1>2 DEF Unpin, Begin, Goto, NTypeOK
  <2>2. r \in Calls /\ r.at \in {"unpinDeps", "idle"}
    BY <2>1 DEF NTypeOK, Calls, At
  <2> HIDE DEF r
  <2>3. LocksExclusive'
    BY <1>2, <2>1, <2>2, LocksStep DEF NTypeOK, Unpin
  <2>4. NTypeOK'
    BY <1>2, <2>1, <2>2, <2>3, BeginStep DEF Unpin, NTypeOK
  <2>5. AgreeInv'
    BY <1>2, <2>1, <2>2, BeginAgrees DEF Unpin, At
  <2> QED
    BY <2>4, <2>5
<1>3. ASSUME NEW c \in Cids, Put(t, c) PROVE NInv'
  <2>1. At(t, "idle") /\ call' = [call EXCEPT ![t] = call[t]] /\ call[t] \in Calls
    BY <1>3 DEF Put, Begin, NTypeOK
  <2>2. LocksExclusive'
    BY <2>1, LocksStep DEF NTypeOK, At
  <2>3. NTypeOK'
    BY <1>3, <2>1, <2>2, BeginStep DEF Put, maps, NTypeOK
  <2>4. AgreeInv'
    BY <1>3, <2>1, BeginAgrees DEF Put, maps, At
  <2> QED
    BY <2>3, <2>4
<1>4. CASE Clear(t)
  <2> DEFINE r == [at |-> "clearIndirect"]
  <2>1. At(t, "idle") /\ call' = [call EXCEPT ![t] = r]
    BY <1>4 DEF Clear, Begin, Goto, NTypeOK
  <2>2. r \in Calls /\ r.at = "clearIndirect"
    BY DEF Calls
  <2> HIDE DEF r
  <2>3. LocksExclusive'
    BY <1>4, <2>1, <2>2, LocksStep DEF NTypeOK, Clear
  <2>4. NTypeOK'
    BY <1>4, <2>1, <2>2, <2>3, BeginStep DEF Clear, NTypeOK
  <2>5. AgreeInv'
    BY <1>4, <2>1, <2>2, BeginAgrees DEF Clear, At
  <2> QED
    BY <2>4, <2>5
<1> QED
  BY <1>1, <1>2, <1>3, <1>4 DEF Start

LEMMA UnpinDepsKeeps ==
    ASSUME NInv, NEW t \in Threads, UnpinDeps(t)
    PROVE  NInv'
<1> DEFINE removed == deps[call[t].root]
           r == IF removed = {} THEN Idle ELSE [at |-> "unpinIndirect", removed |-> removed]
<1>1. call[t].root \in Cids
  BY CallAt DEF NInv, NTypeOK, UnpinDeps, At
<1>2. removed \in SUBSET Cids
  BY <1>1 DEF NInv, NTypeOK
<1>3. call' = [call EXCEPT ![t] = r] /\ DepsFree /\ HoldsPins(t)
  BY DEF UnpinDeps, Goto, Return, HoldsPins, At
<1>4. ASSUME NEW x \in Cids PROVE Needed(x)' \/ x \in removed <=> Needed(x)
  BY <1>1 DEF NInv, NTypeOK, Needed, UnpinDeps
<1> HIDE DEF removed
<1>5. /\ r \in Calls /\ r.at \in {"idle", "unpinIndirect"}
      /\ removed # {} => r.at = "unpinIndirect" /\ r.removed = removed
      /\ r.at = "unpinIndirect" => removed # {}
  BY <1>2 DEF Idle, Calls
<1> HIDE DEF r
<1>6. LocksExclusive'
  BY <1>3, <1>5, LocksStep DEF NInv, NTypeOK
<1>7. NTypeOK'
  BY <1>1, <1>3, <1>5, <1>6, TypeStep DEF NInv, NTypeOK, UnpinDeps
<1>8. \A u \in Threads : ~ At(u, "clearDeps") /\ ~ At(u, "unpinIndirect")
  BY <1>3 DEF NInv, NTypeOK, LocksExclusive, HoldsPins, DepsFree, HoldsDeps, At, UnpinDeps
<1>9. AgreeInv'
  <2>1. indirect' = indirect
    BY DEF UnpinDeps
  <2>2. \A u \in Threads : ~ At(u, "clearDeps")'
    BY <1>3, <1>5, <1>8 DEF NInv, NTypeOK, At
  <2>3. ASSUME NEW x \in Cids
        PROVE  (\E u \in Threads : At(u, "unpinIndirect") /\ x \in call[u].removed)' <=> x \in removed
    BY <1>3, <1>5, <1>8 DEF NInv, NTypeOK, At
  <2>4. ASSUME NEW x \in Cids
        PROVE  (\E u \in Threads : At(u, "linkDeps") /\ x = call[u].link)'
                   <=> \E u \in Threads : At(u, "linkDeps") /\ x = call[u].link
    BY <1>3, <1>5 DEF NInv, NTypeOK, At, UnpinDeps
  <2> QED
    BY <1>4, <1>8, <2>1, <2>2, <2>3, <2>4 DEF NInv, AgreeInv
<1> QED
  BY <1>7, <1>9 DEF NInv

LEMMA UnpinIndirectKeeps ==
    ASSUME NInv, NEW t \in Threads, UnpinIndirect(t)
    PROVE  NInv'
<1>1. call' = [call EXCEPT ![t] = Idle] /\ Idle \in Calls /\ Idle.at = "idle" /\ IndirectFree
  BY DEF UnpinIndirect, Return, Goto, Idle, Calls
<1>2. LocksExclusive'
  BY <1>1, LocksStep DEF NInv, NTypeOK
<1>3. NTypeOK'
  BY <1>1, <1>2, TypeStep DEF NInv, NTypeOK, UnpinIndirect
<1>4. \A u \in Threads : /\ ~ At(u, "clearDeps") /\ ~ At(u, "linkDeps")
                         /\ At(u, "unpinIndirect") => u = t
  BY <1>1 DEF NInv, NTypeOK, LocksExclusive, HoldsDeps, IndirectFree, HoldsIndirect, At,
              UnpinIndirect
<1>5. AgreeInv'
  <2>1. deps' = deps /\ At(t, "unpinIndirect")
    BY DEF UnpinIndirect
  <2>2. ASSUME NEW x \in Cids
        PROVE  x \in indirect' <=> x \in indirect /\ (x \in call[t].removed => Needed(x))
    BY DEF UnpinIndirect, Needed
  <2>3. \A u \in Threads : ~ At(u, "clearDeps")' /\ ~ At(u, "linkDeps")' /\ ~ At(u, "unpinIndirect")'
    BY <1>1, <1>4 DEF NInv, NTypeOK, At
  <2>4. ASSUME NEW x \in Cids PROVE x \in indirect <=> Needed(x) \/ x \in call[t].removed
    BY <1>4, <2>1 DEF NInv, AgreeInv
  <2> QED
    BY <2>1, <2>2, <2>3, <2>4 DEF AgreeInv, Needed
<1> QED
  BY <1>3, <1>5 DEF NInv

LEMMA ClearIndirectKeeps ==
    ASSUME NInv, NEW t \in Threads, ClearIndirect(t)
    PROVE  NInv'
<1> DEFINE r == [at |-> "clearDeps"]
<1>1. call' = [call EXCEPT ![t] = r] /\ IndirectFree /\ HoldsPins(t)
  BY DEF ClearIndirect, Goto, HoldsPins, At
<1>2. r \in Calls /\ r.at = "clearDeps"
  BY DEF Calls
<1> HIDE DEF r
<1>3. LocksExclusive'
  BY <1>1, <1>2, LocksStep DEF NInv, NTypeOK
<1>4. NTypeOK'
  BY <1>1, <1>2, <1>3, TypeStep DEF NInv, NTypeOK, ClearIndirect
<1>5. At(t, "clearDeps")'
  BY <1>1, <1>2 DEF NInv, NTypeOK, At
<1>6. AgreeInv'
  BY <1>5 DEF AgreeInv, ClearIndirect
<1> QED
  BY <1>4, <1>6 DEF NInv

LEMMA ClearDepsKeeps ==
    ASSUME NInv, NEW t \in Threads, ClearDeps(t)
    PROVE  NInv'
<1>1. call' = [call EXCEPT ![t] = Idle] /\ Idle \in Calls /\ Idle.at = "idle"
  BY DEF ClearDeps, Return, Goto, Idle, Calls
<1>2. LocksExclusive'
  BY <1>1, LocksStep DEF NInv, NTypeOK
<1>3. NTypeOK'
  BY <1>1, <1>2, TypeStep DEF NInv, NTypeOK, ClearDeps
<1>4. \A u \in Threads : u # t =>
          ~ At(u, "clearDeps") /\ ~ At(u, "linkDeps") /\ ~ At(u, "unpinIndirect")
  BY DEF NInv, NTypeOK, LocksExclusive, HoldsPins, HoldsIndirect, At, ClearDeps
<1>5. AgreeInv'
  <2>1. indirect' = {} /\ \A x \in Cids : ~ Needed(x)'
    BY DEF NInv, AgreeInv, Needed, ClearDeps
  <2>2. \A u \in Threads : ~ At(u, "linkDeps")' /\ ~ At(u, "unpinIndirect")'
    BY <1>1, <1>4 DEF NInv, NTypeOK, At
  <2> QED
    BY <2>1, <2>2 DEF AgreeInv
<1> QED
  BY <1>3, <1>5 DEF NInv

\* The inductive invariant, one lemma per action.
LEMMA NInvStep ==
    ASSUME NInv, [NNext]_nvars
    PROVE  NInv'
<1>1. ASSUME NEW t \in Threads, Start(t) PROVE NInv'
  BY <1>1, StartKeeps
<1>2. ASSUME NEW t \in Threads, Continue(t) PROVE NInv'
  BY <1>2, PinKeeps, VisitKeeps, VisitDoneKeeps, VisitFailsKeeps, AddIndirectKeeps, AddDepKeeps, UnpinDepsKeeps,
     UnpinIndirectKeeps, ClearIndirectKeeps, ClearDepsKeeps DEF Continue
<1>3. CASE UNCHANGED nvars
  BY <1>3 DEF nvars, maps, NInv, NTypeOK, LocksExclusive, HoldsPins, HoldsDeps, HoldsIndirect,
              AgreeInv, Needed, At
<1> QED
  BY <1>1, <1>2, <1>3 DEF NNext

LEMMA NInvHolds == NSpec => []NInv
<1>1. NInit => NInv
  BY PinsAssumption DEF NInit, NInv, NTypeOK, LocksExclusive, HoldsPins, HoldsDeps, HoldsIndirect,
                        AgreeInv, Needed, At, Idle, Calls
<1> QED
  BY <1>1, NInvStep, PTL DEF NSpec

\* The pin manager's state keeps its types and no lock has two holders, for
\* every DAG and any number of threads (PinManager, pin.rs).
THEOREM PinsAreTyped == NSpec => []NTypeOK
BY NInvHolds, PTL DEF NInv

\* The indirect pins are exactly what the recursive roots depend on whenever
\* no call is between two of the maps (add_indirect, unpin, clear, pin.rs).
THEOREM IndirectPinsAgree == NSpec => []IndirectIsUnion
<1>1. NInv => IndirectIsUnion
  BY DEF NInv, NTypeOK, AgreeInv, Needed, IndirectIsUnion, At
<1> QED
  BY <1>1, NInvHolds, PTL

--------------------------------------------------------------------------------
(* The collector                                                                *)

\* Halfway through the marking, what has been visited has had its links
\* marked, and nothing has been deleted.
MarkInv ==
    GcAt("mark") =>
        /\ gc.blocks \subseteq store
        /\ gc.roots \subseteq gc.reachable
        /\ gc.toVisit \subseteq gc.reachable
        /\ \A c \in (gc.reachable \ gc.toVisit) \cap gc.blocks : Links[c] \subseteq gc.reachable

\* Later, nothing on the list to delete can be reached from the pins.
SweepInv ==
    GcAt("sweep") =>
        /\ Reach(gc.roots, gc.blocks) \cap gc.todo = {}
        /\ Reach(gc.roots, gc.blocks) \cap gc.blocks \subseteq store

GInv == GTypeOK /\ MarkInv /\ SweepInv

\* No call on the pins takes a block out of the store.
LEMMA CallsKeepBlocks ==
    ASSUME NNext, store \in SUBSET Cids
    PROVE  store \subseteq store' /\ store' \in SUBSET Cids
<1>1. PICK t \in Threads : Start(t) \/ Continue(t)
  BY DEF NNext
<1>2. CASE Start(t)
  <2>1. ASSUME NEW c \in Cids, NEW kind \in {"Direct", "Recursive"}, PinAdd(t, c, kind)
        PROVE  store' = store
    BY <2>1 DEF PinAdd
  <2>2. ASSUME NEW c \in Cids, Unpin(t, c) PROVE store' = store
    BY <2>2 DEF Unpin
  <2>3. ASSUME NEW c \in Cids, Put(t, c) PROVE store' = store \cup {c}
    BY <2>3 DEF Put
  <2>4. ASSUME Clear(t) PROVE store' = store
    BY <2>4 DEF Clear
  <2> QED
    BY <1>2, <2>1, <2>2, <2>3, <2>4 DEF Start
<1>3. CASE Continue(t)
  BY <1>3 DEF Continue, Pin, VisitDone, VisitFails, AddDep, Visit, AddIndirect, UnpinDeps, UnpinIndirect,
              ClearIndirect, ClearDeps
<1> QED
  BY <1>1, <1>2, <1>3

\* A step of the collector or of a thread keeps the types.
LEMMA GTypeStep ==
    ASSUME GTypeOK, [GNext]_gvars
    PROVE  GTypeOK'
<1> USE PinsAssumption, GcAssumption DEF GTypeOK, Collections, GcAt, NoGc, gvars
<1>1. CASE NNext /\ UNCHANGED <<gc, gcs>>
  BY <1>1, CallsKeepBlocks
<1>2. ASSUME NEW max \in MaxBlocks, NEW dry \in BOOLEAN, GcStart(max, dry)
      PROVE  GTypeOK'
  BY <1>2 DEF GcStart, Pinned, nvars
<1>3. ASSUME NEW c \in Cids, GcMark(c) PROVE GTypeOK'
  <2> DEFINE links == IF c \in store THEN Links[c] \ gc.reachable ELSE {}
  <2>1. links \in SUBSET Cids
    OBVIOUS
  <2>2. gc' = [gc EXCEPT !.reachable = @ \cup links, !.toVisit = (@ \ {c}) \cup links]
    BY <1>3 DEF GcMark
  <2> HIDE DEF links
  <2>3. gc \in Collections
    BY <1>3 DEF GcMark
  <2>4. gc' \in Collections /\ gc'.max = gc.max /\ gc'.collected = gc.collected
    BY <2>1, <2>2, <2>3
  <2> QED
    BY <1>3, <2>3, <2>4 DEF GcMark, nvars
<1>4. CASE GcList
  <2>1. gc \in Collections
    BY <1>4 DEF GcList
  <2>2. gc' \in Collections /\ gc'.max = gc.max /\ gc'.collected = gc.collected
    BY <1>4, <2>1 DEF GcList
  <2> QED
    BY <1>4, <2>1, <2>2 DEF GcList, nvars
<1>5. ASSUME NEW c \in Cids, GcSweep(c) PROVE GTypeOK'
  <2> DEFINE n == IF c \in store THEN gc.collected + 1 ELSE gc.collected
  <2>1. gc \in Collections
    BY <1>5 DEF GcSweep
  <2>2. gc' = [gc EXCEPT !.todo = @ \ {c}, !.collected = n]
    BY <1>5 DEF GcSweep
  <2>3. n \in Nat /\ (gc.max > 0 => n <= gc.max)
    BY <1>5, <2>1 DEF GcSweep, LimitReached
  <2> HIDE DEF n
  <2>4. gc' \in Collections /\ gc'.max = gc.max /\ gc'.collected = n
    BY <2>1, <2>2, <2>3
  <2> QED
    BY <1>5, <2>3, <2>4 DEF GcSweep
<1>6. CASE GcEnd \/ GcFails
  BY <1>6 DEF GcEnd, GcFails, nvars
<1>7. CASE UNCHANGED gvars
  BY <1>7 DEF nvars
<1> QED
  BY <1>1, <1>2, <1>3, <1>4, <1>5, <1>6, <1>7 DEF GNext, GcStep

\* When the marking is over, the marked CIDs hold all that the pins reach.
LEMMA MarkedAreReached ==
    ASSUME GTypeOK, MarkInv, GcAt("mark"), gc.toVisit = {}
    PROVE  Reach(gc.roots, gc.blocks) \subseteq gc.reachable
<1>1. gc.reachable \in SUBSET Cids
  BY DEF GTypeOK, Collections, GcAt, NoGc
<1>2. Closed(gc.reachable, gc.roots, gc.blocks)
  BY DEF MarkInv, Closed
<1> QED
  BY <1>1, <1>2 DEF Reach

\* The inductive invariant.
LEMMA GInvStep ==
    ASSUME GInv, [GNext]_gvars
    PROVE  GInv'
<1> USE DEF GInv
<1>0. GTypeOK'
  BY GTypeStep
<1>1. CASE NNext /\ UNCHANGED <<gc, gcs>>
  <2>1. store \subseteq store'
    BY <1>1, CallsKeepBlocks DEF GTypeOK
  <2> QED
    BY <1>0, <1>1, <2>1 DEF MarkInv, SweepInv, GcAt, Reach, Closed
<1>2. ASSUME NEW max \in MaxBlocks, NEW dry \in BOOLEAN, GcStart(max, dry)
      PROVE  GInv'
  BY <1>0, <1>2 DEF GcStart, MarkInv, SweepInv, GcAt, nvars
<1>3. ASSUME NEW c \in Cids, GcMark(c) PROVE GInv'
  <2> DEFINE links == IF c \in store THEN Links[c] \ gc.reachable ELSE {}
  <2>1. gc' = [gc EXCEPT !.reachable = @ \cup links, !.toVisit = (@ \ {c}) \cup links]
    BY <1>3 DEF GcMark
  <2>2. GcAt("mark") /\ GcAt("mark")' /\ store' = store
    BY <1>3, <2>1 DEF GcMark, GcAt, GTypeOK, Collections, NoGc, nvars
  <2>3. /\ gc.reachable' = gc.reachable \cup links
        /\ gc.toVisit' = (gc.toVisit \ {c}) \cup links
        /\ gc.roots' = gc.roots /\ gc.blocks' = gc.blocks
    BY <2>1, <2>2 DEF GcAt, GTypeOK, Collections, NoGc
  <2>4. c \in gc.blocks => Links[c] \subseteq gc.reachable \cup links
    BY <2>2 DEF MarkInv
  <2>5. MarkInv'
    BY <2>2, <2>3, <2>4 DEF MarkInv
  <2> QED
    BY <1>0, <2>2, <2>5 DEF SweepInv, GcAt
<1>4. CASE GcList
  <2>1. Reach(gc.roots, gc.blocks) \subseteq gc.reachable
    BY <1>4, MarkedAreReached DEF GcList
  <2>2. /\ gc.at' = "sweep" /\ gc.todo' = store \ gc.reachable
        /\ gc.roots' = gc.roots /\ gc.blocks' = gc.blocks /\ store' = store
        /\ gc.blocks \subseteq store
    BY <1>4 DEF GcList, GcAt, GTypeOK, Collections, NoGc, MarkInv, nvars
  <2>3. Reach(gc.roots, gc.blocks)' = Reach(gc.roots, gc.blocks)
    BY <2>2 DEF Reach, Closed
  <2> QED
    BY <1>0, <2>1, <2>2, <2>3 DEF MarkInv, SweepInv, GcAt
<1>5. ASSUME NEW c \in Cids, GcSweep(c) PROVE GInv'
  <2>1. /\ GcAt("sweep") /\ GcAt("sweep")' /\ c \in gc.todo
        /\ gc.todo' \subseteq gc.todo /\ store \ {c} \subseteq store'
        /\ gc.roots' = gc.roots /\ gc.blocks' = gc.blocks
    BY <1>5 DEF GcSweep, GcAt, GTypeOK, Collections, NoGc
  <2>2. Reach(gc.roots, gc.blocks)' = Reach(gc.roots, gc.blocks)
    BY <2>1 DEF Reach, Closed
  <2> QED
    BY <1>0, <2>1, <2>2 DEF MarkInv, SweepInv, GcAt
<1>6. CASE GcEnd \/ GcFails
  BY <1>0, <1>6 DEF GcEnd, GcFails, NoGc, MarkInv, SweepInv, GcAt
<1>7. CASE UNCHANGED gvars
  BY <1>0, <1>7 DEF gvars, nvars, MarkInv, SweepInv, GcAt, Reach, Closed
<1> QED
  BY <1>1, <1>2, <1>3, <1>4, <1>5, <1>6, <1>7 DEF GNext, GcStep

LEMMA GInvHolds == GSpec => []GInv
<1>1. GInit => GInv
  BY PinsAssumption, GcAssumption DEF GInit, NInit, GInv, GTypeOK, Collections, MarkInv, SweepInv, GcAt, NoGc
<1> QED
  BY <1>1, GInvStep, PTL DEF GSpec

\* The collector's state keeps its types, and a run stays within its limit,
\* for every DAG and every limit (collect, gc.rs).
THEOREM GcIsTyped == GSpec => []GTypeOK
BY GInvHolds, PTL DEF GInv

\* A collection is between two of its steps or has kept what it found reachable.
LEMMA Survives ==
    GInv => ReachableSurvives
<1> SUFFICES ASSUME GInv PROVE ReachableSurvives
  OBVIOUS
<1>1. CASE GcAt("idle")
  BY <1>1 DEF ReachableSurvives
<1>2. CASE GcAt("mark")
  BY <1>2 DEF ReachableSurvives, GInv, MarkInv
<1>3. CASE GcAt("sweep")
  BY <1>3 DEF ReachableSurvives, GInv, SweepInv
<1> QED
  BY <1>1, <1>2, <1>3 DEF GInv, GTypeOK, Collections, NoGc, GcAt

\* No collection of the node deletes a block that was stored and reachable
\* from a pin when it began, whatever calls run meanwhile (collect, gc.rs).
THEOREM CollectionIsSafe == GSpec => []ReachableSurvives
BY Survives, GInvHolds, PTL

--------------------------------------------------------------------------------
(* What a recursive pin covers                                                  *)

\* The CIDs under c in the DAG.
Below(c) == Reach({c}, Cids)

\* d, the dependencies of the root r, has all that is under r.
Complete(r, d) == Below(r) \subseteq d \cup {r}

\* What the call k has still to record of the links of the block it has read.
Pending(k) == k.links \cup (IF k.at = "linkDeps" THEN {k.link} ELSE {})

\* The call k is a mark_recursive_pins of the root r that will complete d: it has
\* passed no link over, and a link of a visited block is recorded or pending.
Covering(k, r, d) ==
    /\ k \in Markings /\ k.root = r
    /\ r \in k.visited \cup k.toVisit
    /\ \A c \in k.visited : /\ Links[c] \subseteq k.visited \cup k.toVisit
                           /\ Links[c] \subseteq d \cup Pending(k)
    /\ k.at = "visit" => k.links = {}

\* The dependencies of a recursive pin without a gap are complete, or some call
\* completes them.
Covers ==
    \A r \in Cids \ gaps : pins[r] = "Recursive" =>
        Complete(r, deps[r]) \/ \E t \in Threads : Covering(call[t], r, deps[r])

\* An unpin or clear that has not yet got to the dependencies has removed the pins,
\* and holds their lock.
HoldOK(k, p) ==
    /\ k.at = "unpinDeps" => p[k.root] = "none"
    /\ k.at \in {"clearIndirect", "clearDeps"} => \A c \in Cids : p[c] = "none"

HoldInv == \A t \in Threads : HoldOK(call[t], pins)

\* What is under a CID includes it and the links of all that is under it.
LEMMA BelowClosed ==
    ASSUME NEW c \in Cids
    PROVE  c \in Below(c) /\ \A y \in Below(c) : y \in Cids /\ Links[y] \subseteq Below(c)
<1>1. c \in Below(c)
  BY DEF Below, Reach, Closed
<1>2. ASSUME NEW y \in Below(c), NEW z \in Links[y] PROVE z \in Below(c)
  <2>1. y \in Cids /\ z \in Cids
    BY <1>2, PinsAssumption DEF Below, Reach
  <2>2. ASSUME NEW T \in SUBSET Cids, Closed(T, {c}, Cids) PROVE z \in T
    BY <1>2, <2>1, <2>2 DEF Below, Reach, Closed
  <2> QED
    BY <2>1, <2>2 DEF Below, Reach
<1> QED
  BY <1>1, <1>2 DEF Below, Reach

\* A closed set that has c has all that is under c.
LEMMA BelowLeast ==
    ASSUME NEW c \in Cids, NEW T \in SUBSET Cids, c \in T, \A y \in T : Links[y] \subseteq T
    PROVE  Below(c) \subseteq T
BY DEF Below, Reach, Closed

\* More dependencies do not harm.
LEMMA CoverGrows ==
    ASSUME NEW k, NEW r, NEW d, NEW e, d \subseteq e
    PROVE  /\ Complete(r, d) => Complete(r, e)
           /\ Covering(k, r, d) => Covering(k, r, e)
BY DEF Complete, Covering

\* A mark_recursive_pins with nothing left to visit has completed the dependencies.
LEMMA CoverDone ==
    ASSUME NEW k, NEW r \in Cids, NEW d \in SUBSET Cids, Covering(k, r, d), k.at = "visit", k.toVisit = {}
    PROVE  Complete(r, d)
<1> DEFINE T == k.visited \cap (d \cup {r})
<1>1. T \in SUBSET Cids /\ r \in T
  BY DEF Covering
<1>2. Pending(k) = {}
  BY DEF Covering, Pending
<1>3. \A y \in T : Links[y] \subseteq T
  BY <1>2 DEF Covering
<1>4. Below(r) \subseteq T
  BY <1>1, <1>3, BelowLeast
<1> QED
  BY <1>4 DEF Complete

\* A thread that moves on, when what remains recursively pinned was and loses no
\* dependency.
LEMMA CoverMove ==
    ASSUME Covers, call \in [Threads -> Calls], NEW t \in Threads, NEW k, call' = [call EXCEPT ![t] = k],
           \A r \in Cids : pins'[r] = "Recursive" => pins[r] = "Recursive" /\ deps[r] \subseteq deps'[r],
           gaps \subseteq gaps',
           \A r \in Cids \ gaps' : pins'[r] = "Recursive" /\ Covering(call[t], r, deps[r])
               => Complete(r, deps'[r]) \/ Covering(k, r, deps'[r])
    PROVE  Covers'
<1> SUFFICES ASSUME NEW r \in Cids \ gaps', pins'[r] = "Recursive"
             PROVE  Complete(r, deps'[r]) \/ \E u \in Threads : Covering(call'[u], r, deps'[r])
  BY DEF Covers
<1>1. CASE Complete(r, deps[r])
  BY <1>1, CoverGrows
<1>2. CASE Covering(call[t], r, deps[r])
  <2>1. Complete(r, deps'[r]) \/ Covering(k, r, deps'[r])
    BY <1>2
  <2> QED
    BY <2>1
<1>3. ASSUME NEW u \in Threads, u # t, Covering(call[u], r, deps[r])
      PROVE  \E v \in Threads : Covering(call'[v], r, deps'[r])
  <2>1. Covering(call[u], r, deps'[r]) /\ call'[u] = call[u]
    BY <1>3, CoverGrows
  <2> QED
    BY <2>1
<1> QED
  BY <1>1, <1>2, <1>3 DEF Covers

\* A call that is not a mark_recursive_pins completes nothing.
LEMMA NotCovering ==
    ASSUME NEW k, k.at \notin {"visit", "link", "linkDeps"}
    PROVE  \A r, d : ~ Covering(k, r, d)
BY DEF Covering, Markings

\* A call that begins, and the calls that only leave the pins.
LEMMA CoverStart ==
    ASSUME NInv, Covers, NEW t \in Threads, Start(t)
    PROVE  Covers'
<1> USE DEF NInv
<1>1. ASSUME NEW c \in Cids, NEW kind \in {"Direct", "Recursive"}, PinAdd(t, c, kind)
      PROVE  Covers'
  <2>1. /\ At(t, "idle") /\ call' = [call EXCEPT ![t] = call'[t]]
        /\ pins' = pins /\ deps' = deps /\ gaps' = gaps
    BY <1>1 DEF PinAdd, Begin, Goto, NTypeOK, maps
  <2>2. \A r, d : ~ Covering(call[t], r, d)
    BY <2>1, NotCovering DEF At
  <2> QED
    BY <2>1, <2>2, CoverMove DEF NTypeOK
<1>2. ASSUME NEW c \in Cids, Unpin(t, c) PROVE Covers'
  <2> DEFINE k == IF pins[c] = "Recursive" THEN [at |-> "unpinDeps", root |-> c] ELSE call[t]
  <2>1. At(t, "idle") /\ call' = [call EXCEPT ![t] = k] /\ deps' = deps /\ gaps' = gaps
    BY <1>2 DEF Unpin, Begin, Goto, NTypeOK
  <2>2. \A r, d : ~ Covering(call[t], r, d)
    BY <2>1, NotCovering DEF At
  <2>3. \A r \in Cids : pins'[r] = "Recursive" => pins[r] = "Recursive"
    BY <1>2 DEF Unpin, NTypeOK
  <2> QED
    BY <2>1, <2>2, <2>3, CoverMove DEF NTypeOK
<1>3. ASSUME NEW c \in Cids, Put(t, c) PROVE Covers'
  BY <1>3 DEF Put, maps, Covers
<1>4. CASE Clear(t)
  BY <1>4 DEF Clear, Covers
<1> QED
  BY <1>1, <1>2, <1>3, <1>4 DEF Start

\* PinManager::pin: a recursive pin is covered by the call that made it.
LEMMA CoverPin ==
    ASSUME NInv, Covers, NEW t \in Threads, Pin(t)
    PROVE  Covers'
<1> DEFINE k == IF call[t].kind = "Recursive" THEN Marking(call[t].root) ELSE Idle
<1>1. /\ call[t].root \in Cids /\ call' = [call EXCEPT ![t] = k]
      /\ pins' = [pins EXCEPT ![call[t].root] = call[t].kind] /\ deps' = deps
      /\ gaps' \in {gaps, gaps \ {call[t].root}}
      /\ call \in [Threads -> Calls] /\ pins \in [Cids -> {"Direct", "Recursive", "none"}]
  BY CallAt DEF NInv, NTypeOK, Pin, At, Goto, Return
<1>2. \A r, d : ~ Covering(call[t], r, d)
  BY NotCovering DEF Pin, At
<1>3. ASSUME call[t].kind = "Recursive", NEW d PROVE Covering(k, call[t].root, d)
  BY <1>1, <1>3 DEF Covering, Marking, Markings, Pending
<1> HIDE DEF k
<1> SUFFICES ASSUME NEW r \in Cids \ gaps', pins'[r] = "Recursive"
             PROVE  Complete(r, deps'[r]) \/ \E u \in Threads : Covering(call'[u], r, deps'[r])
  BY DEF Covers
<1>4. CASE r = call[t].root
  <2>1. Covering(k, r, deps[r]) /\ call'[t] = k
    BY <1>1, <1>3, <1>4
  <2> QED
    BY <1>1, <2>1
<1>5. CASE r # call[t].root
  <2>1. pins[r] = "Recursive" /\ r \notin gaps
    BY <1>1, <1>5
  <2>2. ASSUME NEW u \in Threads, Covering(call[u], r, deps[r]) PROVE u # t /\ call'[u] = call[u]
    BY <1>1, <1>2, <2>2
  <2> QED
    BY <1>1, <2>1, <2>2 DEF Covers
<1> QED
  BY <1>4, <1>5

\* mark_recursive_pins finds the block it reads, and has its links to record.
LEMMA CoverVisit ==
    ASSUME NInv, Covers, NEW t \in Threads, NEW c \in store, c \in Cids, Visit(t, c)
    PROVE  Covers'
<1> DEFINE k == [call[t] EXCEPT !.at = IF Links[c] = {} THEN "visit" ELSE "link",
                                !.visited = @ \cup {c},
                                !.toVisit = (@ \cup Links[c]) \ (call[t].visited \cup {c}),
                                !.links = Links[c]]
<1>1. call[t] \in Markings /\ call \in [Threads -> Calls] /\ call[t].at = "visit" /\ c \in call[t].toVisit
  BY CallAt DEF NInv, NTypeOK, Visit, At
<1>2. call' = [call EXCEPT ![t] = k] /\ pins' = pins /\ deps' = deps /\ gaps' = gaps
  BY DEF Visit, Goto, maps
<1>3. /\ k \in Markings /\ k.root = call[t].root /\ k.visited = call[t].visited \cup {c}
      /\ k.toVisit = (call[t].toVisit \cup Links[c]) \ (call[t].visited \cup {c})
      /\ k.links = Links[c] /\ k.at \in {"visit", "link"} /\ (k.at = "visit" => Links[c] = {})
  BY <1>1, PinsAssumption DEF Markings
<1> HIDE DEF k
<1>4. ASSUME NEW r \in Cids, Covering(call[t], r, deps[r]) PROVE Covering(k, r, deps[r])
  <2>1. Pending(call[t]) = {} /\ Pending(k) = Links[c]
    BY <1>1, <1>3, <1>4 DEF Covering, Pending
  <2> QED
    BY <1>1, <1>3, <1>4, <2>1 DEF Covering
<1> QED
  BY <1>1, <1>2, <1>4, CoverMove

\* A call that passes a block over, or fails to read it, leaves its root with a gap.
LEMMA CoverGap ==
    ASSUME NInv, Covers, NEW t \in Threads, NEW c \in Cids,
           VisitFails(t) \/ (Visit(t, c) /\ c \notin store)
    PROVE  Covers'
<1>1. call \in [Threads -> Calls]
  BY DEF NInv, NTypeOK
<1>2. /\ call' = [call EXCEPT ![t] = call'[t]] /\ pins' = pins /\ deps' = deps
      /\ gaps' = gaps \cup {call[t].root}
  BY <1>1 DEF VisitFails, Visit, Return, Goto, maps
<1>3. \A r \in Cids \ gaps' : ~ Covering(call[t], r, deps[r])
  BY <1>2 DEF Covering
<1> QED
  BY <1>1, <1>2, <1>3, CoverMove

LEMMA CoverAdd ==
    ASSUME NInv, Covers, NEW t \in Threads, NEW c \in Cids, AddIndirect(t, c)
    PROVE  Covers'
<1> DEFINE k == [call[t] EXCEPT !.at = "linkDeps", !.links = @ \ {c}, !.link = c]
<1>1. call[t] \in Markings /\ call \in [Threads -> Calls] /\ call[t].at = "link" /\ c \in call[t].links
  BY CallAt DEF NInv, NTypeOK, AddIndirect, At
<1>2. call' = [call EXCEPT ![t] = k] /\ pins' = pins /\ deps' = deps /\ gaps' = gaps
  BY DEF AddIndirect, Goto
<1>3. /\ k \in Markings /\ k.root = call[t].root /\ k.visited = call[t].visited
      /\ k.toVisit = call[t].toVisit /\ k.links = call[t].links \ {c} /\ k.at = "linkDeps" /\ k.link = c
  BY <1>1 DEF Markings
<1> HIDE DEF k
<1>4. Pending(k) = Pending(call[t])
  BY <1>1, <1>3 DEF Pending
<1>5. ASSUME NEW r \in Cids, Covering(call[t], r, deps[r]) PROVE Covering(k, r, deps[r])
  BY <1>3, <1>4, <1>5 DEF Covering
<1> QED
  BY <1>1, <1>2, <1>5, CoverMove

LEMMA CoverAddDep ==
    ASSUME NInv, Covers, NEW t \in Threads, AddDep(t)
    PROVE  Covers'
<1> DEFINE k == [call[t] EXCEPT !.at = IF call[t].links = {} THEN "visit" ELSE "link"]
<1>1. call[t] \in Markings /\ call \in [Threads -> Calls] /\ call[t].at = "linkDeps"
  BY CallAt DEF NInv, NTypeOK, AddDep, At
<1>2. call' = [call EXCEPT ![t] = k] /\ pins' = pins /\ gaps' = gaps
  BY DEF AddDep, Goto
<1>3. /\ k \in Markings /\ k.root = call[t].root /\ k.visited = call[t].visited
      /\ k.toVisit = call[t].toVisit /\ k.links = call[t].links /\ k.at \in {"visit", "link"}
      /\ k.at = "visit" => call[t].links = {}
  BY <1>1 DEF Markings
<1>4. call[t].root \in Cids
  BY <1>1 DEF Markings
<1>5. /\ \A r \in Cids : deps[r] \subseteq deps'[r]
      /\ deps'[call[t].root] = deps[call[t].root] \cup {call[t].link}
  BY <1>4 DEF AddDep, NInv, NTypeOK
<1> HIDE DEF k
<1>6. ASSUME NEW r \in Cids, Covering(call[t], r, deps[r]) PROVE Covering(k, r, deps'[r])
  <2>1. r = call[t].root /\ deps[r] \cup Pending(call[t]) = deps'[r] \cup Pending(k)
    BY <1>1, <1>3, <1>5, <1>6 DEF Covering, Pending
  <2> QED
    BY <1>3, <1>6, <2>1 DEF Covering
<1> QED
  BY <1>1, <1>2, <1>5, <1>6, CoverMove

LEMMA CoverContinue ==
    ASSUME NInv, HoldInv, Covers, NEW t \in Threads, Continue(t)
    PROVE  Covers'
<1>0. call \in [Threads -> Calls] /\ deps \in [Cids -> SUBSET Cids]
  BY DEF NInv, NTypeOK
<1>1. CASE VisitDone(t)
  <2>1. call' = [call EXCEPT ![t] = Idle] /\ pins' = pins /\ deps' = deps /\ gaps' = gaps
    BY <1>1 DEF VisitDone, Return, Goto, maps
  <2>2. ASSUME NEW r \in Cids, Covering(call[t], r, deps[r]) PROVE Complete(r, deps[r])
    BY <1>0, <1>1, <2>2, CoverDone DEF VisitDone, At
  <2> QED
    BY <1>0, <2>1, <2>2, CoverMove
<1>2. CASE UnpinDeps(t)
  <2> DEFINE removed == deps[call[t].root]
             k == IF removed = {} THEN Idle ELSE [at |-> "unpinIndirect", removed |-> removed]
  <2>1. /\ call' = [call EXCEPT ![t] = k] /\ pins' = pins /\ gaps' = gaps
        /\ call[t].at = "unpinDeps"
    BY <1>2 DEF UnpinDeps, Return, Goto, At
  <2> HIDE DEF k, removed
  <2>2. \A r, d : ~ Covering(call[t], r, d)
    BY <2>1, NotCovering
  <2>3. pins[call[t].root] = "none" /\ call[t].root \in Cids
    BY <1>0, <2>1, CallAt DEF HoldInv, HoldOK
  <2>4. \A r \in Cids : r # call[t].root => deps'[r] = deps[r]
    BY <1>0, <1>2 DEF UnpinDeps
  <2> QED
    BY <1>0, <2>1, <2>2, <2>3, <2>4, CoverMove
<1>3. CASE UnpinIndirect(t)
  <2>1. /\ call' = [call EXCEPT ![t] = Idle] /\ pins' = pins /\ deps' = deps /\ gaps' = gaps
        /\ call[t].at = "unpinIndirect"
    BY <1>3 DEF UnpinIndirect, Return, Goto, At
  <2>2. \A r, d : ~ Covering(call[t], r, d)
    BY <2>1, NotCovering
  <2> QED
    BY <1>0, <2>1, <2>2, CoverMove
<1>4. CASE ClearIndirect(t) \/ ClearDeps(t)
  <2>1. pins' = pins /\ call[t].at \in {"clearIndirect", "clearDeps"}
    BY <1>4 DEF ClearIndirect, ClearDeps, At
  <2> QED
    BY <2>1 DEF HoldInv, HoldOK, Covers
<1>5. ASSUME VisitFails(t) PROVE Covers'
  <2>1. call[t].root \in Cids
    BY <1>0, <1>5, CallAt DEF VisitFails, At, Markings
  <2> QED BY <1>5, <2>1, CoverGap
<1>6. ASSUME NEW c \in Cids, Visit(t, c) PROVE Covers'
  BY <1>6, CoverVisit, CoverGap
<1> QED
  BY <1>1, <1>2, <1>3, <1>4, <1>5, <1>6, CoverPin, CoverAdd, CoverAddDep DEF Continue

\* The pins change only when their lock is free.
LEMMA HoldMove ==
    ASSUME HoldInv, call \in [Threads -> Calls], NEW t \in Threads, NEW k,
           call' = [call EXCEPT ![t] = k], HoldOK(k, pins'), pins' = pins \/ PinsFree
    PROVE  HoldInv'
<1> SUFFICES ASSUME NEW u \in Threads PROVE HoldOK(call'[u], pins')
  BY DEF HoldInv
<1>1. CASE u = t
  BY <1>1
<1>2. CASE u # t /\ pins' = pins
  BY <1>2 DEF HoldInv
<1>3. CASE u # t /\ PinsFree
  BY <1>3 DEF PinsFree, HoldsPins, HoldOK
<1> QED
  BY <1>1, <1>2, <1>3

LEMMA HoldStep ==
    ASSUME NInv, HoldInv, NNext
    PROVE  HoldInv'
<1>0. /\ call \in [Threads -> Calls] /\ deps \in [Cids -> SUBSET Cids]
      /\ pins \in [Cids -> {"Direct", "Recursive", "none"}]
  BY DEF NInv, NTypeOK
<1>1. PICK t \in Threads : Start(t) \/ Continue(t)
  BY DEF NNext
<1>2. ASSUME NEW c \in Cids, NEW kind \in {"Direct", "Recursive"}, PinAdd(t, c, kind)
      PROVE  HoldInv'
  <2>1. PICK k \in {[at |-> "pin", root |-> c, kind |-> kind], call[t]} :
          call[t].at = "idle" /\ call' = [call EXCEPT ![t] = k] /\ pins' = pins
    BY <1>0, <1>2 DEF PinAdd, Begin, Goto, At, maps
  <2>2. HoldOK(k, pins')
    BY <2>1 DEF HoldOK
  <2> QED
    BY <1>0, <2>1, <2>2, HoldMove
<1>3. ASSUME NEW c \in Cids, Unpin(t, c) PROVE HoldInv'
  <2> DEFINE k == IF pins[c] = "Recursive" THEN [at |-> "unpinDeps", root |-> c] ELSE call[t]
  <2>1. call[t].at = "idle" /\ call' = [call EXCEPT ![t] = k] /\ PinsFree
    BY <1>0, <1>3 DEF Unpin, Begin, Goto, At
  <2>2. HoldOK(k, pins')
    BY <1>0, <1>3, <2>1 DEF HoldOK, Unpin
  <2> QED
    BY <1>0, <2>1, <2>2, HoldMove
<1>4. ASSUME NEW c \in Cids, Put(t, c) PROVE HoldInv'
  BY <1>4 DEF Put, maps, HoldInv, HoldOK
<1>5. CASE Clear(t)
  <2> DEFINE k == [at |-> "clearIndirect"]
  <2>1. call' = [call EXCEPT ![t] = k] /\ PinsFree /\ HoldOK(k, pins')
    BY <1>5 DEF Clear, Goto, HoldOK
  <2> QED
    BY <1>0, <2>1, HoldMove
<1>6. CASE Pin(t)
  <2> DEFINE k == IF call[t].kind = "Recursive" THEN Marking(call[t].root) ELSE Idle
  <2>1. call' = [call EXCEPT ![t] = k] /\ PinsFree /\ k.at \in {"visit", "idle"}
    BY <1>6 DEF Pin, Goto, Return, Marking, Idle
  <2>2. HoldOK(k, pins')
    BY <2>1 DEF HoldOK
  <2> QED
    BY <1>0, <2>1, <2>2, HoldMove
<1>7. CASE VisitDone(t) \/ VisitFails(t) \/ UnpinIndirect(t) \/ ClearDeps(t)
  <2>1. call' = [call EXCEPT ![t] = Idle] /\ pins' = pins /\ HoldOK(Idle, pins')
    BY <1>7 DEF VisitDone, VisitFails, UnpinIndirect, ClearDeps, Return, Goto, maps, Idle, HoldOK
  <2> QED
    BY <1>0, <2>1, HoldMove
<1>8. ASSUME NEW c \in Cids, Visit(t, c) \/ AddIndirect(t, c) \/ AddDep(t) PROVE HoldInv'
  <2>1. call[t] \in Markings /\ pins' = pins
    BY <1>0, <1>8, CallAt DEF Visit, AddIndirect, AddDep, At, maps
  <2>2. call' = [call EXCEPT ![t] = call'[t]] /\ call'[t].at \in {"visit", "link", "linkDeps"}
    <3>1. CASE Visit(t, c)
      BY <1>0, <2>1, <3>1 DEF Visit, Goto, Markings
    <3>2. CASE AddIndirect(t, c)
      BY <1>0, <2>1, <3>2 DEF AddIndirect, Goto, Markings
    <3>3. CASE AddDep(t)
      BY <1>0, <2>1, <3>3 DEF AddDep, Goto, Markings
    <3> QED
      BY <1>8, <3>1, <3>2, <3>3
  <2>3. HoldOK(call'[t], pins')
    BY <2>2 DEF HoldOK
  <2> QED
    BY <1>0, <2>1, <2>2, <2>3, HoldMove
<1>9. CASE AddDep(t)
  <2>1. call[t] \in Markings /\ pins' = pins
    BY <1>0, <1>9, CallAt DEF AddDep, At
  <2>2. call[t].root \in Cids
    BY <2>1 DEF Markings
  <2> QED
    BY <1>8, <1>9, <2>2
<1>10. CASE UnpinDeps(t)
  <2> DEFINE removed == deps[call[t].root]
             k == IF removed = {} THEN Idle ELSE [at |-> "unpinIndirect", removed |-> removed]
  <2>1. call' = [call EXCEPT ![t] = k] /\ pins' = pins
    BY <1>10 DEF UnpinDeps, Return, Goto
  <2>2. HoldOK(k, pins')
    BY DEF HoldOK, Idle
  <2> QED
    BY <1>0, <2>1, <2>2, HoldMove
<1>11. CASE ClearIndirect(t)
  <2> DEFINE k == [at |-> "clearDeps"]
  <2>1. call' = [call EXCEPT ![t] = k] /\ pins' = pins /\ HoldOK(k, pins')
    BY <1>11 DEF ClearIndirect, Goto, HoldOK, HoldInv, At
  <2> QED
    BY <1>0, <2>1, HoldMove
<1> QED
  BY <1>1, <1>2, <1>3, <1>4, <1>5, <1>6, <1>7, <1>8, <1>9, <1>10, <1>11 DEF Start, Continue

\* A call keeps all the recursive pins covered that have no gap.
LEMMA CoverStep ==
    ASSUME NInv, HoldInv, Covers, NNext
    PROVE  Covers'
BY CoverStart, CoverContinue DEF NNext

\* When no call is in progress, complete dependencies are indirect pins.
LEMMA CoversAll ==
    ASSUME NInv, Covers
    PROVE  RecursiveCovered
<1> SUFFICES ASSUME \A t \in Threads : At(t, "idle"), NEW r \in Cids \ gaps, pins[r] = "Recursive",
                    NEW c \in Reach({r}, Cids)
             PROVE  c \in indirect \/ pins[c] # "none"
  BY DEF RecursiveCovered
<1>1. \A t \in Threads : ~ Covering(call[t], r, deps[r])
  BY NotCovering DEF At
<1>2. Complete(r, deps[r])
  BY <1>1 DEF Covers
<1>3. c \in Cids /\ (c \in deps[r] \/ c = r)
  BY <1>2 DEF Complete, Below, Reach
<1>4. CASE c \in deps[r]
  BY <1>3, <1>4 DEF NInv, AgreeInv, Needed, At
<1> QED
  BY <1>3, <1>4

CInv == NInv /\ HoldInv /\ Covers

\* Every CID under a recursive pin is itself pinned whenever no call is in progress,
\* unless the pin met a block that was missing or could not be read: for every DAG and
\* any number of threads that pin, unpin and clear meanwhile (pin_add and
\* mark_recursive_pins, pin_ops.rs).
THEOREM RecursivePinsCover == NSpec => []RecursiveCovered
<1>1. NInit => CInv
  <2> SUFFICES ASSUME NInit PROVE CInv
    OBVIOUS
  <2>1. NInv
    BY PinsAssumption DEF NInit, NInv, NTypeOK, LocksExclusive, HoldsPins, HoldsDeps, HoldsIndirect,
                          AgreeInv, Needed, At, Idle, Calls
  <2>2. HoldInv /\ Covers
    BY DEF NInit, HoldInv, HoldOK, Covers, Idle
  <2> QED
    BY <2>1, <2>2 DEF CInv
<1>2. CInv /\ [NNext]_nvars => CInv'
  <2> SUFFICES ASSUME CInv, [NNext]_nvars PROVE CInv'
    OBVIOUS
  <2>1. NInv'
    BY NInvStep DEF CInv
  <2>2. CASE NNext
    BY <2>1, <2>2, HoldStep, CoverStep DEF CInv
  <2>3. CASE UNCHANGED nvars
    BY <2>1, <2>3 DEF nvars, maps, CInv, HoldInv, HoldOK, Covers, Complete, Covering, Pending
  <2> QED
    BY <2>2, <2>3
<1>3. CInv => RecursiveCovered
  BY CoversAll DEF CInv
<1> QED
  BY <1>1, <1>2, <1>3, PTL DEF NSpec

--------------------------------------------------------------------------------
(* The node with its owner: saves, loads and crashes                            *)

Kinds == {"Direct", "Recursive", "none"}

\* The values the owner's state takes.
OwnerType ==
    /\ file \in {Torn} \cup [Cids -> Kinds]
    /\ save.at \in {"idle", "write"} /\ save.sound \in SUBSET Cids
    /\ save.at = "write" => save.index \in [Cids -> Kinds]
    /\ save = [at |-> save.at, index |-> save.index, sound |-> save.sound]
    /\ durable \in SUBSET Cids

\* The pins that are promised something, also by a save under way.
Promised == durable \cup save.sound

\* What is promised is in memory, or on its way there from the file.
PromiseInv ==
    /\ save.at = "idle" => save.sound = {}
    /\ save.at = "write" => ready /\ \A c \in save.sound : save.index[c] # "none"
    /\ file # Torn => \A c \in durable : file[c] # "none"
    /\ ~ ready /\ file = Torn => durable = {}
    /\ ready => Promised \subseteq Pinned

\* Its blocks are stored, and a collection under way began with them.
BlocksInv ==
    \A c \in Promised :
        /\ Below(c) \subseteq store
        /\ ~ GcAt("idle") => c \in gc.roots /\ Below(c) \subseteq gc.blocks

RInv ==
    /\ NInv /\ GInv /\ HoldInv
    /\ ~ loaded => Covers
    /\ OwnerType /\ PromiseInv /\ BlocksInv

\* What is under a root of a collection, and stored when it began, was reachable.
LEMMA BelowReached ==
    ASSUME NEW c \in Cids, NEW R, NEW B, c \in R, Below(c) \subseteq B
    PROVE  Below(c) \subseteq Reach(R, B) \cap B
<1> SUFFICES ASSUME NEW x \in Below(c), NEW T \in SUBSET Cids, Closed(T, R, B)
             PROVE  x \in T
  BY BelowClosed DEF Reach
<1> DEFINE U == T \cap Below(c)
<1>1. U \in SUBSET Cids /\ c \in U
  BY BelowClosed DEF Closed
<1>2. ASSUME NEW y \in U PROVE Links[y] \subseteq U
  <2>1. y \in T \cap B
    OBVIOUS
  <2>2. Links[y] \subseteq T
    BY <2>1 DEF Closed
  <2>3. Links[y] \subseteq Below(c)
    BY BelowClosed
  <2> QED
    BY <2>2, <2>3
<1>3. Below(c) \subseteq U
  BY <1>1, <1>2, BelowLeast
<1> QED
  BY <1>3

\* A step of the collector leaves the pins alone.
LEMMA GcLeavesPins ==
    ASSUME GcStep
    PROVE  UNCHANGED <<pins, indirect, deps, call, calls, gaps>>
BY DEF GcStep, GcStart, GcMark, GcList, GcSweep, GcEnd, GcFails, nvars, maps

\* The pins over a step of the node without its owner.
LEMMA NodeKeeps ==
    ASSUME NInv, GInv, HoldInv, ~ loaded => Covers, GNext, loaded' = loaded
    PROVE  NInv' /\ GInv' /\ HoldInv' /\ (~ loaded' => Covers')
<1>1. GInv'
  BY GInvStep
<1>2. CASE NNext
  BY <1>1, <1>2, HoldStep, NInvStep, CoverStep
<1>3. CASE GcStep
  <2>1. UNCHANGED <<pins, indirect, deps, call, calls, gaps>>
    BY <1>3, GcLeavesPins
  <2>2. NInv'
    BY <1>1, <2>1 DEF NInv, NTypeOK, LocksExclusive, HoldsPins, HoldsDeps, HoldsIndirect,
                      AgreeInv, Needed, At, GInv, GTypeOK
  <2>3. HoldInv' /\ (Covers => Covers')
    BY <2>1 DEF HoldInv, HoldOK, Covers
  <2> QED
    BY <1>1, <2>2, <2>3
<1> QED
  BY <1>2, <1>3 DEF GNext

\* A collection keeps the pins and the blocks it began with.
LEMMA GcBegan ==
    ASSUME GTypeOK, GNext
    PROVE  \/ GcAt("idle")'
           \/ gcs' # gcs /\ gc'.roots = Pinned /\ gc'.blocks = store
           \/ ~ GcAt("idle") /\ gc'.roots = gc.roots /\ gc'.blocks = gc.blocks
<1>1. CASE UNCHANGED <<gc, gcs>>
  BY <1>1 DEF GcAt
<1>2. ASSUME NEW max \in MaxBlocks, NEW dry \in BOOLEAN, GcStart(max, dry)
      PROVE  gcs' # gcs /\ gc'.roots = Pinned /\ gc'.blocks = store
  BY <1>2, GcAssumption DEF GcStart, GTypeOK
<1>3. ASSUME NEW c \in Cids, GcMark(c)
      PROVE  ~ GcAt("idle") /\ gc'.roots = gc.roots /\ gc'.blocks = gc.blocks
  BY <1>3 DEF GcMark, GcAt, GTypeOK, Collections, NoGc
<1>4. ASSUME NEW c \in Cids, GcSweep(c)
      PROVE  ~ GcAt("idle") /\ gc'.roots = gc.roots /\ gc'.blocks = gc.blocks
  BY <1>4 DEF GcSweep, GcAt, GTypeOK, Collections, NoGc
<1>5. ASSUME GcList
      PROVE  ~ GcAt("idle") /\ gc'.roots = gc.roots /\ gc'.blocks = gc.blocks
  BY <1>5 DEF GcList, GcAt, GTypeOK, Collections, NoGc
<1>6. ASSUME GcEnd \/ GcFails PROVE GcAt("idle")'
  BY <1>6 DEF GcEnd, GcFails, GcAt, NoGc
<1> QED
  BY <1>1, <1>2, <1>3, <1>4, <1>5, <1>6 DEF GNext, GcStep

\* The store loses a block only in a sweep, and the collection it belongs to goes on.
LEMMA StoreLoses ==
    ASSUME GTypeOK, GNext
    PROVE  store \subseteq store' \/ (~ GcAt("idle") /\ ~ GcAt("idle")')
<1>1. CASE NNext
  BY <1>1, CallsKeepBlocks DEF GTypeOK
<1>2. ASSUME NEW c \in Cids, GcSweep(c) PROVE ~ GcAt("idle") /\ ~ GcAt("idle")'
  BY <1>2 DEF GcSweep, GcAt, GTypeOK, Collections, NoGc
<1>3. CASE UNCHANGED nvars
  BY <1>3 DEF nvars
<1>4. ASSUME NEW c \in Cids, GcMark(c) PROVE UNCHANGED nvars
  BY <1>4 DEF GcMark
<1>5. ASSUME NEW max \in MaxBlocks, NEW dry \in BOOLEAN, GcStart(max, dry) PROVE UNCHANGED nvars
  BY <1>5 DEF GcStart
<1>6. ASSUME GcList \/ GcEnd \/ GcFails PROVE UNCHANGED nvars
  BY <1>6 DEF GcList, GcEnd, GcFails
<1> QED
  BY <1>1, <1>2, <1>3, <1>4, <1>5, <1>6 DEF GNext, GcStep

LEMMA NodeStepKeeps ==
    ASSUME RInv, NodeStep
    PROVE  RInv'
<1> DEFINE gone == {c \in Pinned : pins'[c] = "none"}
<1>1. /\ GNext /\ (ready \/ gcs' = gcs) /\ file' = file /\ ready' = ready /\ loaded' = loaded
      /\ durable' = durable \ gone /\ save' = [save EXCEPT !.sound = @ \ gone]
  BY DEF NodeStep
<1>2. /\ NInv /\ GInv /\ HoldInv /\ OwnerType /\ PromiseInv /\ BlocksInv
      /\ ~ loaded => Covers
  BY DEF RInv
<1>3. NInv' /\ GInv' /\ HoldInv' /\ (~ loaded' => Covers')
  BY <1>1, <1>2, NodeKeeps
<1>4. /\ save'.at = save.at /\ save'.index = save.index /\ save'.sound = save.sound \ gone
      /\ save' = [at |-> save'.at, index |-> save'.index, sound |-> save'.sound]
  BY <1>1, <1>2 DEF OwnerType
<1>5. OwnerType'
  BY <1>1, <1>2, <1>4 DEF OwnerType, Torn
<1>6. Promised' = Promised \ gone
  BY <1>1, <1>4 DEF Promised
<1>7. PromiseInv'
  <2>1. ready => Promised' \subseteq Pinned'
    BY <1>2, <1>6 DEF PromiseInv, Pinned
  <2> QED
    BY <1>1, <1>2, <1>4, <2>1 DEF PromiseInv, Torn
<1>8. ASSUME NEW c \in Promised'
      PROVE  /\ Below(c) \subseteq store'
             /\ ~ GcAt("idle")' => c \in gc'.roots /\ Below(c) \subseteq gc'.blocks
  <2>1. /\ c \in Promised /\ c \in Cids /\ Below(c) \subseteq store
        /\ ~ GcAt("idle") => c \in gc.roots /\ Below(c) \subseteq gc.blocks
    BY <1>2, <1>6, <1>8 DEF BlocksInv, OwnerType, Promised
  <2>2. gcs' # gcs => c \in Pinned
    BY <1>1, <1>2, <2>1 DEF PromiseInv
  <2>3. ~ GcAt("idle")' => c \in gc'.roots /\ Below(c) \subseteq gc'.blocks
    BY <1>1, <1>2, <2>1, <2>2, GcBegan DEF GInv
  <2>4. store \subseteq store' \/ ~ GcAt("idle")'
    BY <1>1, <1>2, StoreLoses DEF GInv
  <2>5. CASE ~ GcAt("idle")'
    <3>1. Below(c) \subseteq Reach(gc'.roots, gc'.blocks) \cap gc'.blocks
      BY <2>1, <2>3, <2>5, BelowReached
    <3>2. ReachableSurvives'
      BY <1>3, Survives, PTL
    <3> QED
      BY <2>3, <2>5, <3>1, <3>2 DEF ReachableSurvives
  <2> QED
    BY <2>1, <2>3, <2>4, <2>5
<1>9. BlocksInv'
  BY <1>8 DEF BlocksInv
<1> QED
  BY <1>3, <1>5, <1>7, <1>9 DEF RInv

LEMMA SaveReadKeeps ==
    ASSUME RInv, SaveRead
    PROVE  RInv'
<1>1. /\ save.at = "idle" /\ ready /\ UNCHANGED <<gvars, file, ready, durable, loaded>>
      /\ save' = [at |-> "write", index |-> pins, sound |-> Sound]
  BY DEF SaveRead
<1>2. /\ NInv /\ GInv /\ HoldInv /\ OwnerType /\ PromiseInv /\ BlocksInv
      /\ ~ loaded => Covers
  BY DEF RInv
<1>3. UNCHANGED gvars /\ UNCHANGED nvars /\ gc' = gc /\ store' = store /\ pins' = pins
  BY <1>1 DEF gvars, nvars, maps
<1>4. NInv' /\ GInv' /\ HoldInv' /\ (~ loaded' => Covers')
  <2>1. NInv' /\ GInv'
    BY <1>2, <1>3, NInvStep, GInvStep
  <2> QED
    BY <1>1, <1>2, <1>3, <2>1 DEF nvars, maps, HoldInv, HoldOK, Covers
<1>5. Promised = durable /\ Promised' = durable \cup Sound /\ Promised' \subseteq Pinned
  BY <1>1, <1>2 DEF Promised, PromiseInv, Sound
<1>6. OwnerType'
  BY <1>1, <1>2 DEF OwnerType, Sound, Pinned, Torn, Kinds, NInv, NTypeOK
<1>7. PromiseInv'
  BY <1>1, <1>2, <1>3, <1>5 DEF PromiseInv, Sound, Pinned, Torn
<1>8. BlocksInv'
  BY <1>2, <1>3, <1>5 DEF BlocksInv, Sound, GcAt, Below
<1> QED
  BY <1>4, <1>6, <1>7, <1>8 DEF RInv

LEMMA SaveWriteKeeps ==
    ASSUME RInv, SaveWrite
    PROVE  RInv'
<1>1. /\ save.at = "write" /\ UNCHANGED <<gvars, ready, loaded>> /\ save' = NoSave
      /\ (file' = save.index /\ durable' = save.sound) \/ (file' = Torn /\ durable' = durable)
  BY DEF SaveWrite
<1>2. /\ NInv /\ GInv /\ HoldInv /\ OwnerType /\ PromiseInv /\ BlocksInv
      /\ ~ loaded => Covers
  BY DEF RInv
<1>3. UNCHANGED gvars /\ UNCHANGED nvars /\ gc' = gc /\ store' = store /\ pins' = pins
  BY <1>1 DEF gvars, nvars, maps
<1>4. NInv' /\ GInv' /\ HoldInv' /\ (~ loaded' => Covers')
  <2>1. NInv' /\ GInv'
    BY <1>2, <1>3, NInvStep, GInvStep
  <2> QED
    BY <1>1, <1>2, <1>3, <2>1 DEF nvars, maps, HoldInv, HoldOK, Covers
<1>5. Promised' = durable' /\ durable' \subseteq Promised /\ ready
  BY <1>1, <1>2 DEF Promised, PromiseInv, NoSave
<1>6. OwnerType'
  BY <1>1, <1>2 DEF OwnerType, NoSave, Torn
<1>7. PromiseInv'
  BY <1>1, <1>2, <1>3, <1>5 DEF PromiseInv, Pinned, NoSave, Torn
<1>8. BlocksInv'
  BY <1>2, <1>3, <1>5 DEF BlocksInv, GcAt, Below
<1> QED
  BY <1>4, <1>6, <1>7, <1>8 DEF RInv

LEMMA LoadKeeps ==
    ASSUME RInv, Load
    PROVE  RInv'
<1>1. /\ save.at = "idle" /\ PinsFree /\ ready' = TRUE /\ loaded' = TRUE
      /\ pins' = (IF file = Torn THEN pins ELSE file)
      /\ UNCHANGED <<store, indirect, deps, call, calls, gaps, gc, gcs, file, save, durable>>
  BY DEF Load
<1>2. NInv /\ GInv /\ OwnerType /\ PromiseInv /\ BlocksInv
  BY DEF RInv
<1>3. pins' \in [Cids -> {"Direct", "Recursive", "none"}]
  BY <1>1, <1>2 DEF NInv, NTypeOK, OwnerType, Kinds
<1>4. NInv'
  <2>1. NTypeOK'
    BY <1>1, <1>2, <1>3 DEF NInv, NTypeOK, LocksExclusive, HoldsPins, HoldsDeps, HoldsIndirect, At
  <2>2. AgreeInv'
    BY <1>1, <1>2 DEF NInv, AgreeInv, Needed, At
  <2> QED
    BY <2>1, <2>2 DEF NInv
<1>5. GInv'
  BY <1>1, <1>2 DEF GInv, GTypeOK, MarkInv, SweepInv, GcAt
<1>6. HoldInv'
  BY <1>1 DEF HoldInv, HoldOK, PinsFree, HoldsPins
<1>7. OwnerType'
  BY <1>1, <1>2 DEF OwnerType, Torn
<1>8. Promised = durable /\ Promised' = durable
  BY <1>1, <1>2 DEF Promised, PromiseInv
<1>9. Promised' \subseteq Pinned'
  <2>1. CASE file # Torn
    BY <1>1, <1>2, <1>8, <2>1 DEF PromiseInv, Pinned, OwnerType
  <2>2. CASE file = Torn
    BY <1>1, <1>2, <1>8, <2>2 DEF PromiseInv, Pinned
  <2> QED
    BY <2>1, <2>2
<1>10. PromiseInv'
  BY <1>1, <1>2, <1>9 DEF PromiseInv, Torn
<1>11. BlocksInv'
  BY <1>1, <1>2, <1>8 DEF BlocksInv, GcAt, Below
<1> QED
  BY <1>1, <1>4, <1>5, <1>6, <1>7, <1>10, <1>11 DEF RInv

LEMMA CrashKeeps ==
    ASSUME RInv, Crash
    PROVE  RInv'
<1>1. /\ pins' = [c \in Cids |-> "none"] /\ indirect' = {} /\ deps' = [c \in Cids |-> {}]
      /\ call' = [t \in Threads |-> Idle] /\ gc' = NoGc
      /\ file' \in {file} \cup (IF save.at = "write" THEN {Torn, save.index} ELSE {})
      /\ durable' = (IF file' = Torn THEN {} ELSE {c \in durable : file'[c] # "none"})
      /\ save' = NoSave /\ ready' = FALSE /\ gaps' = {} /\ UNCHANGED <<store, calls, gcs, loaded>>
  BY DEF Crash
<1>2. NInv /\ GInv /\ OwnerType /\ BlocksInv
  BY DEF RInv
<1>3. NInv'
  BY <1>1, <1>2 DEF NInv, NTypeOK, LocksExclusive, HoldsPins, HoldsDeps, HoldsIndirect,
                    AgreeInv, Needed, At, Idle, Calls
<1>4. GInv'
  BY <1>1, <1>2 DEF GInv, GTypeOK, MarkInv, SweepInv, GcAt, NoGc
<1>5. HoldInv' /\ Covers'
  BY <1>1, <1>2 DEF HoldInv, HoldOK, Covers, Idle
<1>6. OwnerType'
  BY <1>1, <1>2 DEF OwnerType, NoSave, Torn
<1>7. Promised' = durable' /\ durable' \subseteq durable /\ durable \subseteq Promised
  BY <1>1 DEF Promised, NoSave
<1>8. PromiseInv'
  BY <1>1 DEF PromiseInv, NoSave, Torn
<1>9. BlocksInv'
  BY <1>1, <1>2, <1>7 DEF BlocksInv, GcAt, NoGc, Below
<1> QED
  BY <1>3, <1>4, <1>5, <1>6, <1>8, <1>9 DEF RInv

LEMMA RInvHolds == RSpec => []RInv
<1>1. RInit => RInv
  <2> SUFFICES ASSUME RInit PROVE RInv
    OBVIOUS
  <2>1. GInv
    BY PinsAssumption, GcAssumption DEF RInit, GInit, NInit, GInv, GTypeOK, Collections, MarkInv,
                                        SweepInv, GcAt, NoGc
  <2>2. NInv
    BY PinsAssumption DEF RInit, GInit, NInit, NInv, NTypeOK, LocksExclusive, HoldsPins, HoldsDeps,
                          HoldsIndirect, AgreeInv, Needed, At, Idle, Calls
  <2>3. HoldInv /\ Covers
    BY DEF RInit, GInit, NInit, HoldInv, HoldOK, Covers, Idle
  <2>4. OwnerType /\ PromiseInv /\ BlocksInv
    BY DEF RInit, OwnerType, PromiseInv, BlocksInv, Promised, NoSave
  <2> QED
    BY <2>1, <2>2, <2>3, <2>4 DEF RInv
<1>2. RInv /\ [RNext]_rvars => RInv'
  <2> SUFFICES ASSUME RInv, UNCHANGED rvars PROVE RInv'
    BY NodeStepKeeps, SaveReadKeeps, SaveWriteKeeps, LoadKeeps, CrashKeeps DEF RNext
  <2>1. UNCHANGED gvars /\ UNCHANGED nvars /\ UNCHANGED owner
    BY DEF rvars, gvars
  <2>2. NInv' /\ GInv'
    BY <2>1, NInvStep, GInvStep DEF RInv
  <2>3. HoldInv' /\ (~ loaded' => Covers')
    BY <2>1 DEF RInv, nvars, maps, owner, HoldInv, HoldOK, Covers
  <2>4. OwnerType' /\ PromiseInv' /\ BlocksInv'
    BY <2>1 DEF RInv, gvars, nvars, maps, owner, OwnerType, PromiseInv, BlocksInv, Promised, Torn,
                Pinned, GcAt, Below
  <2> QED
    BY <2>2, <2>3, <2>4 DEF RInv
<1> QED
  BY <1>1, <1>2, PTL DEF RSpec

\* With saves, loads and crashes too, the node's state keeps its types, its locks have one
\* holder each, and a collection stays within its limit (pin.rs, gc.rs).
THEOREM NodeIsTyped == RSpec => [](NTypeOK /\ GTypeOK)
BY RInvHolds, PTL DEF RInv, NInv, GInv

\* The indirect pins are what the recursive roots depend on whenever no call is between two
\* of the maps, however often the pins are loaded and the node crashes (pin.rs).
THEOREM NodeIndirectAgree == RSpec => []IndirectIsUnion
<1>1. RInv => IndirectIsUnion
  BY DEF RInv, NInv, NTypeOK, AgreeInv, Needed, IndirectIsUnion, At
<1> QED
  BY <1>1, RInvHolds, PTL

\* A collection deletes nothing that was reachable from a pin when it began, also when pins
\* are loaded while it runs (collect, gc.rs; load, pin.rs).
THEOREM NodeCollectionIsSafe == RSpec => []ReachableSurvives
<1>1. RInv => ReachableSurvives
  BY Survives DEF RInv
<1> QED
  BY <1>1, RInvHolds, PTL

\* A pin that was saved protects its blocks until it is removed or the file is torn, whatever
\* is pinned, collected, saved and loaded and however often the node crashes (save and load,
\* pin.rs; collect, gc.rs).
THEOREM SavedPinsKeepBlocks == RSpec => []SavedPinsProtect
<1>1. RInv => SavedPinsProtect
  BY DEF RInv, BlocksInv, Promised, Below, SavedPinsProtect
<1> QED
  BY <1>1, RInvHolds, PTL

\* Until pins are loaded for the first time, all that is under a recursive pin is pinned
\* whenever no call is in progress and no block was ever missing (mark_recursive_pins,
\* pin_ops.rs; load, pin.rs).
THEOREM NodeCoveredUntilLoad == RSpec => []CoveredUntilLoad
<1>1. RInv => CoveredUntilLoad
  <2> SUFFICES ASSUME RInv, ~ loaded PROVE RecursiveCovered
    BY DEF CoveredUntilLoad
  <2> QED
    BY CoversAll DEF RInv
<1> QED
  BY <1>1, RInvHolds, PTL

================================================================================
