----------------------------- MODULE StorageProofs ------------------------------
(***************************************************************************)
(* Proofs about the pins and the collector of ipfrs-storage, for any       *)
(* blocks and links, any number of threads and any number of tasks that    *)
(* collect.                                                                *)
(***************************************************************************)
EXTENDS StorageGC, FiniteSetTheorems, TLAPS

--------------------------------------------------------------------------------
(* Pins: who holds a reference.                                                *)

\* What a call that unpins has still to visit, and what that leads to.
Ahead(k) == IF k.at = "decrement" THEN k.todo \cup {k.cid} ELSE k.todo
Reached(k) ==
    IF k.deep THEN {c \in Cids : \E d \in Ahead(k) : c \in Below(d)} ELSE Ahead(k)

\* The CIDs a call under way has a reference on: those it has pinned so far, or those
\* it may still unpin.
Refs(k) ==
    IF k.at = "idle" THEN {}
    ELSE IF k.at = "pin" THEN k.seen \ k.links ELSE Reached(k) \ k.seen

\* What a walk over the links has done so far.
CallOK(k) ==
    /\ k.at = "pin" => /\ k.root \in k.seen \ k.links
                       /\ k.links \subseteq k.seen /\ k.todo \subseteq k.seen \ k.links
                       /\ \A c \in k.seen \ (k.todo \cup k.links) : Links[c] \subseteq k.seen
    /\ k.at \in {"unpin", "decrement"} => Ahead(k) \cap k.seen = {}

CallsOK == \A t \in Threads : CallOK(call[t])

\* The references to c: of calls under way, of recursive pins that are held (one pair
\* for each pin held on a root above c), and of direct pins.
HoldersIn(calling, c) == {t \in Threads : c \in Refs(calling[t])}
ClaimsIn(held, c) == {p \in Cids \X Nat : c \in Below(p[1]) /\ p[2] \in 1..held[p[1]]}
Holders(c) == HoldersIn(call, c)
Claims(c) == ClaimsIn(recursive, c)
References(c) == direct[c] + Cardinality(Holders(c)) + Cardinality(Claims(c))

\* Every reference is counted in the entry.
ReferencesCount ==
    \A c \in Cids :
        /\ IsFiniteSet(Holders(c)) /\ IsFiniteSet(Claims(c))
        /\ References(c) = 0 \/ References(c) <= pins[c].count

SpInv == SpTypeOK /\ CallsOK /\ ReferencesCount

\* A block is below itself, its links are below it, what is below a block below it is
\* too, and nothing else.
LEMMA BelowFacts ==
    ASSUME NEW c \in Cids
    PROVE  /\ c \in Below(c) /\ Below(c) \subseteq Cids /\ Links[c] \subseteq Below(c)
           /\ \A d \in Below(c) : Below(d) \subseteq Below(c) /\ Links[d] \subseteq Below(c)
           /\ \A S \in LinkClosed : c \in S => Below(c) \subseteq S
<1> USE PinsAssumption
<1>1. c \in Below(c) /\ Below(c) \subseteq Cids
  BY DEF Below
<1>2. \A S \in LinkClosed : c \in S => Below(c) \subseteq S
  BY DEF Below
<1>3. ASSUME NEW d \in Below(c) PROVE Below(d) \subseteq Below(c)
  BY <1>3 DEF Below
<1>4. ASSUME NEW d \in Below(c) PROVE Links[d] \subseteq Below(c)
  <2> SUFFICES ASSUME NEW e \in Links[d] PROVE e \in Below(c)
    OBVIOUS
  <2>1. d \in Cids /\ e \in Cids
    BY <1>1
  <2>2. ASSUME NEW S \in LinkClosed, c \in S PROVE e \in S
    <3>1. d \in S
      BY <2>2 DEF Below
    <3> QED
      BY <2>1, <2>2, <3>1 DEF LinkClosed
  <2> QED
    BY <2>1, <2>2 DEF Below
<1> QED
  BY <1>1, <1>2, <1>3, <1>4

\* A thread that goes from one call to another adds or removes its own reference.
LEMMA HolderCount ==
    ASSUME NEW f \in [Threads -> Calls], NEW t \in Threads, NEW k \in Calls, NEW c \in Cids,
           NEW g, g[t] = k, \A u \in Threads \ {t} : g[u] = f[u], IsFiniteSet(HoldersIn(f, c))
    PROVE  /\ IsFiniteSet(HoldersIn(g, c))
           /\ Cardinality(HoldersIn(f, c)) \in Nat /\ Cardinality(HoldersIn(g, c)) \in Nat
           /\ c \in Refs(f[t]) => Cardinality(HoldersIn(f, c)) > 0
           /\ Cardinality(HoldersIn(g, c)) = Cardinality(HoldersIn(f, c))
                + (IF c \in Refs(k) THEN 1 ELSE 0) - (IF c \in Refs(f[t]) THEN 1 ELSE 0)
<1> DEFINE H == HoldersIn(f, c)
<1>2. Cardinality(H) \in Nat
  BY FS_CardinalityType
<1>3. t \in H <=> c \in Refs(f[t])
  BY DEF HoldersIn
<1>4. HoldersIn(g, c) = IF c \in Refs(k) THEN H \cup {t} ELSE H \ {t}
  BY DEF HoldersIn
<1> HIDE DEF H
<1>5. c \in Refs(f[t]) => Cardinality(H) > 0
  BY <1>2, <1>3, FS_EmptySet DEF H
<1>6. CASE c \in Refs(k)
  <2>1. IsFiniteSet(H \cup {t}) /\ Cardinality(H \cup {t})
          = IF t \in H THEN Cardinality(H) ELSE Cardinality(H) + 1
    BY FS_AddElement DEF H
  <2> QED
    BY <1>2, <1>3, <1>4, <1>5, <1>6, <2>1 DEF H
<1>7. CASE c \notin Refs(k)
  <2>1. IsFiniteSet(H \ {t}) /\ Cardinality(H \ {t})
          = IF t \in H THEN Cardinality(H) - 1 ELSE Cardinality(H)
    BY FS_RemoveElement DEF H
  <2> QED
    BY <1>2, <1>3, <1>4, <1>5, <1>7, <2>1 DEF H
<1> QED
  BY <1>6, <1>7

\* A recursive pin that is made or given back counts once for each block below it.
LEMMA ClaimAdded ==
    ASSUME NEW f \in [Cids -> Nat], NEW r \in Cids, NEW g, g[r] = f[r] + 1,
           \A s \in Cids \ {r} : g[s] = f[s], NEW c \in Cids, IsFiniteSet(ClaimsIn(f, c))
    PROVE  /\ IsFiniteSet(ClaimsIn(g, c))
           /\ Cardinality(ClaimsIn(f, c)) \in Nat
           /\ Cardinality(ClaimsIn(g, c)) = Cardinality(ClaimsIn(f, c)) + (IF c \in Below(r) THEN 1 ELSE 0)
<1> DEFINE p == <<r, f[r] + 1>>
<1>1. f[r] \in Nat /\ g[r] = f[r] + 1 /\ \A s \in Cids \ {r} : g[s] = f[s]
  OBVIOUS
<1>2. p \notin ClaimsIn(f, c)
  BY <1>1 DEF ClaimsIn
<1>3. ClaimsIn(g, c) = IF c \in Below(r) THEN ClaimsIn(f, c) \cup {p} ELSE ClaimsIn(f, c)
  <2>1. ASSUME NEW q \in Cids \X Nat
        PROVE  q \in ClaimsIn(g, c) <=> q \in ClaimsIn(f, c) \/ (c \in Below(r) /\ q = p)
    <3>1. CASE q[1] = r
      <4>1. q[2] \in 1..g[r] <=> q[2] \in 1..f[r] \/ q[2] = f[r] + 1
        BY <1>1
      <4>2. q = p <=> q[2] = f[r] + 1
        BY <3>1
      <4> QED
        BY <3>1, <4>1, <4>2 DEF ClaimsIn
    <3>2. CASE q[1] # r
      BY <3>2, <1>1 DEF ClaimsIn
    <3> QED
      BY <3>1, <3>2
  <2>2. p \in Cids \X Nat
    BY <1>1
  <2>3. ClaimsIn(f, c) \subseteq Cids \X Nat /\ ClaimsIn(g, c) \subseteq Cids \X Nat
    BY DEF ClaimsIn
  <2> HIDE DEF p
  <2> QED
    BY <2>1, <2>2, <2>3
<1> HIDE DEF p
<1> QED
  BY <1>2, <1>3, FS_CardinalityType, FS_AddElement

LEMMA ClaimRemoved ==
    ASSUME NEW f \in [Cids -> Nat], NEW r \in Cids, f[r] > 0,
           NEW g, g[r] = f[r] - 1, \A s \in Cids \ {r} : g[s] = f[s],
           NEW c \in Cids, IsFiniteSet(ClaimsIn(f, c))
    PROVE  /\ IsFiniteSet(ClaimsIn(g, c))
           /\ Cardinality(ClaimsIn(f, c)) \in Nat /\ Cardinality(ClaimsIn(g, c)) \in Nat
           /\ Cardinality(ClaimsIn(g, c)) = Cardinality(ClaimsIn(f, c)) - (IF c \in Below(r) THEN 1 ELSE 0)
<1> DEFINE p == <<r, f[r]>>
<1>1. f[r] \in Nat /\ g[r] = f[r] - 1 /\ \A s \in Cids \ {r} : g[s] = f[s]
  OBVIOUS
<1>2. p \in ClaimsIn(f, c) <=> c \in Below(r)
  BY <1>1 DEF ClaimsIn
<1>3. ClaimsIn(g, c) = IF c \in Below(r) THEN ClaimsIn(f, c) \ {p} ELSE ClaimsIn(f, c)
  <2>1. ASSUME NEW q \in Cids \X Nat
        PROVE  q \in ClaimsIn(g, c) <=> q \in ClaimsIn(f, c) /\ ~ (c \in Below(r) /\ q = p)
    <3>1. CASE q[1] = r
      <4>1. q[2] \in 1..g[r] <=> q[2] \in 1..f[r] /\ q[2] # f[r]
        BY <1>1
      <4>2. q = p <=> q[2] = f[r]
        BY <3>1
      <4> QED
        BY <3>1, <4>1, <4>2 DEF ClaimsIn
    <3>2. CASE q[1] # r
      BY <3>2, <1>1 DEF ClaimsIn
    <3> QED
      BY <3>1, <3>2
  <2>2. ClaimsIn(f, c) \subseteq Cids \X Nat /\ ClaimsIn(g, c) \subseteq Cids \X Nat
    BY DEF ClaimsIn
  <2> HIDE DEF p
  <2> QED
    BY <2>1, <2>2
<1> HIDE DEF p
<1>4. Cardinality(ClaimsIn(f, c)) \in Nat
  BY FS_CardinalityType
<1>5. CASE c \in Below(r)
  <2>1. /\ IsFiniteSet(ClaimsIn(f, c) \ {p})
        /\ Cardinality(ClaimsIn(f, c) \ {p}) = Cardinality(ClaimsIn(f, c)) - 1
    BY <1>2, <1>5, FS_RemoveElement
  <2> QED
    BY <1>3, <1>4, <1>5, <2>1, FS_CardinalityType
<1>6. CASE c \notin Below(r)
  BY <1>3, <1>4, <1>6
<1> QED
  BY <1>5, <1>6

\* What a call that unpins leaves behind once it is through with c: fewer references,
\* and none on c.
LEMMA OnwardFacts ==
    ASSUME SpTypeOK, CallsOK, NEW t \in Threads, NEW c \in Ahead(call[t]),
           call[t].at = "unpin" \/ (call[t].at = "decrement" /\ c = call[t].cid),
           NEW links \in {Links[c], {}}
    PROVE  /\ Onward(t, c, links) \in Calls /\ CallOK(Onward(t, c, links))
           /\ c \in Refs(call[t])
           /\ Refs(Onward(t, c, links)) \subseteq Refs(call[t]) \ {c}
<1> DEFINE k == call[t]
           seen == k.seen \cup {c}
           todo == (k.todo \cup (IF k.deep THEN links ELSE {})) \ seen
           next == [at |-> "unpin", deep |-> k.deep, seen |-> seen, todo |-> todo]
<1> USE PinsAssumption
<1>1. k \in Calls /\ k.seen \subseteq Cids /\ k.todo \subseteq Cids /\ k.deep \in BOOLEAN
      /\ c \in Cids /\ Ahead(k) \subseteq Cids
  BY DEF SpTypeOK, Calls, Ahead
<1>2. links \subseteq Cids /\ links \subseteq Below(c) /\ c \in Below(c)
  BY <1>1, BelowFacts
<1>3. Onward(t, c, links) = IF todo = {} THEN Idle ELSE next
  BY DEF Onward
<1>4. c \notin k.seen /\ Ahead(k) \cap k.seen = {}
  BY DEF CallsOK, CallOK
<1>5. c \in Refs(k)
  BY <1>1, <1>2, <1>4 DEF Refs, Reached
<1>6. Idle \in Calls /\ CallOK(Idle) /\ Refs(Idle) = {}
  BY DEF Idle, Calls, CallOK, Refs
<1>7. next \in Calls /\ CallOK(next)
  BY <1>1, <1>2 DEF Calls, CallOK, Ahead
<1>8. Refs(next) \subseteq Refs(k) \ {c}
  <2>1. Refs(next) = Reached(next) \ seen /\ Refs(k) = Reached(k) \ k.seen
    BY DEF Refs
  <2>2. Ahead(next) = todo /\ next.deep = k.deep
    BY DEF Ahead
  <2>3. k.todo \subseteq Ahead(k)
    BY DEF Ahead
  <2>4. Reached(next) \subseteq Reached(k)
    <3>1. CASE ~ k.deep
      BY <2>2, <2>3, <3>1 DEF Reached
    <3>2. CASE k.deep
      <4> SUFFICES ASSUME NEW e \in Cids, NEW d \in todo, e \in Below(d)
                   PROVE  \E f \in Ahead(k) : e \in Below(f)
        BY <2>2, <3>2 DEF Reached
      <4>1. CASE d \in k.todo
        BY <4>1, <2>3
      <4>2. CASE d \in links
        <5>1. d \in Below(c)
          BY <4>2, <1>2
        <5>2. Below(d) \subseteq Below(c)
          BY <1>1, <5>1, BelowFacts
        <5> QED
          BY <5>2
      <4> QED
        BY <4>1, <4>2, <3>2
    <3> QED
      BY <3>1, <3>2, <1>1
  <2> QED
    BY <2>1, <2>4
<1> HIDE DEF next, todo, seen
<1> QED
  BY <1>3, <1>5, <1>6, <1>7, <1>8

\* The state the pins start in.
LEMMA SpInitInv == SpInit => SpInv
<1> SUFFICES ASSUME SpInit PROVE SpInv
  OBVIOUS
<1>1. SpTypeOK /\ CallsOK
  BY DEF SpInit, SpTypeOK, CallsOK, CallOK, Idle, Calls
<1>2. ASSUME NEW c \in Cids
      PROVE  Holders(c) = {} /\ Claims(c) = {} /\ direct[c] = 0
  <2>1. Holders(c) = {}
    BY DEF SpInit, Holders, HoldersIn, Refs, Idle
  <2>2. ASSUME NEW p \in Cids \X Nat PROVE p[2] \notin 1..recursive[p[1]]
    BY DEF SpInit
  <2> QED
    BY <2>1, <2>2 DEF SpInit, Claims, ClaimsIn
<1> QED
  BY <1>1, <1>2, FS_EmptySet DEF SpInv, ReferencesCount, References

\* One more reference in the entry of c.
LEMMA PinEntryFacts ==
    ASSUME SpTypeOK, NEW c \in Cids, NEW type \in {"Direct", "Recursive", "Indirect"},
           PinEntry(c, type)
    PROVE  /\ pins' \in [Cids -> Pins \cup {NoPin}]
           /\ pins'[c].count \in Nat /\ pins'[c].count >= 1
           /\ pins[c].count \in Int /\ pins'[c].count >= pins[c].count + 1
           /\ \A d \in Cids \ {c} : pins'[d] = pins[d]
<1>1. pins[c] \in Pins \cup {NoPin} /\ NoPin.count = -1
  BY DEF SpTypeOK, NoPin
<1>2. CASE pins[c] = NoPin
  <2>1. pins' = [pins EXCEPT ![c] = [type |-> type, count |-> 1]]
    BY <1>2 DEF PinEntry
  <2> QED
    BY <1>1, <1>2, <2>1 DEF SpTypeOK, Pins
<1>3. CASE pins[c] # NoPin
  <2> DEFINE new == IF type = "Recursive" /\ pins[c].type = "Direct" THEN type ELSE pins[c].type
  <2>1. pins' = [pins EXCEPT ![c] = [type |-> new, count |-> pins[c].count + 1]]
    BY <1>3 DEF PinEntry
  <2>2. pins[c] \in Pins /\ pins[c].count \in Nat /\ new \in {"Direct", "Recursive", "Indirect"}
    BY <1>1, <1>3 DEF Pins
  <2> HIDE DEF new
  <2> QED
    BY <2>1, <2>2 DEF SpTypeOK, Pins
<1> QED
  BY <1>2, <1>3

\* The calls stay sound when one of them goes on to a sound state.
LEMMA CallFacts ==
    ASSUME SpTypeOK, CallsOK, NEW t \in Threads, NEW k \in Calls, CallOK(k),
           call' = [call EXCEPT ![t] = k]
    PROVE  call' \in [Threads -> Calls] /\ CallsOK'
BY DEF SpTypeOK, CallsOK

LEMMA IdleFacts == Idle \in Calls /\ CallOK(Idle) /\ Refs(Idle) = {}
BY DEF Idle, Calls, CallOK, Refs

\* The numbers References adds up.
LEMMA ReferenceTypes ==
    ASSUME SpInv, NEW c \in Cids
    PROVE  /\ direct[c] \in Nat /\ Cardinality(Holders(c)) \in Nat
           /\ Cardinality(Claims(c)) \in Nat /\ pins[c].count \in Int
           /\ References(c) \in Nat /\ (References(c) > 0 => IsPinned(c))
<1>1. direct[c] \in Nat /\ Cardinality(Holders(c)) \in Nat /\ Cardinality(Claims(c)) \in Nat
  BY FS_CardinalityType DEF SpInv, SpTypeOK, ReferencesCount
<1>2. pins[c] \in Pins \cup {NoPin} /\ NoPin.count = -1
  BY DEF SpInv, SpTypeOK, NoPin
<1>3. pins[c].count \in Int /\ (pins[c] # NoPin => pins[c].count \in Nat)
  BY <1>2 DEF Pins
<1>4. References(c) \in Nat
  BY <1>1 DEF References
<1> QED
  BY <1>1, <1>2, <1>3, <1>4 DEF SpInv, ReferencesCount, IsPinned

\* The holders of c when a thread goes on.
LEMMA HolderStep ==
    ASSUME SpInv, NEW t \in Threads, NEW k \in Calls, call' = [call EXCEPT ![t] = k], NEW c \in Cids
    PROVE  /\ IsFiniteSet(HoldersIn(call', c))
           /\ Cardinality(HoldersIn(call, c)) \in Nat /\ Cardinality(HoldersIn(call', c)) \in Nat
           /\ c \in Refs(call[t]) => Cardinality(HoldersIn(call, c)) > 0
           /\ c \in Refs(k) /\ c \notin Refs(call[t])
                => Cardinality(HoldersIn(call', c)) = Cardinality(HoldersIn(call, c)) + 1
           /\ c \notin Refs(k) /\ c \in Refs(call[t])
                => Cardinality(HoldersIn(call', c)) = Cardinality(HoldersIn(call, c)) - 1
           /\ (c \in Refs(k) <=> c \in Refs(call[t]))
                => Cardinality(HoldersIn(call', c)) = Cardinality(HoldersIn(call, c))
<1>1. call \in [Threads -> Calls] /\ IsFiniteSet(HoldersIn(call, c))
  BY DEF SpInv, SpTypeOK, ReferencesCount, Holders
<1>2. call'[t] = k /\ \A u \in Threads \ {t} : call'[u] = call[u]
  BY <1>1
<1>3. /\ IsFiniteSet(HoldersIn(call', c))
      /\ Cardinality(HoldersIn(call, c)) \in Nat /\ Cardinality(HoldersIn(call', c)) \in Nat
      /\ c \in Refs(call[t]) => Cardinality(HoldersIn(call, c)) > 0
      /\ Cardinality(HoldersIn(call', c)) = Cardinality(HoldersIn(call, c))
            + (IF c \in Refs(k) THEN 1 ELSE 0) - (IF c \in Refs(call[t]) THEN 1 ELSE 0)
  BY <1>1, <1>2, HolderCount
<1> QED
  BY <1>3

\* A reference of a call under way is counted.
LEMMA KeptReference ==
    ASSUME SpInv, NEW t \in Threads, NEW c \in Cids, c \in Refs(call[t])
    PROVE  IsPinned(c) /\ pins[c].count >= 1
<1>1. t \in Holders(c) /\ IsFiniteSet(Holders(c))
  BY DEF Holders, HoldersIn, SpInv, ReferencesCount
<1>2. Cardinality(Holders(c)) # 0
  BY <1>1, FS_EmptySet
<1>3. References(c) > 0
  BY <1>2, ReferenceTypes DEF References
<1> QED
  BY <1>3, ReferenceTypes DEF SpInv, ReferencesCount

\* A call that only lets go of references.
LEMMA LettingGo ==
    ASSUME SpInv, NEW t \in Threads, NEW k \in Calls, CallOK(k),
           call' = [call EXCEPT ![t] = k], calls' \in Nat, Refs(k) \subseteq Refs(call[t]),
           UNCHANGED <<pins, direct, recursive>>
    PROVE  SpInv'
<1>1. SpTypeOK' /\ CallsOK'
  BY CallFacts DEF SpInv, SpTypeOK
<1>2. ASSUME NEW c \in Cids
      PROVE  /\ IsFiniteSet(Holders(c)') /\ IsFiniteSet(Claims(c)')
             /\ References(c)' = 0 \/ References(c)' <= pins'[c].count
  <2>1. Claims(c)' = Claims(c) /\ direct'[c] = direct[c] /\ pins'[c].count = pins[c].count
    BY DEF Claims
  <2>2. /\ IsFiniteSet(Holders(c)') /\ Cardinality(Holders(c)') \in Nat
        /\ Cardinality(Holders(c)') <= Cardinality(Holders(c))
    <3>1. /\ IsFiniteSet(HoldersIn(call', c)) /\ Cardinality(HoldersIn(call', c)) \in Nat
          /\ Cardinality(HoldersIn(call, c)) \in Nat
          /\ c \in Refs(k) /\ c \notin Refs(call[t])
               => Cardinality(HoldersIn(call', c)) = Cardinality(HoldersIn(call, c)) + 1
          /\ c \notin Refs(k) /\ c \in Refs(call[t])
               => Cardinality(HoldersIn(call', c)) = Cardinality(HoldersIn(call, c)) - 1
          /\ (c \in Refs(k) <=> c \in Refs(call[t]))
               => Cardinality(HoldersIn(call', c)) = Cardinality(HoldersIn(call, c))
      BY HolderStep
    <3>2. c \notin Refs(k) \/ c \in Refs(call[t])
      OBVIOUS
    <3> QED
      BY <3>1, <3>2 DEF Holders
  <2>5. direct[c] \in Nat /\ Cardinality(Claims(c)) \in Nat /\ IsFiniteSet(Claims(c))
        /\ Cardinality(Holders(c)) \in Nat /\ pins[c].count \in Int
        /\ (References(c) = 0 \/ References(c) <= pins[c].count)
    BY ReferenceTypes DEF SpInv, ReferencesCount
  <2> QED
    BY <2>1, <2>2, <2>5 DEF References
<1> QED
  BY <1>1, <1>2 DEF SpInv, ReferencesCount

LEMMA PinStepInv ==
    ASSUME SpInv, NEW t \in Threads, NEW c \in Cids, Pin(t, c)
    PROVE  SpInv'
<1>1. call' = [call EXCEPT ![t] = Idle] /\ call[t].at = "idle" /\ calls' = calls + 1
  BY DEF Pin, Call, At
<1>2. PinEntry(c, "Direct") /\ direct' = [direct EXCEPT ![c] = @ + 1] /\ recursive' = recursive
  BY DEF Pin
<1>3. SpTypeOK' /\ CallsOK'
  <2>1. call' \in [Threads -> Calls] /\ CallsOK'
    BY <1>1, CallFacts, IdleFacts DEF SpInv
  <2>2. pins' \in [Cids -> Pins \cup {NoPin}]
    BY <1>2, PinEntryFacts DEF SpInv
  <2>3. calls \in Nat /\ direct \in [Cids -> Nat] /\ recursive \in [Cids -> Nat]
    BY DEF SpInv, SpTypeOK
  <2>4. calls' \in Nat /\ direct' \in [Cids -> Nat] /\ recursive' \in [Cids -> Nat]
    BY <1>1, <1>2, <2>3
  <2> QED
    BY <2>1, <2>2, <2>4 DEF SpTypeOK
<1>4. ASSUME NEW d \in Cids
      PROVE  /\ IsFiniteSet(Holders(d)') /\ IsFiniteSet(Claims(d)')
             /\ References(d)' = 0 \/ References(d)' <= pins'[d].count
  <2>1. Claims(d)' = Claims(d)
    BY <1>2 DEF Claims
  <2>2. IsFiniteSet(Holders(d)') /\ Cardinality(Holders(d)') = Cardinality(Holders(d))
    <3>1. Refs(call[t]) = {} /\ Refs(Idle) = {}
      BY <1>1, IdleFacts DEF Refs
    <3> QED
      BY <1>1, <3>1, HolderStep, IdleFacts DEF Holders
  <2>3. direct'[d] = IF d = c THEN direct[d] + 1 ELSE direct[d]
    BY <1>2 DEF SpInv, SpTypeOK
  <2>4. IF d = c THEN pins'[d].count >= 1 /\ pins'[d].count >= pins[d].count + 1
                      /\ pins'[d].count \in Nat
                 ELSE pins'[d] = pins[d]
    BY <1>2, PinEntryFacts DEF SpInv
  <2>5. direct[d] \in Nat /\ Cardinality(Claims(d)) \in Nat /\ IsFiniteSet(Claims(d))
        /\ Cardinality(Holders(d)) \in Nat /\ pins[d].count \in Int
        /\ (References(d) = 0 \/ References(d) <= pins[d].count)
    BY ReferenceTypes DEF SpInv, ReferencesCount
  <2> QED
    BY <2>1, <2>2, <2>3, <2>4, <2>5 DEF References
<1> QED
  BY <1>3, <1>4 DEF SpInv, ReferencesCount

\* pin_recursive takes one more reference, on its root or on a link.
LEMMA PinReferenceInv ==
    ASSUME SpInv, NEW t \in Threads, NEW c \in Cids, NEW k \in Calls, CallOK(k),
           NEW type \in {"Recursive", "Indirect"}, PinEntry(c, type), calls' \in Nat,
           call' = [call EXCEPT ![t] = k], Refs(k) = Refs(call[t]) \cup {c},
           UNCHANGED <<direct, recursive>>
    PROVE  SpInv'
<1>1. SpTypeOK' /\ CallsOK'
  BY CallFacts, PinEntryFacts DEF SpInv, SpTypeOK
<1>2. ASSUME NEW d \in Cids
      PROVE  /\ IsFiniteSet(Holders(d)') /\ IsFiniteSet(Claims(d)')
             /\ References(d)' = 0 \/ References(d)' <= pins'[d].count
  <2>1. Claims(d)' = Claims(d) /\ direct'[d] = direct[d]
    BY DEF Claims
  <2>2. /\ IsFiniteSet(Holders(d)') /\ Cardinality(Holders(d)') \in Nat
        /\ Cardinality(Holders(d)') <= Cardinality(Holders(d)) + (IF d = c THEN 1 ELSE 0)
    <3>1. /\ IsFiniteSet(HoldersIn(call', d)) /\ Cardinality(HoldersIn(call', d)) \in Nat
          /\ Cardinality(HoldersIn(call, d)) \in Nat
          /\ d \in Refs(k) /\ d \notin Refs(call[t])
               => Cardinality(HoldersIn(call', d)) = Cardinality(HoldersIn(call, d)) + 1
          /\ d \notin Refs(k) /\ d \in Refs(call[t])
               => Cardinality(HoldersIn(call', d)) = Cardinality(HoldersIn(call, d)) - 1
          /\ (d \in Refs(k) <=> d \in Refs(call[t]))
               => Cardinality(HoldersIn(call', d)) = Cardinality(HoldersIn(call, d))
      BY HolderStep
    <3>2. d \in Refs(k) <=> d = c \/ d \in Refs(call[t])
      OBVIOUS
    <3> QED
      BY <3>1, <3>2 DEF Holders
  <2>4. IF d = c THEN pins'[d].count >= 1 /\ pins'[d].count >= pins[d].count + 1
                      /\ pins'[d].count \in Nat
                 ELSE pins'[d] = pins[d]
    BY PinEntryFacts DEF SpInv
  <2>5. direct[d] \in Nat /\ Cardinality(Claims(d)) \in Nat /\ IsFiniteSet(Claims(d))
        /\ Cardinality(Holders(d)) \in Nat /\ pins[d].count \in Int
        /\ (References(d) = 0 \/ References(d) <= pins[d].count)
    BY ReferenceTypes DEF SpInv, ReferencesCount
  <2> QED
    BY <2>1, <2>2, <2>4, <2>5 DEF References
<1> QED
  BY <1>1, <1>2 DEF SpInv, ReferencesCount

LEMMA PinRecursiveInv ==
    ASSUME SpInv, NEW t \in Threads, NEW r \in Cids, PinRecursive(t, r)
    PROVE  SpInv'
<1> DEFINE k == [at |-> "pin", root |-> r, links |-> {}, todo |-> {r}, seen |-> {r}]
<1>1. call' = [call EXCEPT ![t] = k] /\ call[t].at = "idle" /\ calls' = calls + 1
  BY DEF PinRecursive, Call, At
<1>2. k \in Calls /\ CallOK(k) /\ Refs(k) = {r} /\ Refs(call[t]) = {}
  BY <1>1 DEF Calls, CallOK, Refs
<1>3. calls' \in Nat /\ PinEntry(r, "Recursive") /\ UNCHANGED <<direct, recursive>>
  BY <1>1 DEF PinRecursive, SpInv, SpTypeOK
<1> HIDE DEF k
<1>4. Refs(k) = Refs(call[t]) \cup {r}
  BY <1>2
<1> QED
  BY <1>1, <1>2, <1>3, <1>4, PinReferenceInv

LEMMA PinLinkInv ==
    ASSUME SpInv, NEW t \in Threads, NEW c \in Cids, PinLink(t, c)
    PROVE  SpInv'
<1> DEFINE k == [call[t] EXCEPT !.links = @ \ {c}, !.todo = @ \cup {c}]
<1>1. call' = [call EXCEPT ![t] = k] /\ calls' = calls /\ call[t].at = "pin" /\ c \in call[t].links
  BY DEF PinLink, Goes, At
<1>2. call[t] \in [at : {"pin"}, root : Cids, links : SUBSET Cids, todo : SUBSET Cids, seen : SUBSET Cids]
  BY <1>1 DEF SpInv, SpTypeOK, Calls
<1>3. CallOK(call[t])
  BY DEF SpInv, CallsOK
<1>4. k \in Calls /\ CallOK(k) /\ Refs(k) = Refs(call[t]) \cup {c}
  BY <1>1, <1>2, <1>3 DEF Calls, CallOK, Refs
<1> HIDE DEF k
<1> QED
  BY <1>1, <1>4, PinReferenceInv DEF PinLink, SpInv, SpTypeOK

\* unpin takes a direct pin over.
LEMMA UnpinInv ==
    ASSUME SpInv, NEW t \in Threads, NEW c \in Cids, Unpin(t, c)
    PROVE  SpInv'
<1> DEFINE k == [at |-> "unpin", todo |-> {c}, seen |-> {}, deep |-> FALSE]
<1>1. call' = [call EXCEPT ![t] = k] /\ call[t].at = "idle" /\ calls' = calls + 1
  BY DEF Unpin, Call, At
<1>2. direct[c] > 0 /\ direct' = [direct EXCEPT ![c] = @ - 1] /\ pins' = pins /\ recursive' = recursive
  BY DEF Unpin
<1>3. k \in Calls /\ CallOK(k) /\ Refs(k) = {c} /\ Refs(call[t]) = {}
  BY <1>1 DEF Calls, CallOK, Refs, Reached, Ahead
<1> HIDE DEF k
<1>4. SpTypeOK' /\ CallsOK'
  <2>1. call' \in [Threads -> Calls] /\ CallsOK'
    BY <1>1, <1>3, CallFacts DEF SpInv
  <2>2. calls \in Nat /\ direct \in [Cids -> Nat] /\ recursive \in [Cids -> Nat]
        /\ pins \in [Cids -> Pins \cup {NoPin}]
    BY DEF SpInv, SpTypeOK
  <2>3. calls' \in Nat /\ direct' \in [Cids -> Nat]
    BY <1>1, <1>2, <2>2
  <2> QED
    BY <1>2, <2>1, <2>2, <2>3 DEF SpTypeOK
<1>5. ASSUME NEW d \in Cids
      PROVE  /\ IsFiniteSet(Holders(d)') /\ IsFiniteSet(Claims(d)')
             /\ References(d)' = 0 \/ References(d)' <= pins'[d].count
  <2>1. /\ IsFiniteSet(HoldersIn(call', d)) /\ Cardinality(HoldersIn(call', d)) \in Nat
        /\ Cardinality(HoldersIn(call, d)) \in Nat
        /\ d \in Refs(call[t]) => Cardinality(HoldersIn(call, d)) > 0
        /\ d \in Refs(k) /\ d \notin Refs(call[t])
             => Cardinality(HoldersIn(call', d)) = Cardinality(HoldersIn(call, d)) + 1
        /\ d \notin Refs(k) /\ d \in Refs(call[t])
             => Cardinality(HoldersIn(call', d)) = Cardinality(HoldersIn(call, d)) - 1
        /\ (d \in Refs(k) <=> d \in Refs(call[t]))
             => Cardinality(HoldersIn(call', d)) = Cardinality(HoldersIn(call, d))
    BY <1>1, <1>3, HolderStep
  <2>2. Claims(d)' = Claims(d) /\ pins'[d] = pins[d]
        /\ direct'[d] = IF d = c THEN direct[d] - 1 ELSE direct[d]
    BY <1>2 DEF Claims, SpInv, SpTypeOK
  <2>3. direct[d] \in Nat /\ Cardinality(Claims(d)) \in Nat /\ IsFiniteSet(Claims(d))
        /\ (References(d) = 0 \/ References(d) <= pins[d].count) /\ pins[d].count \in Int
    BY ReferenceTypes DEF SpInv, ReferencesCount
  <2> QED
    BY <1>2, <1>3, <2>1, <2>2, <2>3 DEF References, Holders
<1> QED
  BY <1>4, <1>5 DEF SpInv, ReferencesCount

\* unpin_recursive takes a recursive pin over, with its references below the root.
LEMMA UnpinRecursiveInv ==
    ASSUME SpInv, NEW t \in Threads, NEW r \in Cids, UnpinRecursive(t, r)
    PROVE  SpInv'
<1> DEFINE k == [at |-> "unpin", todo |-> {r}, seen |-> {}, deep |-> TRUE]
<1>1. call' = [call EXCEPT ![t] = k] /\ call[t].at = "idle" /\ calls' = calls + 1
  BY DEF UnpinRecursive, Call, At
<1>2. recursive[r] > 0 /\ recursive' = [recursive EXCEPT ![r] = @ - 1] /\ pins' = pins /\ direct' = direct
  BY DEF UnpinRecursive
<1>3. k \in Calls /\ CallOK(k) /\ Refs(k) = Below(r) /\ Refs(call[t]) = {}
  <2>1. Below(r) \subseteq Cids
    BY BelowFacts
  <2> QED
    BY <1>1, <2>1 DEF Calls, CallOK, Refs, Reached, Ahead
<1> HIDE DEF k
<1>4. SpTypeOK' /\ CallsOK' /\ recursive \in [Cids -> Nat]
  <2>1. call' \in [Threads -> Calls] /\ CallsOK'
    BY <1>1, <1>3, CallFacts DEF SpInv
  <2>2. calls \in Nat /\ direct \in [Cids -> Nat] /\ recursive \in [Cids -> Nat]
        /\ pins \in [Cids -> Pins \cup {NoPin}]
    BY DEF SpInv, SpTypeOK
  <2>3. calls' \in Nat /\ recursive' \in [Cids -> Nat]
    BY <1>1, <1>2, <2>2
  <2> QED
    BY <1>2, <2>1, <2>2, <2>3 DEF SpTypeOK
<1>5. ASSUME NEW d \in Cids
      PROVE  /\ IsFiniteSet(Holders(d)') /\ IsFiniteSet(Claims(d)')
             /\ References(d)' = 0 \/ References(d)' <= pins'[d].count
  <2>1. /\ IsFiniteSet(HoldersIn(call', d)) /\ Cardinality(HoldersIn(call', d)) \in Nat
        /\ Cardinality(HoldersIn(call, d)) \in Nat
        /\ d \in Refs(call[t]) => Cardinality(HoldersIn(call, d)) > 0
        /\ d \in Refs(k) /\ d \notin Refs(call[t])
             => Cardinality(HoldersIn(call', d)) = Cardinality(HoldersIn(call, d)) + 1
        /\ d \notin Refs(k) /\ d \in Refs(call[t])
             => Cardinality(HoldersIn(call', d)) = Cardinality(HoldersIn(call, d)) - 1
        /\ (d \in Refs(k) <=> d \in Refs(call[t]))
             => Cardinality(HoldersIn(call', d)) = Cardinality(HoldersIn(call, d))
    BY <1>1, <1>3, HolderStep
  <2>2. recursive[r] > 0 /\ recursive \in [Cids -> Nat] /\ recursive'[r] = recursive[r] - 1
        /\ \A s \in Cids \ {r} : recursive'[s] = recursive[s]
    BY <1>2, <1>4
  <2>3. direct[d] \in Nat /\ IsFiniteSet(ClaimsIn(recursive, d))
        /\ (References(d) = 0 \/ References(d) <= pins[d].count) /\ pins[d].count \in Int
    BY ReferenceTypes DEF SpInv, ReferencesCount, Claims
  <2>4. /\ IsFiniteSet(ClaimsIn(recursive', d))
        /\ Cardinality(ClaimsIn(recursive, d)) \in Nat /\ Cardinality(ClaimsIn(recursive', d)) \in Nat
        /\ Cardinality(ClaimsIn(recursive', d))
             = Cardinality(ClaimsIn(recursive, d)) - (IF d \in Below(r) THEN 1 ELSE 0)
    BY <2>2, <2>3, ClaimRemoved
  <2> QED
    BY <1>2, <1>3, <2>1, <2>3, <2>4 DEF References, Holders, Claims
<1> QED
  BY <1>4, <1>5 DEF SpInv, ReferencesCount

\* pin_recursive goes on to the links of a block, or returns: then everything below the
\* root has been pinned, and the references of the call become those of the pin.
LEMMA ResolveLinksInv ==
    ASSUME SpInv, NEW t \in Threads, NEW c \in Cids, ResolveLinks(t, c)
    PROVE  SpInv'
<1> DEFINE links == Links[c] \ call[t].seen
           done == links = {} /\ call[t].todo = {c}
           k == [call[t] EXCEPT !.links = links, !.seen = @ \cup links, !.todo = @ \ {c}]
           root == call[t].root
<1>1. /\ call[t].at = "pin" /\ call[t].links = {} /\ c \in call[t].todo /\ calls' = calls
      /\ pins' = pins /\ direct' = direct
  BY DEF ResolveLinks, Goes, At
<1>2. call[t] \in [at : {"pin"}, root : Cids, links : SUBSET Cids, todo : SUBSET Cids, seen : SUBSET Cids]
  BY <1>1 DEF SpInv, SpTypeOK, Calls
<1>3. CallOK(call[t])
  BY DEF SpInv, CallsOK
<1>4. Links[c] \subseteq Cids
  BY PinsAssumption
<1>5. CASE ~ done
  <2>1. call' = [call EXCEPT ![t] = k] /\ recursive' = recursive
    BY <1>5 DEF ResolveLinks, Goes
  <2>2. k \in Calls
    BY <1>2, <1>4 DEF Calls
  <2>3. CallOK(k) /\ Refs(k) \subseteq Refs(call[t])
    BY <1>1, <1>2, <1>3, <1>4 DEF CallOK, Refs
  <2>4. calls' \in Nat
    BY <1>1 DEF SpInv, SpTypeOK
  <2> HIDE DEF k
  <2> QED
    BY <1>1, <2>1, <2>2, <2>3, <2>4, LettingGo
<1>6. CASE done
  <2>1. call' = [call EXCEPT ![t] = Idle] /\ recursive' = [recursive EXCEPT ![root] = @ + 1]
    BY <1>6 DEF ResolveLinks, Goes
  <2>2. root \in Cids /\ Refs(call[t]) = call[t].seen
    BY <1>1, <1>2 DEF Refs
  <2>3. Below(root) \subseteq call[t].seen
    <3>1. call[t].seen \in LinkClosed /\ root \in call[t].seen
      BY <1>1, <1>2, <1>3, <1>6 DEF CallOK, LinkClosed
    <3> QED
      BY <2>2, <3>1, BelowFacts
  <2> HIDE DEF root
  <2>4. SpTypeOK' /\ CallsOK' /\ recursive \in [Cids -> Nat]
    <3>1. call' \in [Threads -> Calls] /\ CallsOK'
      BY <2>1, CallFacts, IdleFacts DEF SpInv
    <3>2. recursive \in [Cids -> Nat]
      BY DEF SpInv, SpTypeOK
    <3>3. recursive' \in [Cids -> Nat]
      BY <2>1, <2>2, <3>2
    <3> QED
      BY <1>1, <3>1, <3>2, <3>3 DEF SpInv, SpTypeOK
  <2>5. ASSUME NEW d \in Cids
        PROVE  /\ IsFiniteSet(Holders(d)') /\ IsFiniteSet(Claims(d)')
               /\ References(d)' = 0 \/ References(d)' <= pins'[d].count
    <3>1. /\ IsFiniteSet(HoldersIn(call', d)) /\ Cardinality(HoldersIn(call', d)) \in Nat
          /\ Cardinality(HoldersIn(call, d)) \in Nat
          /\ d \notin Refs(Idle) /\ d \in Refs(call[t])
               => Cardinality(HoldersIn(call', d)) = Cardinality(HoldersIn(call, d)) - 1
          /\ (d \in Refs(Idle) <=> d \in Refs(call[t]))
               => Cardinality(HoldersIn(call', d)) = Cardinality(HoldersIn(call, d))
      BY <2>1, HolderStep, IdleFacts
    <3>2. recursive'[root] = recursive[root] + 1 /\ \A s \in Cids \ {root} : recursive'[s] = recursive[s]
      BY <2>1, <2>2, <2>4
    <3>3. direct[d] \in Nat /\ IsFiniteSet(ClaimsIn(recursive, d))
          /\ (References(d) = 0 \/ References(d) <= pins[d].count) /\ pins[d].count \in Int
      BY ReferenceTypes DEF SpInv, ReferencesCount, Claims
    <3>4. /\ IsFiniteSet(ClaimsIn(recursive', d)) /\ Cardinality(ClaimsIn(recursive, d)) \in Nat
          /\ Cardinality(ClaimsIn(recursive', d))
               = Cardinality(ClaimsIn(recursive, d)) + (IF d \in Below(root) THEN 1 ELSE 0)
      BY <2>2, <2>4, <3>2, <3>3, ClaimAdded
    <3>5. Refs(Idle) = {}
      BY IdleFacts
    <3> QED
      BY <1>1, <2>2, <2>3, <3>1, <3>3, <3>4, <3>5 DEF References, Holders, Claims
  <2> QED
    BY <2>4, <2>5 DEF SpInv, ReferencesCount
<1> QED
  BY <1>5, <1>6

LEMMA ResolveFailsInv ==
    ASSUME SpInv, NEW t \in Threads, ResolveFails(t)
    PROVE  SpInv'
<1>1. call' = [call EXCEPT ![t] = Idle] /\ calls' = calls /\ UNCHANGED <<pins, direct, recursive>>
  BY DEF ResolveFails, Goes
<1>2. Refs(Idle) \subseteq Refs(call[t]) /\ calls' \in Nat
  BY <1>1, IdleFacts DEF SpInv, SpTypeOK
<1> QED
  BY <1>1, <1>2, IdleFacts, LettingGo

\* A call that unpins releases one reference.
LEMMA ReleaseInv ==
    ASSUME SpInv, NEW t \in Threads, NEW c \in Refs(call[t]), c \in Cids, NEW k \in Calls, CallOK(k),
           Refs(k) \subseteq Refs(call[t]) \ {c}, call' = [call EXCEPT ![t] = k], calls' = calls,
           UNCHANGED <<direct, recursive>>, pins' \in [Cids -> Pins \cup {NoPin}],
           \A d \in Cids \ {c} : pins'[d] = pins[d],
           pins[c].count <= 1 \/ pins'[c].count = pins[c].count - 1
    PROVE  SpInv'
<1>1. SpTypeOK' /\ CallsOK'
  BY CallFacts DEF SpInv, SpTypeOK
<1>2. ASSUME NEW d \in Cids
      PROVE  /\ IsFiniteSet(Holders(d)') /\ IsFiniteSet(Claims(d)')
             /\ References(d)' = 0 \/ References(d)' <= pins'[d].count
  <2>1. /\ IsFiniteSet(HoldersIn(call', d)) /\ Cardinality(HoldersIn(call', d)) \in Nat
        /\ Cardinality(HoldersIn(call, d)) \in Nat
        /\ d \in Refs(call[t]) => Cardinality(HoldersIn(call, d)) > 0
        /\ d \in Refs(k) /\ d \notin Refs(call[t])
             => Cardinality(HoldersIn(call', d)) = Cardinality(HoldersIn(call, d)) + 1
        /\ d \notin Refs(k) /\ d \in Refs(call[t])
             => Cardinality(HoldersIn(call', d)) = Cardinality(HoldersIn(call, d)) - 1
        /\ (d \in Refs(k) <=> d \in Refs(call[t]))
             => Cardinality(HoldersIn(call', d)) = Cardinality(HoldersIn(call, d))
    BY HolderStep
  <2>2. Claims(d)' = Claims(d) /\ direct'[d] = direct[d]
    BY DEF Claims
  <2>3. direct[d] \in Nat /\ Cardinality(Claims(d)) \in Nat /\ IsFiniteSet(Claims(d))
        /\ (References(d) = 0 \/ References(d) <= pins[d].count) /\ pins[d].count \in Int
    BY ReferenceTypes DEF SpInv, ReferencesCount
  <2>4. CASE d = c
    <3>1. d \notin Refs(k) /\ d \in Refs(call[t])
          /\ (pins[d].count <= 1 \/ pins'[d].count = pins[d].count - 1)
      BY <2>4
    <3>2. /\ IsFiniteSet(Holders(d)') /\ Cardinality(Holders(d)) > 0 /\ Cardinality(Holders(d)) \in Nat
          /\ Cardinality(Holders(d)') = Cardinality(Holders(d)) - 1
      BY <3>1, <2>1 DEF Holders
    <3>3. References(d)' = References(d) - 1 /\ References(d) \in Nat /\ References(d) > 0
      BY <3>2, <2>2, <2>3 DEF References
    <3> QED
      BY <3>1, <3>2, <3>3, <2>2, <2>3
  <2>5. CASE d # c
    <3>1. (d \in Refs(k) => d \in Refs(call[t])) /\ pins'[d] = pins[d]
      BY <2>5
    <3>2. /\ IsFiniteSet(Holders(d)') /\ Cardinality(Holders(d)') <= Cardinality(Holders(d))
          /\ Cardinality(Holders(d)) \in Nat /\ Cardinality(Holders(d)') \in Nat
      BY <3>1, <2>1 DEF Holders
    <3>3. References(d)' <= References(d) /\ References(d) \in Nat /\ References(d)' \in Nat
      BY <3>2, <2>2, <2>3 DEF References
    <3> QED
      BY <3>1, <3>2, <3>3, <2>2, <2>3
  <2> QED
    BY <2>4, <2>5
<1> QED
  BY <1>1, <1>2 DEF SpInv, ReferencesCount

LEMMA UnpinTestInv ==
    ASSUME SpInv, NEW t \in Threads, NEW c \in Cids, UnpinTest(t, c)
    PROVE  SpInv'
<1>1. call[t].at = "unpin" /\ c \in call[t].todo /\ calls' = calls /\ UNCHANGED <<direct, recursive>>
  BY DEF UnpinTest, Goes, At
<1>2. call[t] \in [at : {"unpin"}, todo : SUBSET Cids, seen : SUBSET Cids, deep : BOOLEAN]
  BY <1>1 DEF SpInv, SpTypeOK, Calls
<1>3. CASE Removes(c)
  <2>1. PICK links \in {Links[c], {}} :
          call' = [call EXCEPT ![t] = Onward(t, c, links)] /\ pins' = [pins EXCEPT ![c] = NoPin]
    BY <1>3 DEF UnpinTest, Goes
  <2>2. c \in Ahead(call[t]) /\ SpTypeOK /\ CallsOK
    BY <1>1 DEF Ahead, SpInv
  <2>3. /\ Onward(t, c, links) \in Calls /\ CallOK(Onward(t, c, links)) /\ c \in Refs(call[t])
        /\ Refs(Onward(t, c, links)) \subseteq Refs(call[t]) \ {c}
    BY <1>1, <2>2, OnwardFacts
  <2>4. pins' \in [Cids -> Pins \cup {NoPin}] /\ (\A d \in Cids \ {c} : pins'[d] = pins[d])
        /\ pins[c].count <= 1
    BY <1>3, <2>1 DEF SpInv, SpTypeOK, Removes
  <2> QED
    BY <1>1, <2>1, <2>3, <2>4, ReleaseInv
<1>4. CASE ~ Removes(c)
  <2> DEFINE k == [at |-> "decrement", cid |-> c, todo |-> call[t].todo \ {c},
                   seen |-> call[t].seen, deep |-> call[t].deep]
  <2>1. call' = [call EXCEPT ![t] = k] /\ pins' = pins
    BY <1>4 DEF UnpinTest, Goes
  <2>2. k \in Calls
    BY <1>2 DEF Calls
  <2>3. Ahead(k) = Ahead(call[t]) /\ k.deep = call[t].deep /\ k.seen = call[t].seen /\ k.at = "decrement"
    BY <1>1 DEF Ahead
  <2>4. CallOK(call[t])
    BY DEF SpInv, CallsOK
  <2> HIDE DEF k
  <2>5. CallOK(k) /\ Refs(k) = Refs(call[t])
    BY <1>1, <2>3, <2>4 DEF CallOK, Refs, Reached
  <2>6. calls' \in Nat
    BY <1>1 DEF SpInv, SpTypeOK
  <2> QED
    BY <1>1, <2>1, <2>2, <2>5, <2>6, LettingGo
<1> QED
  BY <1>3, <1>4

LEMMA UnpinDecrementInv ==
    ASSUME SpInv, NEW t \in Threads, UnpinDecrement(t)
    PROVE  SpInv'
<1> DEFINE c == call[t].cid
<1>1. call[t].at = "decrement" /\ calls' = calls /\ UNCHANGED <<direct, recursive>>
  BY DEF UnpinDecrement, Goes, At
<1>2. call[t] \in [at : {"decrement"}, cid : Cids, todo : SUBSET Cids, seen : SUBSET Cids, deep : BOOLEAN]
  BY <1>1 DEF SpInv, SpTypeOK, Calls
<1>3. PICK links \in {Links[c], {}} : call' = [call EXCEPT ![t] = Onward(t, c, links)]
  BY DEF UnpinDecrement, Goes
<1>4. pins' = IF IsPinned(c) THEN [pins EXCEPT ![c].count = @ - 1] ELSE pins
  BY DEF UnpinDecrement
<1>5. c \in Cids /\ c \in Ahead(call[t]) /\ SpTypeOK /\ CallsOK
  BY <1>1, <1>2 DEF Ahead, SpInv
<1>6. /\ Onward(t, c, links) \in Calls /\ CallOK(Onward(t, c, links)) /\ c \in Refs(call[t])
      /\ Refs(Onward(t, c, links)) \subseteq Refs(call[t]) \ {c}
  BY <1>1, <1>5, OnwardFacts
<1> HIDE DEF c
<1>7. ReferencesCount => IsPinned(c) /\ pins[c].count >= 1
  BY <1>5, <1>6, KeptReference DEF SpInv
<1>8. pins[c] \in Pins /\ pins[c].count - 1 \in Nat
  <2>1. pins[c] \in Pins \cup {NoPin} /\ pins[c] # NoPin /\ pins[c].count >= 1
    BY <1>5, <1>7 DEF SpInv, SpTypeOK, IsPinned
  <2> QED
    BY <2>1 DEF Pins
<1>9. pins' \in [Cids -> Pins \cup {NoPin}] /\ (\A d \in Cids \ {c} : pins'[d] = pins[d])
      /\ pins'[c].count = pins[c].count - 1
  <2>1. pins' = [pins EXCEPT ![c] = [pins[c] EXCEPT !.count = @ - 1]]
    BY <1>4, <1>7 DEF SpInv
  <2>2. [pins[c] EXCEPT !.count = @ - 1] \in Pins
    BY <1>8 DEF Pins
  <2> QED
    BY <1>5, <1>8, <2>1, <2>2 DEF SpTypeOK, Pins
<1> QED
  BY <1>1, <1>3, <1>5, <1>6, <1>9, ReleaseInv

LEMMA PinStepPreserves ==
    ASSUME SpInv, NEW t \in Threads, PinStep(t)
    PROVE  SpInv'
<1>1. ASSUME NEW c \in Cids, Pin(t, c) PROVE SpInv'
  BY <1>1, PinStepInv
<1>2. ASSUME NEW c \in Cids, PinRecursive(t, c) PROVE SpInv'
  BY <1>2, PinRecursiveInv
<1>3. ASSUME NEW c \in Cids, Unpin(t, c) PROVE SpInv'
  BY <1>3, UnpinInv
<1>4. ASSUME NEW c \in Cids, UnpinRecursive(t, c) PROVE SpInv'
  BY <1>4, UnpinRecursiveInv
<1>5. ASSUME NEW c \in Cids, ResolveLinks(t, c) PROVE SpInv'
  BY <1>5, ResolveLinksInv
<1>6. ASSUME NEW c \in Cids, PinLink(t, c) PROVE SpInv'
  BY <1>6, PinLinkInv
<1>7. ASSUME NEW c \in Cids, UnpinTest(t, c) PROVE SpInv'
  BY <1>7, UnpinTestInv
<1>8. ASSUME ResolveFails(t) PROVE SpInv'
  BY <1>8, ResolveFailsInv
<1>9. ASSUME UnpinDecrement(t) PROVE SpInv'
  BY <1>9, UnpinDecrementInv
<1> QED
  BY <1>1, <1>2, <1>3, <1>4, <1>5, <1>6, <1>7, <1>8, <1>9 DEF PinStep

LEMMA UnchangedPins ==
    ASSUME SpInv, UNCHANGED pvars
    PROVE  SpInv'
<1>1. pins' = pins /\ call' = call /\ calls' = calls /\ direct' = direct /\ recursive' = recursive
  BY DEF pvars
<1> QED
  BY <1>1 DEF SpInv, SpTypeOK, CallsOK, ReferencesCount, References, Holders, Claims

\* Every pin held and every reference that a call still has is counted in the entry of its
\* block, whatever the threads' pins and unpins do in between one another.
THEOREM PinsCountReferences == SpSpec => []SpInv
<1>1. SpInv /\ [SpNext]_pvars => SpInv'
  BY PinStepPreserves, UnchangedPins DEF SpNext
<1> QED
  BY <1>1, SpInitInv, PTL DEF SpSpec

\* The types of the map, of the calls and of the counts; no count is below zero.
THEOREM SpTypeCorrect == SpSpec => []SpTypeOK
<1>1. SpInv => SpTypeOK
  BY DEF SpInv
<1> QED
  BY <1>1, PinsCountReferences, PTL

LEMMA InvHeld == SpInv => HeldIsPinned
<1> SUFFICES ASSUME SpInv, NEW c \in Cids,
                    direct[c] > 0 \/ \E r \in Cids : recursive[r] > 0 /\ c \in Below(r)
             PROVE  IsPinned(c)
  BY DEF HeldIsPinned
<1>1. direct[c] \in Nat /\ Cardinality(Holders(c)) \in Nat /\ Cardinality(Claims(c)) \in Nat
      /\ (References(c) > 0 => IsPinned(c))
  BY ReferenceTypes
<1>2. CASE direct[c] > 0
  BY <1>1, <1>2 DEF References
<1>3. ASSUME NEW r \in Cids, recursive[r] > 0, c \in Below(r) PROVE IsPinned(c)
  <2>1. recursive[r] \in Nat
    BY DEF SpInv, SpTypeOK
  <2>2. <<r, 1>> \in Claims(c) /\ IsFiniteSet(Claims(c))
    BY <1>3, <2>1 DEF Claims, ClaimsIn, SpInv, ReferencesCount
  <2>3. Cardinality(Claims(c)) # 0
    BY <2>2, FS_EmptySet
  <2> QED
    BY <1>1, <2>3 DEF References
<1> QED
  BY <1>2, <1>3

\* pin and unpin: no interleaving of the steps of pin_recursive, unpin and
\* unpin_recursive takes the entry of a block away that is held directly or lies below a
\* block held recursively.
THEOREM PinsHeldArePinned == SpSpec => []HeldIsPinned
BY InvHeld, PinsCountReferences, PTL

LEMMA InvReference == SpInv => ReferenceIsKept
<1> SUFFICES ASSUME SpInv, NEW t \in Threads, At(t, "decrement")
             PROVE  pins[call[t].cid].count >= 1
  BY DEF ReferenceIsKept
<1>1. call[t] \in [at : {"decrement"}, cid : Cids, todo : SUBSET Cids, seen : SUBSET Cids, deep : BOOLEAN]
      /\ call[t].at = "decrement"
  BY DEF SpInv, SpTypeOK, Calls, At
<1>2. call[t].cid \in Cids /\ call[t].cid \in Ahead(call[t])
  BY <1>1 DEF Ahead
<1>3. SpTypeOK /\ CallsOK /\ {} \in {Links[call[t].cid], {}}
  BY DEF SpInv
<1>4. call[t].cid \in Refs(call[t])
  BY <1>1, <1>2, <1>3, OnwardFacts
<1> QED
  BY <1>2, <1>4, KeptReference

\* unpin, between remove_if and get_mut: the entry is there and its count is at least
\* one, so that the reference that is given back is the call's own.
THEOREM ReferenceKept == SpSpec => []ReferenceIsKept
BY InvReference, PinsCountReferences, PTL

--------------------------------------------------------------------------------
(* The collector.                                                              *)

\* A thread that stores a block changes no pin.
LEMMA PutPins ==
    ASSUME SpInv, NEW t \in Threads, Call(t, Idle), UNCHANGED <<pins, direct, recursive>>
    PROVE  SpInv'
<1>1. call' = [call EXCEPT ![t] = Idle] /\ calls' \in Nat /\ Refs(Idle) \subseteq Refs(call[t])
  BY IdleFacts DEF Call, SpInv, SpTypeOK
<1> QED
  BY <1>1, IdleFacts, LettingGo

\* The pins are as sound beside a collector.
LEMMA PinsBesideCollector == SpInv /\ [SgNext]_sgvars => SpInv'
<1> SUFFICES ASSUME SpInv, [SgNext]_sgvars PROVE SpInv'
  OBVIOUS
<1>1. ASSUME NEW t \in Threads, ThreadStep(t) PROVE SpInv'
  BY <1>1, PinStepPreserves DEF ThreadStep
<1>2. ASSUME NEW t \in Threads, NEW c \in Cids, Put(t, c) PROVE SpInv'
  BY <1>2, PutPins DEF Put
<1>3. CASE UNCHANGED pvars
  BY <1>3, UnchangedPins
<1>4. ASSUME NEW g \in Tasks, Start(g) \/ GcStep(g) PROVE UNCHANGED pvars
  BY <1>4 DEF Start, GcStep, ListPin, Mark, Delete, MarkBreaks, Check, Sweep, End
<1> QED
  BY <1>1, <1>2, <1>3, <1>4 DEF SgNext, Cancel, sgvars

\* How many blocks a collection has deleted, or is about to delete.  A dry run deletes
\* nothing.
Within(k) ==
    /\ k.at = "delete" => ~ config.dry
    /\ k.at # "idle" /\ config.max > 0
       => IF config.dry THEN k.collected <= config.max
          ELSE k.collected + Cardinality(k.batch) < config.max + BatchSize

SgBounds == SgTypeOK /\ \A g \in Tasks : Within(gc[g])

\* A task goes on while the others, the configuration and the pins stay.
LEMMA TaskGoes ==
    ASSUME SgBounds, SpTypeOK', NEW g \in Tasks, NEW k \in Collections \cup [at : {"idle"}],
           GcGoes(g, k), Within(k), UNCHANGED <<config, store>>, cancelled' \in BOOLEAN,
           running' \in BOOLEAN, runs' \in Nat
    PROVE  SgBounds'
<1>1. gc' \in [Tasks -> [at : {"idle"}] \cup Collections]
  BY DEF GcGoes, SgBounds, SgTypeOK
<1>2. SgTypeOK'
  BY <1>1 DEF SgBounds, SgTypeOK
<1>3. ASSUME NEW h \in Tasks PROVE Within(gc[h])'
  <2>1. Within(gc'[h])
    BY DEF SgBounds, SgTypeOK, GcGoes
  <2> QED
    BY <2>1 DEF Within, BatchSize
<1> QED
  BY <1>2, <1>3 DEF SgBounds

LEMMA TaskFacts ==
    ASSUME SgBounds, NEW g \in Tasks, gc[g].at # "idle"
    PROVE  /\ gc[g] \in Collections /\ Within(gc[g])
           /\ cancelled \in BOOLEAN /\ running \in BOOLEAN /\ runs \in Nat /\ store \subseteq Cids
           /\ config \in [max : Nat, incremental : BOOLEAN, batch : Nat \ {0}, dry : BOOLEAN]
BY StorageGcAssumption DEF SgBounds, SgTypeOK

LEMMA BatchSizeType == SgTypeOK => BatchSize \in Nat
BY StorageGcAssumption, FS_CardinalityType DEF SgTypeOK, BatchSize

LEMMA StartBounds ==
    ASSUME SgBounds, SpTypeOK', NEW g \in Tasks, Start(g)
    PROVE  SgBounds'
<1> DEFINE k == [at |-> "list", todo |-> Cids, marked |-> {}, queue |-> {},
                 batch |-> {}, collected |-> 0,
                 kept |-> {c \in Cids : IsPinned(c)},
                 there |-> {c \in store : Links[c] # {} /\ pins[c].type # "Indirect"}]
<1>1. store \subseteq Cids /\ running \in BOOLEAN /\ runs \in Nat
      /\ config \in [max : Nat, incremental : BOOLEAN, batch : Nat \ {0}, dry : BOOLEAN]
  BY StorageGcAssumption DEF SgBounds, SgTypeOK
<1>2. k \in Collections
  BY <1>1 DEF Collections
<1>3. Within(k)
  <2>1. k.at = "list" /\ k.collected = 0 /\ Cardinality(k.batch) = 0
    BY FS_EmptySet
  <2>2. BatchSize \in Nat
    BY BatchSizeType DEF SgBounds
  <2> HIDE DEF k
  <2> QED
    BY <1>1, <2>1, <2>2 DEF Within
<1>4. GcGoes(g, k) /\ UNCHANGED <<config, store>> /\ cancelled' \in BOOLEAN
      /\ running' = (running \/ g \notin Direct) /\ runs' = runs + 1
  BY DEF Start
<1>5. running' \in BOOLEAN
  BY <1>4
<1>6. runs' \in Nat
  BY <1>1, <1>4
<1> HIDE DEF k
<1> QED
  BY <1>2, <1>3, <1>4, <1>5, <1>6, TaskGoes

\* A step of a task that deletes nothing and counts nothing.
LEMMA QuietStepBounds ==
    ASSUME SgBounds, SpTypeOK', NEW g \in Tasks, gc[g].at # "idle", NEW k \in Collections,
           k.at # "delete", GcGoes(g, k), k.collected = gc[g].collected, k.batch = gc[g].batch,
           UNCHANGED <<config, store, cancelled, running, runs>>
    PROVE  SgBounds'
<1>1. Within(k)
  BY TaskFacts DEF Within, Collections
<1>2. UNCHANGED <<config, store>> /\ cancelled' \in BOOLEAN /\ running' \in BOOLEAN /\ runs' \in Nat
  BY TaskFacts
<1> QED
  BY <1>1, <1>2, TaskGoes

LEMMA MarkingBounds ==
    ASSUME SgBounds, SpTypeOK', NEW g \in Tasks,
           (\E c \in Cids : ListPin(g, c) \/ Mark(g, c)) \/ MarkBreaks(g) \/ Check(g)
    PROVE  SgBounds'
<1>1. gc[g].at # "idle" /\ UNCHANGED <<config, store, cancelled, running, runs>>
  BY DEF ListPin, Mark, MarkBreaks, Check, GcAt
<1>2. gc[g] \in Collections /\ store \subseteq Cids
  BY <1>1, TaskFacts
<1>3. ASSUME NEW c \in Cids, ListPin(g, c) PROVE SgBounds'
  <2> DEFINE k == [gc[g] EXCEPT !.todo = @ \ {c},
           !.marked = IF IsPinned(c) THEN @ \cup {c} ELSE @,
           !.queue = IF pins[c].type \in {"Direct", "Recursive"} THEN @ \cup {c} ELSE @,
           !.at = IF gc[g].todo = {c} THEN "mark" ELSE "list"]
  <2>1. GcGoes(g, k)
    BY <1>3 DEF ListPin
  <2>2. pins[c].type \in {"Direct", "Recursive"} => IsPinned(c)
    BY DEF IsPinned, NoPin
  <2>3. k \in Collections /\ k.at # "delete" /\ k.collected = gc[g].collected /\ k.batch = gc[g].batch
    BY <1>2, <2>2 DEF Collections
  <2> HIDE DEF k
  <2> QED
    BY <1>1, <2>1, <2>3, QuietStepBounds
<1>4. ASSUME NEW c \in Cids, Mark(g, c) PROVE SgBounds'
  <2>1. PICK ok \in BOOLEAN :
          LET new == IF ok THEN Links[c] \ gc[g].marked ELSE {}
          IN  GcGoes(g, [gc[g] EXCEPT !.marked = @ \cup new, !.queue = (@ \ {c}) \cup new,
                                      !.there = IF ok THEN @ ELSE @ \ {c}])
    BY <1>4 DEF Mark
  <2> DEFINE new == IF ok THEN Links[c] \ gc[g].marked ELSE {}
             k == [gc[g] EXCEPT !.marked = @ \cup new, !.queue = (@ \ {c}) \cup new,
                                !.there = IF ok THEN @ ELSE @ \ {c}]
  <2>2. GcGoes(g, k)
    BY <2>1
  <2>3. new \subseteq Cids /\ gc[g].at = "mark"
    BY <1>4, PinsAssumption DEF Mark, GcAt
  <2> HIDE DEF new
  <2>4. k \in Collections /\ k.at # "delete" /\ k.collected = gc[g].collected /\ k.batch = gc[g].batch
    BY <1>2, <2>3 DEF Collections
  <2> HIDE DEF k
  <2> QED
    BY <1>1, <2>2, <2>4, QuietStepBounds
<1>5. ASSUME MarkBreaks(g) PROVE SgBounds'
  <2> DEFINE k == [gc[g] EXCEPT !.at = "check", !.queue = {}, !.there = @ \ gc[g].queue]
  <2>1. GcGoes(g, k)
    BY <1>5 DEF MarkBreaks
  <2>2. k \in Collections /\ k.at # "delete" /\ k.collected = gc[g].collected /\ k.batch = gc[g].batch
    BY <1>2 DEF Collections
  <2> HIDE DEF k
  <2> QED
    BY <1>1, <2>1, <2>2, QuietStepBounds
<1>6. ASSUME Check(g) PROVE SgBounds'
  <2>1. PICK k \in {[gc[g] EXCEPT !.at = "sweep", !.todo = store], [gc[g] EXCEPT !.at = "end"]} : GcGoes(g, k)
    BY <1>6 DEF Check
  <2>2. k \in Collections /\ k.at # "delete" /\ k.collected = gc[g].collected /\ k.batch = gc[g].batch
    BY <1>2 DEF Collections
  <2> QED
    BY <1>1, <2>1, <2>2, QuietStepBounds
<1> QED
  BY <1>3, <1>4, <1>5, <1>6

\* The sweep: a batch, or a dry run's count, fits under the limit.
LEMMA SweepBounds ==
    ASSUME SgBounds, SpTypeOK', NEW g \in Tasks, Sweep(g)
    PROVE  SgBounds'
<1>1. gc[g].at = "sweep" /\ UNCHANGED <<config, store, cancelled, running, runs>>
  BY DEF Sweep, GcAt
<1>2. gc[g] \in Collections /\ Within(gc[g])
      /\ config \in [max : Nat, incremental : BOOLEAN, batch : Nat \ {0}, dry : BOOLEAN]
      /\ cancelled \in BOOLEAN /\ running \in BOOLEAN /\ runs \in Nat
  BY <1>1, TaskFacts
<1>3. PICK scanned \in SUBSET gc[g].todo :
        LET dead == IF LimitReached(g) THEN {} ELSE scanned \ gc[g].marked
            full == config.incremental /\ Cardinality(dead) = config.batch
            todo == IF full THEN gc[g].todo \ scanned ELSE {}
        IN  /\ Cardinality(dead) <= Room(g)
            /\ GcGoes(g, IF config.dry
                   THEN [gc[g] EXCEPT !.at = IF todo = {} THEN "end" ELSE "sweep",
                           !.todo = todo, !.collected = @ + Cardinality(dead)]
                   ELSE [gc[g] EXCEPT !.at = IF dead = {} THEN "end" ELSE "delete",
                           !.todo = todo, !.batch = dead])
  BY DEF Sweep
<1> DEFINE dead == IF LimitReached(g) THEN {} ELSE scanned \ gc[g].marked
           full == config.incremental /\ Cardinality(dead) = config.batch
           todo == IF full THEN gc[g].todo \ scanned ELSE {}
           counts == [gc[g] EXCEPT !.at = IF todo = {} THEN "end" ELSE "sweep",
                        !.todo = todo, !.collected = @ + Cardinality(dead)]
           deletes == [gc[g] EXCEPT !.at = IF dead = {} THEN "end" ELSE "delete",
                        !.todo = todo, !.batch = dead]
<1>4. Cardinality(dead) <= Room(g) /\ GcGoes(g, IF config.dry THEN counts ELSE deletes)
  BY <1>3
<1>5. dead \subseteq Cids /\ todo \subseteq Cids /\ (LimitReached(g) => dead = {})
  BY <1>2 DEF Collections
<1> HIDE DEF dead, todo
<1>6. Cardinality(dead) \in Nat /\ (LimitReached(g) => Cardinality(dead) = 0)
  <2>1. IsFiniteSet(dead)
    BY <1>5, StorageGcAssumption, FS_Subset
  <2> QED
    BY <1>5, <2>1, FS_CardinalityType, FS_EmptySet
<1>7. Cardinality(gc[g].batch) \in Nat /\ gc[g].collected \in Nat
  <2>1. IsFiniteSet(gc[g].batch)
    BY <1>2, StorageGcAssumption, FS_Subset DEF Collections
  <2> QED
    BY <1>2, <2>1, FS_CardinalityType DEF Collections
<1>8. CASE config.dry
  <2> DEFINE sum == gc[g].collected + Cardinality(dead)
             stop == IF todo = {} THEN "end" ELSE "sweep"
  <2>4. sum \in Nat /\ stop \in {"end", "sweep"}
    BY <1>6, <1>7
  <2>5. counts = [gc[g] EXCEPT !.at = stop, !.todo = todo, !.collected = sum]
    OBVIOUS
  <2> HIDE DEF sum, stop, counts
  <2>6. counts \in Collections /\ counts.at # "delete" /\ counts.collected = sum
    BY <1>2, <1>5, <2>4, <2>5 DEF Collections
  <2>1. counts \in Collections /\ counts.at # "delete" /\ counts.collected = gc[g].collected + Cardinality(dead)
    BY <2>6 DEF sum
  <2>2. config.max > 0 => gc[g].collected + Cardinality(dead) <= config.max
    BY <1>1, <1>2, <1>4, <1>6, <1>7, <1>8 DEF Room, Within
  <2>3. Within(counts)
    BY <1>8, <2>1, <2>2 DEF Within
  <2> QED
    BY <1>1, <1>2, <1>4, <1>8, <2>1, <2>3, TaskGoes
<1>9. CASE ~ config.dry
  <2>1. deletes \in Collections /\ deletes.collected = gc[g].collected /\ deletes.batch = dead
    BY <1>2, <1>5 DEF Collections
  <2> HIDE DEF deletes
  <2>2. config.max > 0 => gc[g].collected + Cardinality(dead) < config.max + BatchSize
    <3> BatchSize \in Nat
      BY BatchSizeType DEF SgBounds
    <3>1. CASE LimitReached(g)
      BY <1>1, <1>2, <1>6, <1>7, <1>9, <3>1 DEF Within
    <3>2. CASE ~ LimitReached(g)
      BY <1>2, <1>4, <1>6, <1>7, <1>9, <3>2 DEF LimitReached, Room
    <3> QED
      BY <3>1, <3>2
  <2>3. Within(deletes)
    BY <1>9, <2>1, <2>2 DEF Within
  <2> QED
    BY <1>1, <1>2, <1>4, <1>9, <2>1, <2>3, TaskGoes
<1> QED
  BY <1>8, <1>9

\* What of a collection is within bounds does not depend on its history.
LEMMA HistoryShrinks ==
    ASSUME NEW k \in Collections, Within(k), NEW n \in Collections,
           n.at = k.at, n.collected = k.collected, n.batch = k.batch
    PROVE  Within(n)
BY DEF Within

\* Every task's state stays sound.
LEMMA TasksGo ==
    ASSUME SgBounds, SpTypeOK', config' = config, store' \subseteq Cids,
           NEW f, gc' = [h \in Tasks |-> f[h]],
           \A h \in Tasks : f[h] \in [at : {"idle"}] \cup Collections /\ Within(f[h]),
           cancelled' \in BOOLEAN, running' \in BOOLEAN, runs' \in Nat
    PROVE  SgBounds'
<1>1. gc' \in [Tasks -> [at : {"idle"}] \cup Collections]
  OBVIOUS
<1>2. SgTypeOK'
  BY <1>1 DEF SgBounds, SgTypeOK
<1>3. ASSUME NEW h \in Tasks PROVE Within(gc[h])'
  BY DEF Within, BatchSize
<1> QED
  BY <1>2, <1>3 DEF SgBounds

LEMMA DeleteBounds ==
    ASSUME SgBounds, SpTypeOK', NEW g \in Tasks, NEW c \in Cids, Delete(g, c)
    PROVE  SgBounds'
<1>1. gc[g].at = "delete" /\ c \in gc[g].batch /\ UNCHANGED <<config, cancelled, running, runs>>
  BY DEF Delete, GcAt
<1>2. gc[g] \in Collections /\ Within(gc[g]) /\ store \subseteq Cids
      /\ config \in [max : Nat, incremental : BOOLEAN, batch : Nat \ {0}, dry : BOOLEAN]
      /\ cancelled \in BOOLEAN /\ running \in BOOLEAN /\ runs \in Nat
  BY <1>1, TaskFacts
<1>3. PICK ok \in BOOLEAN :
        /\ store' = IF ok THEN store \ {c} ELSE store
        /\ gc' = [h \in Tasks |->
               LET next == IF h # g THEN gc[h]
                           ELSE [gc[h] EXCEPT !.batch = @ \ {c},
                                   !.collected = IF ok THEN @ + 1 ELSE @,
                                   !.at = IF gc[h].batch # {c} THEN "delete"
                                          ELSE IF gc[h].todo = {} THEN "end" ELSE "sweep"]
               IN  IF GcAt(h, "idle") THEN next ELSE [next EXCEPT !.there = @ \cap store']]
  BY DEF Delete
<1> DEFINE step == IF gc[g].batch # {c} THEN "delete" ELSE IF gc[g].todo = {} THEN "end" ELSE "sweep"
           count == IF ok THEN gc[g].collected + 1 ELSE gc[g].collected
           next == [gc[g] EXCEPT !.batch = @ \ {c}, !.collected = count, !.at = step]
           last == [next EXCEPT !.there = @ \cap store']
<1>4. count \in Nat /\ count <= gc[g].collected + 1 /\ step \in {"delete", "end", "sweep"}
  BY <1>2 DEF Collections
<1>5. store' \subseteq Cids
  BY <1>2, <1>3
<1>6. gc'[g] = last
  BY <1>1, <1>3 DEF GcAt
<1> HIDE DEF count, step
<1>7. last \in Collections /\ last.batch = gc[g].batch \ {c} /\ last.collected = count
  BY <1>2, <1>4 DEF Collections
<1> HIDE DEF last
<1>8. Within(last)
  <2>1. gc[g].collected \in Nat /\ IsFiniteSet(gc[g].batch)
    BY <1>2, StorageGcAssumption, FS_Subset DEF Collections
  <2>2. Cardinality(gc[g].batch \ {c}) = Cardinality(gc[g].batch) - 1 /\ Cardinality(gc[g].batch) \in Nat
    BY <1>1, <2>1, FS_RemoveElement, FS_CardinalityType
  <2>3. ~ config.dry
    BY <1>1, <1>2 DEF Within
  <2>4. BatchSize \in Nat
    BY BatchSizeType DEF SgBounds
  <2> QED
    BY <1>1, <1>2, <1>4, <1>7, <2>1, <2>2, <2>3, <2>4 DEF Within
<1>9. ASSUME NEW h \in Tasks PROVE gc'[h] \in [at : {"idle"}] \cup Collections /\ Within(gc'[h])
  <2>1. CASE h = g
    BY <1>6, <1>7, <1>8, <2>1
  <2>2. CASE h # g /\ gc[h].at = "idle"
    <3>1. gc'[h] = gc[h]
      BY <1>3, <2>2 DEF GcAt
    <3> QED
      BY <3>1 DEF SgBounds, SgTypeOK
  <2>3. CASE h # g /\ gc[h].at # "idle"
    <3>1. gc'[h] = [gc[h] EXCEPT !.there = @ \cap store']
      BY <1>3, <2>3 DEF GcAt
    <3>2. gc[h] \in Collections /\ Within(gc[h])
      BY <2>3, TaskFacts
    <3>3. gc'[h] \in Collections /\ gc'[h].at = gc[h].at /\ gc'[h].collected = gc[h].collected
          /\ gc'[h].batch = gc[h].batch
      BY <3>1, <3>2 DEF Collections
    <3> QED
      BY <3>2, <3>3, HistoryShrinks
  <2> QED
    BY <2>1, <2>2, <2>3
<1>10. gc' = [h \in Tasks |-> gc'[h]]
  BY <1>3
<1> QED
  BY <1>1, <1>2, <1>5, <1>9, <1>10, TasksGo

LEMMA ThreadBounds ==
    ASSUME SgBounds, SpTypeOK', NEW t \in Threads, ThreadStep(t)
    PROVE  SgBounds'
<1>1. UNCHANGED <<config, store, cancelled, running, runs>>
      /\ gc' = [g \in Tasks |-> IF GcAt(g, "idle") THEN gc[g]
               ELSE [gc[g] EXCEPT !.kept = {c \in @ : pins'[c] # NoPin},
                                  !.there = {c \in @ : pins'[c].type # "Indirect"}]]
  BY DEF ThreadStep
<1>2. ASSUME NEW h \in Tasks PROVE gc'[h] \in [at : {"idle"}] \cup Collections /\ Within(gc'[h])
  <2>1. CASE gc[h].at = "idle"
    <3>1. gc'[h] = gc[h]
      BY <1>1, <2>1 DEF GcAt
    <3> QED
      BY <3>1 DEF SgBounds, SgTypeOK
  <2>2. CASE gc[h].at # "idle"
    <3>1. gc'[h] = [gc[h] EXCEPT !.kept = {c \in @ : pins'[c] # NoPin},
                                 !.there = {c \in @ : pins'[c].type # "Indirect"}]
      BY <1>1, <2>2 DEF GcAt
    <3>2. gc[h] \in Collections /\ Within(gc[h])
      BY <2>2, TaskFacts
    <3>3. gc'[h] \in Collections /\ gc'[h].at = gc[h].at /\ gc'[h].collected = gc[h].collected
          /\ gc'[h].batch = gc[h].batch
      BY <3>1, <3>2 DEF Collections
    <3> QED
      BY <3>2, <3>3, HistoryShrinks
  <2> QED
    BY <2>1, <2>2
<1>3. gc' = [h \in Tasks |-> gc'[h]]
  BY <1>1
<1>4. store' \subseteq Cids /\ config' = config /\ cancelled' \in BOOLEAN /\ running' \in BOOLEAN
      /\ runs' \in Nat
  BY <1>1 DEF SgBounds, SgTypeOK
<1> QED
  BY <1>2, <1>3, <1>4, TasksGo

LEMMA SgStepBounds == SpInv /\ SgBounds /\ [SgNext]_sgvars => SgBounds'
<1> SUFFICES ASSUME SpInv, SgBounds, [SgNext]_sgvars PROVE SgBounds'
  OBVIOUS
<1>1. SpTypeOK'
  BY PinsBesideCollector DEF SpInv
<1>2. ASSUME NEW t \in Threads, ThreadStep(t) PROVE SgBounds'
  BY <1>1, <1>2, ThreadBounds
<1>3. ASSUME gc' = gc, config' = config, running' = running, runs' = runs,
             store' \subseteq Cids, cancelled' \in BOOLEAN
      PROVE  SgBounds'
  BY <1>1, <1>3 DEF SgBounds, SgTypeOK, Within, BatchSize
<1>4. ASSUME NEW t \in Threads, NEW c \in Cids, Put(t, c) PROVE SgBounds'
  <2>1. gc' = gc /\ config' = config /\ running' = running /\ runs' = runs
        /\ store' = store \cup {c} /\ cancelled' = cancelled
    BY <1>4 DEF Put
  <2>2. store \subseteq Cids /\ cancelled \in BOOLEAN
    BY DEF SgBounds, SgTypeOK
  <2> QED
    BY <1>3, <2>1, <2>2
<1>5. ASSUME NEW g \in Tasks, Start(g) PROVE SgBounds'
  BY <1>1, <1>5, StartBounds
<1>6. ASSUME NEW g \in Tasks, NEW c \in Cids, Delete(g, c) PROVE SgBounds'
  BY <1>1, <1>6, DeleteBounds
<1>7. ASSUME NEW g \in Tasks, Sweep(g) PROVE SgBounds'
  BY <1>1, <1>7, SweepBounds
<1>8. ASSUME NEW g \in Tasks,
             (\E c \in Cids : ListPin(g, c) \/ Mark(g, c)) \/ MarkBreaks(g) \/ Check(g)
      PROVE  SgBounds'
  BY <1>1, <1>8, MarkingBounds
<1>9. ASSUME NEW g \in Tasks, End(g) PROVE SgBounds'
  <2>1. GcGoes(g, Idle) /\ UNCHANGED <<config, store, cancelled, runs>>
        /\ running' = (running /\ g \in Direct)
    BY <1>9 DEF End
  <2>2. running' \in BOOLEAN
    BY <2>1
  <2>3. cancelled' \in BOOLEAN /\ runs' \in Nat
    BY <2>1 DEF SgBounds, SgTypeOK
  <2>4. Idle \in Collections \cup [at : {"idle"}] /\ Within(Idle)
    BY DEF Idle, Within
  <2> QED
    BY <1>1, <2>1, <2>2, <2>3, <2>4, TaskGoes
<1>10. CASE Cancel \/ UNCHANGED sgvars
  <2>1. gc' = gc /\ config' = config /\ running' = running /\ runs' = runs /\ store' = store
        /\ (cancelled' = TRUE \/ cancelled' = cancelled)
    BY <1>10 DEF Cancel, sgvars
  <2>2. store \subseteq Cids /\ cancelled \in BOOLEAN
    BY DEF SgBounds, SgTypeOK
  <2>3. cancelled' \in BOOLEAN
    BY <2>1, <2>2
  <2> QED
    BY <1>3, <2>1, <2>2, <2>3
<1> QED
  BY <1>2, <1>4, <1>5, <1>6, <1>7, <1>8, <1>9, <1>10 DEF SgNext, GcStep

LEMMA SgInitBounds == SgInit => SpInv /\ SgBounds
<1> SUFFICES ASSUME SgInit PROVE SpInv /\ SgBounds
  OBVIOUS
<1>1. SpInv
  BY SpInitInv DEF SgInit
<1>2. SgTypeOK
  BY <1>1, StorageGcAssumption DEF SgInit, SgTypeOK, SpInv, Idle
<1>3. \A g \in Tasks : Within(gc[g])
  BY DEF SgInit, Within, Idle
<1> QED
  BY <1>1, <1>2, <1>3 DEF SgBounds

\* The types of the collector's state, and of the pins beside it.
THEOREM SgTypeCorrect == SgSpec => []SgTypeOK
<1>1. SpInv /\ SgBounds => SgTypeOK
  BY DEF SgBounds
<1> QED
  BY <1>1, SgInitBounds, PinsBesideCollector, SgStepBounds, PTL DEF SgSpec

\* sweep_phase and max_blocks_per_run, whatever is pinned, stored and cancelled meanwhile:
\* a collection deletes less than a batch more than the limit, where the one batch of a
\* collection that is not incremental has all the blocks; and a dry run counts no more
\* than the limit.
THEOREM CollectionIsBounded == SgSpec => []CollectedBounded
<1>1. SgBounds => CollectedBounded
  <2> SUFFICES ASSUME SgBounds, NEW g \in Tasks, gc[g].at # "idle", config.max > 0
               PROVE  gc[g].collected < config.max + (IF config.dry THEN 1 ELSE BatchSize)
    BY DEF CollectedBounded
  <2>1. gc[g] \in Collections /\ Within(gc[g])
        /\ config \in [max : Nat, incremental : BOOLEAN, batch : Nat \ {0}, dry : BOOLEAN]
    BY TaskFacts
  <2>2. gc[g].collected \in Nat /\ IsFiniteSet(gc[g].batch)
    BY <2>1, StorageGcAssumption, FS_Subset DEF Collections
  <2>3. Cardinality(gc[g].batch) \in Nat /\ BatchSize \in Nat
    BY <2>2, FS_CardinalityType, BatchSizeType DEF SgBounds
  <2> QED
    BY <2>1, <2>2, <2>3 DEF Within
<1> QED
  BY <1>1, SgInitBounds, PinsBesideCollector, SgStepBounds, PTL DEF SgSpec

\* What a collection's history says, and what it has marked: while it lists the pins,
\* the pins it has met; the links of every block that is through the queue, unless the
\* resolver failed on it or a cancel left it there; and none of this on a batch.
Follows(k) ==
    k.at # "idle" =>
        /\ \A c \in k.kept : IsPinned(c)
        /\ \A c \in k.there : c \in store /\ pins[c].type # "Indirect"

Marks(k) ==
    /\ k.at = "list" => k.kept \ k.todo \subseteq k.marked
    /\ k.at \in {"mark", "check", "sweep", "delete"} => k.kept \subseteq k.marked
    /\ k.at \in {"list", "mark"} =>
         \A c \in k.marked \cap k.there : c \in k.queue \/ Links[c] \subseteq k.marked
    /\ k.at \in {"check", "sweep", "delete"} =>
         \A c \in k.marked \cap k.there : Links[c] \subseteq k.marked
    /\ k.at = "delete" => k.batch \cap k.marked = {}

SgMarks == \A g \in Tasks : Follows(gc[g]) /\ Marks(gc[g])

LEMMA StartMarks ==
    ASSUME SgTypeOK, SgMarks, NEW g \in Tasks, Start(g)
    PROVE  SgMarks'
<1> SUFFICES ASSUME NEW h \in Tasks PROVE Follows(gc[h])' /\ Marks(gc[h])'
  BY DEF SgMarks
<1>1. UNCHANGED <<pins, store>> /\ gc[g].at = "idle"
      /\ gc' = [gc EXCEPT ![g] = [at |-> "list", todo |-> Cids, marked |-> {}, queue |-> {},
                  batch |-> {}, collected |-> 0,
                  kept |-> {c \in Cids : IsPinned(c)},
                  there |-> {c \in store : Links[c] # {} /\ pins[c].type # "Indirect"}]]
  BY DEF Start, GcGoes, GcAt, pvars
<1>2. CASE h = g
  BY <1>1, <1>2 DEF SgTypeOK, Follows, Marks, IsPinned
<1>3. CASE h # g
  <2>1. gc'[h] = gc[h]
    BY <1>1, <1>3 DEF SgTypeOK
  <2> QED
    BY <1>1, <2>1 DEF SgMarks, Follows, Marks, IsPinned
<1> QED
  BY <1>2, <1>3

\* A task goes on while pins, store and cancel flag stay.
LEMMA TaskMarks ==
    ASSUME SgTypeOK, SgMarks, NEW g \in Tasks, NEW k, GcGoes(g, k),
           UNCHANGED <<pvars, store, cancelled>>, Follows(k), Marks(k)
    PROVE  SgMarks'
<1> SUFFICES ASSUME NEW h \in Tasks PROVE Follows(gc[h])' /\ Marks(gc[h])'
  BY DEF SgMarks
<1>1. gc' = [gc EXCEPT ![g] = k] /\ UNCHANGED <<pins, store, cancelled>>
  BY DEF GcGoes, pvars
<1>2. Follows(gc'[h]) /\ Marks(gc'[h])
  BY <1>1 DEF SgTypeOK, SgMarks
<1> QED
  BY <1>1, <1>2 DEF Follows, Marks, IsPinned

LEMMA ListPinMarks ==
    ASSUME SpInv, SgTypeOK, SgMarks, NEW g \in Tasks, NEW c \in Cids, ListPin(g, c)
    PROVE  SgMarks'
<1> DEFINE k == [gc[g] EXCEPT !.todo = @ \ {c},
           !.marked = IF IsPinned(c) THEN @ \cup {c} ELSE @,
           !.queue = IF pins[c].type \in {"Direct", "Recursive"} THEN @ \cup {c} ELSE @,
           !.at = IF gc[g].todo = {c} THEN "mark" ELSE "list"]
<1>1. GcGoes(g, k) /\ UNCHANGED <<pvars, store, cancelled>> /\ gc[g].at = "list" /\ c \in gc[g].todo
  BY DEF ListPin, GcAt
<1>2. gc[g] \in Collections /\ Follows(gc[g]) /\ Marks(gc[g])
  BY <1>1 DEF SgTypeOK, SgMarks
<1>3. /\ k.at = (IF gc[g].todo = {c} THEN "mark" ELSE "list") /\ k.kept = gc[g].kept
      /\ k.there = gc[g].there /\ k.todo = gc[g].todo \ {c}
      /\ k.marked = (IF IsPinned(c) THEN gc[g].marked \cup {c} ELSE gc[g].marked)
      /\ k.queue = (IF pins[c].type \in {"Direct", "Recursive"} THEN gc[g].queue \cup {c} ELSE gc[g].queue)
  BY <1>2 DEF Collections
<1> HIDE DEF k
<1>4. IsPinned(c) => pins[c].type \in {"Direct", "Recursive", "Indirect"}
  BY DEF SpInv, SpTypeOK, IsPinned, Pins
<1>5. Follows(k)
  BY <1>1, <1>2, <1>3 DEF Follows
<1>6. ASSUME NEW d \in k.marked \cap k.there PROVE d \in k.queue \/ Links[d] \subseteq k.marked
  <2>1. CASE d = c /\ IsPinned(c)
    BY <1>1, <1>2, <1>3, <1>4, <2>1 DEF Follows
  <2>2. CASE d \in gc[g].marked
    BY <1>1, <1>2, <1>3, <2>2 DEF Marks
  <2> QED
    BY <1>3, <2>1, <2>2
<1>7. k.kept \ k.todo \subseteq k.marked
  <2> SUFFICES ASSUME NEW d \in k.kept, d \notin k.todo PROVE d \in k.marked
    OBVIOUS
  <2> QED
    BY <1>1, <1>2, <1>3 DEF Follows, Marks
<1>8. k.at = "mark" => k.todo = {}
  BY <1>3
<1>9. Marks(k)
  BY <1>3, <1>6, <1>7, <1>8 DEF Marks
<1> QED
  BY <1>1, <1>5, <1>9, TaskMarks

LEMMA MarkMarks ==
    ASSUME SgTypeOK, SgMarks, NEW g \in Tasks, NEW c \in Cids, Mark(g, c)
    PROVE  SgMarks'
<1>0. PICK ok \in BOOLEAN :
        LET new == IF ok THEN Links[c] \ gc[g].marked ELSE {}
        IN  GcGoes(g, [gc[g] EXCEPT !.marked = @ \cup new, !.queue = (@ \ {c}) \cup new,
                                    !.there = IF ok THEN @ ELSE @ \ {c}])
  BY DEF Mark
<1> DEFINE new == IF ok THEN Links[c] \ gc[g].marked ELSE {}
           k == [gc[g] EXCEPT !.marked = @ \cup new, !.queue = (@ \ {c}) \cup new,
                              !.there = IF ok THEN @ ELSE @ \ {c}]
<1>1. GcGoes(g, k) /\ UNCHANGED <<pvars, store, cancelled>> /\ gc[g].at = "mark"
  BY <1>0 DEF Mark, GcAt
<1>2. gc[g] \in Collections /\ Follows(gc[g]) /\ Marks(gc[g])
  BY <1>1 DEF SgTypeOK, SgMarks
<1>3. /\ k.at = "mark" /\ k.kept = gc[g].kept /\ k.there = (IF ok THEN gc[g].there ELSE gc[g].there \ {c})
      /\ k.marked = gc[g].marked \cup new /\ k.queue = (gc[g].queue \ {c}) \cup new
  BY <1>1, <1>2 DEF Collections
<1> HIDE DEF k
<1>4. Follows(k)
  BY <1>1, <1>2, <1>3 DEF Follows
<1>5. ASSUME NEW d \in k.marked \cap k.there PROVE d \in k.queue \/ Links[d] \subseteq k.marked
  <2>1. CASE d = c
    BY <1>1, <1>2, <1>3, <2>1 DEF Follows
  <2>2. CASE d # c
    BY <1>1, <1>2, <1>3, <2>2 DEF Marks
  <2> QED
    BY <2>1, <2>2
<1>6. k.kept \subseteq k.marked
  BY <1>1, <1>2, <1>3 DEF Marks
<1>7. Marks(k)
  BY <1>3, <1>5, <1>6 DEF Marks
<1> QED
  BY <1>1, <1>4, <1>7, TaskMarks

LEMMA CheckMarks ==
    ASSUME SgTypeOK, SgMarks, NEW g \in Tasks, MarkBreaks(g) \/ Check(g) \/ End(g)
    PROVE  SgMarks'
<1>1. gc[g].at # "idle" /\ UNCHANGED <<pvars, store, cancelled>>
  BY DEF MarkBreaks, Check, End, GcAt
<1>2. gc[g] \in Collections /\ Follows(gc[g]) /\ Marks(gc[g])
  BY <1>1 DEF SgTypeOK, SgMarks
<1>4. CASE MarkBreaks(g)
  <2> DEFINE k == [gc[g] EXCEPT !.at = "check", !.queue = {}, !.there = @ \ gc[g].queue]
  <2>1. gc[g].at = "mark" /\ GcGoes(g, k)
    BY <1>4 DEF MarkBreaks, GcAt
  <2>2. /\ k.at = "check" /\ k.kept = gc[g].kept /\ k.marked = gc[g].marked
        /\ k.there = gc[g].there \ gc[g].queue
    BY <1>2 DEF Collections
  <2> HIDE DEF k
  <2>3. Follows(k) /\ Marks(k)
    BY <1>2, <2>1, <2>2 DEF Follows, Marks
  <2> QED
    BY <1>1, <2>1, <2>3, TaskMarks
<1>5. CASE Check(g) /\ GcGoes(g, [gc[g] EXCEPT !.at = "end"])
  <2> DEFINE k == [gc[g] EXCEPT !.at = "end"]
  <2>1. k.at = "end" /\ k.kept = gc[g].kept /\ k.there = gc[g].there
    BY <1>2 DEF Collections
  <2> HIDE DEF k
  <2>2. Follows(k) /\ Marks(k)
    BY <1>1, <1>2, <2>1 DEF Follows, Marks
  <2>3. GcGoes(g, k)
    BY <1>5 DEF k
  <2> QED
    BY <1>1, <2>2, <2>3, TaskMarks
<1>6. CASE Check(g) /\ ~ cancelled /\ GcGoes(g, [gc[g] EXCEPT !.at = "sweep", !.todo = store])
  <2> DEFINE k == [gc[g] EXCEPT !.at = "sweep", !.todo = store]
  <2>1. gc[g].at = "check" \/ (gc[g].at = "mark" /\ gc[g].queue = {})
    BY <1>6 DEF Check, GcAt
  <2>2. k.at = "sweep" /\ k.kept = gc[g].kept /\ k.there = gc[g].there /\ k.marked = gc[g].marked
    BY <1>2 DEF Collections
  <2> HIDE DEF k
  <2>3. Follows(k) /\ Marks(k)
    BY <1>2, <2>1, <2>2 DEF Follows, Marks
  <2>4. GcGoes(g, k)
    BY <1>6 DEF k
  <2> QED
    BY <1>1, <2>3, <2>4, TaskMarks
<1>7. CASE End(g)
  <2>1. GcGoes(g, Idle) /\ Follows(Idle) /\ Marks(Idle)
    BY <1>7 DEF End, Idle, Follows, Marks
  <2> QED
    BY <1>1, <2>1, TaskMarks
<1> QED
  BY <1>4, <1>5, <1>6, <1>7 DEF Check

LEMMA SweepMarks ==
    ASSUME SgTypeOK, SgMarks, NEW g \in Tasks, Sweep(g)
    PROVE  SgMarks'
<1>1. gc[g].at = "sweep" /\ UNCHANGED <<pvars, store, cancelled>>
  BY DEF Sweep, GcAt
<1>2. gc[g] \in Collections /\ Follows(gc[g]) /\ Marks(gc[g])
  BY <1>1 DEF SgTypeOK, SgMarks
<1>3. PICK scanned \in SUBSET gc[g].todo :
        LET dead == IF LimitReached(g) THEN {} ELSE scanned \ gc[g].marked
            full == config.incremental /\ Cardinality(dead) = config.batch
            todo == IF full THEN gc[g].todo \ scanned ELSE {}
        IN  GcGoes(g, IF config.dry
                   THEN [gc[g] EXCEPT !.at = IF todo = {} THEN "end" ELSE "sweep",
                           !.todo = todo, !.collected = @ + Cardinality(dead)]
                   ELSE [gc[g] EXCEPT !.at = IF dead = {} THEN "end" ELSE "delete",
                           !.todo = todo, !.batch = dead])
  BY DEF Sweep
<1> DEFINE dead == IF LimitReached(g) THEN {} ELSE scanned \ gc[g].marked
           full == config.incremental /\ Cardinality(dead) = config.batch
           todo == IF full THEN gc[g].todo \ scanned ELSE {}
           counts == [gc[g] EXCEPT !.at = IF todo = {} THEN "end" ELSE "sweep",
                        !.todo = todo, !.collected = @ + Cardinality(dead)]
           deletes == [gc[g] EXCEPT !.at = IF dead = {} THEN "end" ELSE "delete",
                        !.todo = todo, !.batch = dead]
<1>4. GcGoes(g, IF config.dry THEN counts ELSE deletes)
  BY <1>3
<1>5. dead \cap gc[g].marked = {}
  OBVIOUS
<1> HIDE DEF dead, todo
<1>6. ASSUME NEW k \in {counts, deletes}, GcGoes(g, k) PROVE SgMarks'
  <2>1. /\ k.at \in {"end", "sweep", "delete"} /\ k.kept = gc[g].kept /\ k.there = gc[g].there
        /\ k.marked = gc[g].marked /\ (k.at = "delete" => k.batch = dead)
    BY <1>2, <1>6 DEF Collections
  <2>2. Follows(k) /\ Marks(k)
    BY <1>1, <1>2, <1>5, <2>1 DEF Follows, Marks
  <2> QED
    BY <1>1, <1>6, <2>2, TaskMarks
<1> QED
  BY <1>4, <1>6

\* What a collection has marked stays right when its history shrinks.
LEMMA MarksShrink ==
    ASSUME NEW k \in Collections, Marks(k), NEW n \in Collections, n.at = k.at, n.todo = k.todo,
           n.marked = k.marked, n.queue = k.queue, n.batch = k.batch,
           n.kept \subseteq k.kept, n.there \subseteq k.there
    PROVE  Marks(n)
BY DEF Marks

LEMMA DeleteMarks ==
    ASSUME SgTypeOK, SgMarks, NEW g \in Tasks, NEW c \in Cids, Delete(g, c)
    PROVE  SgMarks'
<1>1. gc[g].at = "delete" /\ UNCHANGED <<pins, cancelled>>
  BY DEF Delete, GcAt, pvars
<1>2. PICK ok \in BOOLEAN :
        /\ store' = IF ok THEN store \ {c} ELSE store
        /\ gc' = [h \in Tasks |->
               LET next == IF h # g THEN gc[h]
                           ELSE [gc[h] EXCEPT !.batch = @ \ {c},
                                   !.collected = IF ok THEN @ + 1 ELSE @,
                                   !.at = IF gc[h].batch # {c} THEN "delete"
                                          ELSE IF gc[h].todo = {} THEN "end" ELSE "sweep"]
               IN  IF GcAt(h, "idle") THEN next ELSE [next EXCEPT !.there = @ \cap store']]
  BY DEF Delete
<1> SUFFICES ASSUME NEW h \in Tasks PROVE Follows(gc[h])' /\ Marks(gc[h])'
  BY DEF SgMarks
<1>3. Follows(gc[h]) /\ Marks(gc[h])
  BY DEF SgMarks
<1>4. CASE gc[h].at = "idle"
  <2>1. gc'[h] = gc[h]
    BY <1>1, <1>2, <1>4 DEF GcAt
  <2> QED
    BY <1>4, <2>1 DEF Follows, Marks
<1>5. CASE h # g /\ gc[h].at # "idle"
  <2>1. gc'[h] = [gc[h] EXCEPT !.there = @ \cap store'] /\ gc[h] \in Collections
    BY <1>2, <1>5 DEF GcAt, SgTypeOK
  <2>2. /\ gc'[h].at = gc[h].at /\ gc'[h].todo = gc[h].todo /\ gc'[h].marked = gc[h].marked
        /\ gc'[h].queue = gc[h].queue /\ gc'[h].batch = gc[h].batch /\ gc'[h].kept = gc[h].kept
        /\ gc'[h].there = gc[h].there \cap store' /\ gc'[h] \in Collections
    BY <2>1 DEF Collections
  <2>3. Marks(gc'[h])
    BY <1>3, <2>1, <2>2, MarksShrink
  <2> QED
    BY <1>1, <1>3, <2>2, <2>3 DEF Follows, Marks, IsPinned
<1>6. CASE h = g
  <2> DEFINE step == IF gc[g].batch # {c} THEN "delete" ELSE IF gc[g].todo = {} THEN "end" ELSE "sweep"
             count == IF ok THEN gc[g].collected + 1 ELSE gc[g].collected
             next == [gc[g] EXCEPT !.batch = @ \ {c}, !.collected = count, !.at = step]
             last == [next EXCEPT !.there = @ \cap store']
  <2>1. gc'[h] = last /\ gc[g] \in Collections
    BY <1>1, <1>2, <1>6 DEF GcAt, SgTypeOK
  <2>2. step \in {"delete", "end", "sweep"}
    OBVIOUS
  <2> HIDE DEF step, count
  <2>3. /\ last.at = step /\ last.marked = gc[g].marked /\ last.batch = gc[g].batch \ {c}
        /\ last.kept = gc[g].kept /\ last.there = gc[g].there \cap store'
    BY <2>1 DEF Collections
  <2> HIDE DEF last
  <2>4. Follows(gc[h])'
    BY <1>1, <1>3, <1>6, <2>1, <2>3 DEF Follows, IsPinned
  <2>5. Marks(gc[h])'
    BY <1>1, <1>3, <1>6, <2>1, <2>2, <2>3 DEF Marks
  <2> QED
    BY <2>4, <2>5
<1> QED
  BY <1>4, <1>5, <1>6

LEMMA ThreadMarks ==
    ASSUME SgTypeOK, SgMarks, NEW t \in Threads, ThreadStep(t)
    PROVE  SgMarks'
<1>1. UNCHANGED <<store, cancelled>>
      /\ gc' = [g \in Tasks |-> IF GcAt(g, "idle") THEN gc[g]
               ELSE [gc[g] EXCEPT !.kept = {c \in @ : pins'[c] # NoPin},
                                  !.there = {c \in @ : pins'[c].type # "Indirect"}]]
  BY DEF ThreadStep
<1> SUFFICES ASSUME NEW h \in Tasks PROVE Follows(gc[h])' /\ Marks(gc[h])'
  BY DEF SgMarks
<1>2. Follows(gc[h]) /\ Marks(gc[h])
  BY DEF SgMarks
<1>3. CASE gc[h].at = "idle"
  <2>1. gc'[h] = gc[h]
    BY <1>1, <1>3 DEF GcAt
  <2> QED
    BY <1>3, <2>1 DEF Follows, Marks
<1>4. CASE gc[h].at # "idle"
  <2>1. gc'[h] = [gc[h] EXCEPT !.kept = {c \in @ : pins'[c] # NoPin},
                               !.there = {c \in @ : pins'[c].type # "Indirect"}]
        /\ gc[h] \in Collections
    BY <1>1, <1>4 DEF GcAt, SgTypeOK
  <2>2. /\ gc'[h].at = gc[h].at /\ gc'[h].todo = gc[h].todo /\ gc'[h].marked = gc[h].marked
        /\ gc'[h].queue = gc[h].queue /\ gc'[h].batch = gc[h].batch
        /\ gc'[h].kept = {c \in gc[h].kept : pins'[c] # NoPin}
        /\ gc'[h].there = {c \in gc[h].there : pins'[c].type # "Indirect"} /\ gc'[h] \in Collections
    BY <2>1 DEF Collections
  <2>3. Marks(gc'[h])
    BY <1>2, <2>1, <2>2, MarksShrink
  <2> QED
    BY <1>1, <1>2, <1>4, <2>2, <2>3 DEF Follows, Marks, IsPinned
<1> QED
  BY <1>3, <1>4

LEMMA SgStepMarks == SpInv /\ SgTypeOK /\ SgMarks /\ [SgNext]_sgvars => SgMarks'
<1> SUFFICES ASSUME SpInv, SgTypeOK, SgMarks, [SgNext]_sgvars PROVE SgMarks'
  OBVIOUS
<1>1. ASSUME NEW t \in Threads, ThreadStep(t) PROVE SgMarks'
  BY <1>1, ThreadMarks
<1>2. ASSUME gc' = gc, pins' = pins, store \subseteq store' PROVE SgMarks'
  BY <1>2 DEF SgMarks, Follows, Marks, IsPinned
<1>3. ASSUME NEW t \in Threads, NEW c \in Cids, Put(t, c) PROVE SgMarks'
  BY <1>2, <1>3 DEF Put
<1>4. CASE Cancel \/ UNCHANGED sgvars
  BY <1>2, <1>4 DEF Cancel, sgvars, pvars
<1>5. ASSUME NEW g \in Tasks, Start(g) PROVE SgMarks'
  BY <1>5, StartMarks
<1>6. ASSUME NEW g \in Tasks, NEW c \in Cids, ListPin(g, c) PROVE SgMarks'
  BY <1>6, ListPinMarks
<1>7. ASSUME NEW g \in Tasks, NEW c \in Cids, Mark(g, c) PROVE SgMarks'
  BY <1>7, MarkMarks
<1>8. ASSUME NEW g \in Tasks, NEW c \in Cids, Delete(g, c) PROVE SgMarks'
  BY <1>8, DeleteMarks
<1>9. ASSUME NEW g \in Tasks, Sweep(g) PROVE SgMarks'
  BY <1>9, SweepMarks
<1>10. ASSUME NEW g \in Tasks, MarkBreaks(g) \/ Check(g) \/ End(g) PROVE SgMarks'
  BY <1>10, CheckMarks
<1> QED
  BY <1>1, <1>3, <1>4, <1>5, <1>6, <1>7, <1>8, <1>9, <1>10 DEF SgNext, GcStep

\* mark_phase and sweep_phase: what was pinned when a collection began and has been
\* since, and what is linked from there through blocks whose links the collection
\* followed, is never on a batch that it deletes.  It does not follow those of an indirect
\* pin, of a block that came or went meanwhile, of one on which the resolver failed, or of
\* one left on the queue by a cancel that another collect() then took back.
THEOREM PinnedBlocksRetained == SgSpec => []PinnedRetained
<1>1. SgInit => SgMarks
  BY DEF SgInit, SgMarks, Follows, Marks, Idle
<1>2. SpInv /\ SgBounds /\ SgMarks /\ [SgNext]_sgvars => SgMarks'
  BY SgStepMarks DEF SgBounds
<1>3. SgBounds /\ SgMarks => PinnedRetained
  <2> SUFFICES ASSUME SgTypeOK, SgMarks, NEW g \in Tasks, gc[g].at = "delete",
                      NEW c \in gc[g].batch, c \in Owed(g)
               PROVE  FALSE
    BY DEF PinnedRetained, GcAt, SgBounds
  <2>1. gc[g] \in Collections /\ Marks(gc[g])
    BY DEF SgTypeOK, SgMarks
  <2>2. /\ gc[g].kept \subseteq gc[g].marked /\ gc[g].batch \cap gc[g].marked = {}
        /\ gc[g].marked \in SUBSET Cids
        /\ \A d \in gc[g].marked \cap gc[g].there : Links[d] \subseteq gc[g].marked
    BY <2>1 DEF Marks, Collections
  <2>3. ASSUME NEW d \in gc[g].kept PROVE ReachedFrom(d, gc[g].there) \subseteq gc[g].marked
    BY <2>2 DEF ReachedFrom
  <2> QED
    BY <2>2, <2>3 DEF Owed
<1> QED
  BY <1>1, <1>2, <1>3, SgInitBounds, PinsBesideCollector, SgStepBounds, PTL DEF SgSpec

\* A task goes on with its collection: it begins none and ends none.
LEMMA FlagStays ==
    ASSUME SgTypeOK, FlagIsKept, running' = running, gc' \in [Tasks -> [at : {"idle"}] \cup Collections],
           \A g \in Tasks : gc'[g].at = "idle" <=> gc[g].at = "idle"
    PROVE  FlagIsKept'
BY DEF FlagIsKept, GcAt

LEMMA FlagStep ==
    ASSUME SgTypeOK, SgTypeOK', FlagIsKept, [SgNext]_sgvars
    PROVE  FlagIsKept'
<1>1. gc \in [Tasks -> [at : {"idle"}] \cup Collections] /\ gc' \in [Tasks -> [at : {"idle"}] \cup Collections]
  BY DEF SgTypeOK
<1>2. ASSUME NEW g \in Tasks, Start(g) PROVE FlagIsKept'
  <2>1. /\ gc[g].at = "idle" /\ (g \in Direct \/ ~ running) /\ running' = (running \/ g \notin Direct)
        /\ gc'[g].at = "list" /\ \A h \in Tasks \ {g} : gc'[h] = gc[h]
    BY <1>1, <1>2 DEF Start, GcAt, GcGoes
  <2> QED
    BY <2>1 DEF FlagIsKept, GcAt
<1>3. ASSUME NEW g \in Tasks, End(g) PROVE FlagIsKept'
  <2>1. /\ gc[g].at = "end" /\ running' = (running /\ g \in Direct)
        /\ gc'[g].at = "idle" /\ \A h \in Tasks \ {g} : gc'[h] = gc[h]
    BY <1>1, <1>3 DEF End, GcAt, GcGoes, Idle
  <2> QED
    BY <2>1 DEF FlagIsKept, GcAt
<1>4. ASSUME NEW g \in Tasks,
             (\E c \in Cids : ListPin(g, c) \/ Mark(g, c)) \/ MarkBreaks(g) \/ Check(g) \/ Sweep(g)
      PROVE  FlagIsKept'
  <2>1. running' = running /\ gc[g].at # "idle"
    BY <1>4 DEF ListPin, Mark, MarkBreaks, Check, Sweep, GcAt
  <2>2. gc[g] \in Collections
    BY <1>1, <2>1
  <2> DEFINE Onwards == gc'[g].at # "idle" /\ \A h \in Tasks \ {g} : gc'[h] = gc[h]
  <2>3. ASSUME NEW c \in Cids, ListPin(g, c) PROVE Onwards
    BY <1>1, <2>2, <2>3 DEF ListPin, GcGoes, Collections
  <2>4. ASSUME NEW c \in Cids, Mark(g, c) PROVE Onwards
    BY <1>1, <2>1, <2>2, <2>4 DEF Mark, GcGoes, Collections
  <2>5. ASSUME MarkBreaks(g) PROVE Onwards
    BY <1>1, <2>2, <2>5 DEF MarkBreaks, GcGoes, Collections
  <2>6. ASSUME Check(g) PROVE Onwards
    <3>1. PICK k \in {[gc[g] EXCEPT !.at = "sweep", !.todo = store], [gc[g] EXCEPT !.at = "end"]} :
            gc' = [gc EXCEPT ![g] = k]
      BY <2>6 DEF Check, GcGoes
    <3>2. k.at # "idle"
      BY <2>2 DEF Collections
    <3> QED
      BY <1>1, <3>1, <3>2
  <2>7. ASSUME Sweep(g) PROVE Onwards
    <3>1. PICK todo, dead :
            gc' = [gc EXCEPT ![g] = IF config.dry
                    THEN [gc[g] EXCEPT !.at = IF todo = {} THEN "end" ELSE "sweep",
                            !.todo = todo, !.collected = @ + Cardinality(dead)]
                    ELSE [gc[g] EXCEPT !.at = IF dead = {} THEN "end" ELSE "delete",
                            !.todo = todo, !.batch = dead]]
      BY <2>7 DEF Sweep, GcGoes
    <3> QED
      BY <1>1, <2>2, <3>1 DEF Collections
  <2>8. Onwards
    BY <1>4, <2>3, <2>4, <2>5, <2>6, <2>7
  <2> QED
    BY <1>1, <2>1, <2>8, FlagStays
<1>5. ASSUME NEW g \in Tasks, NEW c \in Cids, Delete(g, c) PROVE FlagIsKept'
  <2>1. PICK ok \in BOOLEAN :
          gc' = [h \in Tasks |->
               LET next == IF h # g THEN gc[h]
                           ELSE [gc[h] EXCEPT !.batch = @ \ {c},
                                   !.collected = IF ok THEN @ + 1 ELSE @,
                                   !.at = IF gc[h].batch # {c} THEN "delete"
                                          ELSE IF gc[h].todo = {} THEN "end" ELSE "sweep"]
               IN  IF GcAt(h, "idle") THEN next ELSE [next EXCEPT !.there = @ \cap store']]
    BY <1>5 DEF Delete
  <2>2. gc[g].at = "delete" /\ running' = running
    BY <1>5 DEF Delete, GcAt
  <2>3. ASSUME NEW h \in Tasks PROVE gc'[h].at = "idle" <=> gc[h].at = "idle"
    <3>1. CASE gc[h].at = "idle"
      BY <2>1, <2>2, <3>1 DEF GcAt
    <3>2. CASE gc[h].at # "idle" /\ h # g
      <4>1. gc'[h] = [gc[h] EXCEPT !.there = @ \cap store'] /\ gc[h] \in Collections
        BY <1>1, <2>1, <3>2 DEF GcAt
      <4> QED
        BY <3>2, <4>1 DEF Collections
    <3>3. CASE h = g
      <4> DEFINE step == IF gc[g].batch # {c} THEN "delete" ELSE IF gc[g].todo = {} THEN "end" ELSE "sweep"
                 next == [gc[g] EXCEPT !.batch = @ \ {c}, !.collected = IF ok THEN @ + 1 ELSE @, !.at = step]
      <4>1. gc'[h] = [next EXCEPT !.there = @ \cap store'] /\ gc[g] \in Collections
        BY <1>1, <2>1, <2>2, <3>3 DEF GcAt
      <4>2. step # "idle"
        OBVIOUS
      <4> HIDE DEF step
      <4> QED
        BY <2>2, <3>3, <4>1, <4>2 DEF Collections
    <3> QED
      BY <3>1, <3>2, <3>3
  <2> QED
    BY <1>1, <2>2, <2>3, FlagStays
<1>6. ASSUME NEW t \in Threads, ThreadStep(t) PROVE FlagIsKept'
  <2>1. running' = running
        /\ gc' = [g \in Tasks |-> IF GcAt(g, "idle") THEN gc[g]
               ELSE [gc[g] EXCEPT !.kept = {c \in @ : pins'[c] # NoPin},
                                  !.there = {c \in @ : pins'[c].type # "Indirect"}]]
    BY <1>6 DEF ThreadStep
  <2>2. ASSUME NEW h \in Tasks PROVE gc'[h].at = "idle" <=> gc[h].at = "idle"
    BY <1>1, <2>1 DEF GcAt, Collections
  <2> QED
    BY <1>1, <2>1, <2>2, FlagStays
<1>7. ASSUME gc' = gc, running' = running PROVE FlagIsKept'
  BY <1>1, <1>7, FlagStays
<1>8. ASSUME NEW t \in Threads, NEW c \in Cids, Put(t, c) PROVE FlagIsKept'
  BY <1>7, <1>8 DEF Put
<1>9. CASE Cancel \/ UNCHANGED sgvars
  BY <1>7, <1>9 DEF Cancel, sgvars
<1> QED
  BY <1>2, <1>3, <1>4, <1>5, <1>6, <1>8, <1>9 DEF SgNext, GcStep

\* maybe_run's running flag is up exactly while one of the scheduler's collections is under
\* way, and there is one at most, whatever collect() is called beside them.
THEOREM SchedulerFlagKept == SgSpec => []FlagIsKept
<1>1. SgInit => FlagIsKept
  BY DEF SgInit, FlagIsKept, GcAt, Idle
<1>2. SgTypeOK /\ SgTypeOK' /\ FlagIsKept /\ [SgNext]_sgvars => FlagIsKept'
  BY FlagStep
<1> QED
  BY <1>1, <1>2, SgTypeCorrect, PTL DEF SgSpec

================================================================================
