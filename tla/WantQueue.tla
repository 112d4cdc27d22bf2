------------------------------- MODULE WantQueue -------------------------------
(***************************************************************************)
(* What a want list promises its users, with no heap, no version numbers   *)
(* and no clock: a bounded set of wanted CIDs, each holding a place        *)
(* (priority, creation time), from which a pop always takes a want that no *)
(* other want precedes.  WantList implements this specification.           *)
(***************************************************************************)
EXTENDS Integers, FiniteSets

CONSTANTS
    Cids,       \* content identifiers
    Capacity,   \* max_wants
    Vacant,     \* the place of a CID that is not wanted
    Empty,      \* the answer of a pop that found nothing
    Silent      \* the answer of every other call

VARIABLES
    place,      \* place[c]: [priority, created] of a wanted CID, else Vacant
    answer      \* what the last call returned: a CID, Empty or Silent

qvars == <<place, answer>>

Place == [priority : Int, created : Nat]

Occupied == {c \in Cids : place[c] # Vacant}

\* HeapEntry::cmp: higher priority first, then earlier creation.
Precedes(a, b) ==
    \/ a.priority > b.priority
    \/ a.priority = b.priority /\ a.created < b.created

QInit == place = [c \in Cids |-> Vacant] /\ answer = Silent

\* Only the CIDs of S change place.
Only(S) ==
    /\ place' \in [Cids -> Place \cup {Vacant}]
    /\ \A c \in Cids \ S : place'[c] = place[c]

\* Wants enter, up to the capacity; nobody else moves.
Enter ==
    \E S \in SUBSET (Cids \ Occupied) :
        /\ Cardinality(Occupied \cup S) <= Capacity
        /\ Only(S)
        /\ answer' = Silent

\* Wants are cancelled, expire or are cleared.
Leave ==
    \E S \in SUBSET Occupied :
        /\ Only(S)
        /\ \A c \in S : place'[c] = Vacant
        /\ answer' = Silent

\* Wants change priority; their age is kept.
Reprioritise ==
    \E S \in SUBSET Occupied :
        /\ Only(S)
        /\ \A c \in S : place'[c] \in Place /\ place'[c].created = place[c].created
        /\ answer' = Silent

\* c is a want that a pop may return.
IsHead(c) ==
    /\ c \in Occupied
    /\ \A d \in Occupied : ~ Precedes(place[d], place[c])

\* A pop hands out a head, or says that there is none.
Serve ==
    \/ \E c \in Cids :
          /\ IsHead(c)
          /\ place' = [place EXCEPT ![c] = Vacant]
          /\ answer' = c
    \/ Occupied = {} /\ answer' = Empty /\ UNCHANGED place

QNext == Enter \/ Leave \/ Reprioritise \/ Serve

QSpec == QInit /\ [][QNext]_qvars
================================================================================
