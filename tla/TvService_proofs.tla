-------------------------- MODULE TvService_proofs --------------------------
(***************************************************************************)
(* Theorems about TvService, for any number of clients and map entries.    *)
(***************************************************************************)
EXTENDS TvService, FiniteSetTheorems, TLAPS

\* A client's binder stands under the client's own cookie and nowhere else, also
\* when registrations overlap: then it may stand nowhere.
OwnInv ==
    \A k \in Keys : registry[k] \in Clients =>
        In(registry[k]) /\ client[registry[k]].cookie = k

\* The walk has delivered to members below i only, and once.
GotInv ==
    \A c \in Clients :
        \/ got[c] = 0
        \/ got[c] = 1 /\ In(c) /\ client[c].cookie < i /\ pollPc # "idle"

DeliveryInv == TypeOK /\ OwnInv /\ GotInv

(***************************************************************************)
(* CookieOwned.  The search for a free entry goes up to the size the map   *)
(* had, although its keys may be higher.  It ends at a free key because    *)
(* from the entry it looks at upwards no more keys are occupied than it    *)
(* has entries left: each one it passes is one less, and nobody else       *)
(* occupies a key meanwhile.                                               *)
(***************************************************************************)
Occupied == {k \in Keys : registry[k] # NULL}
From(n) == {k \in Occupied : k >= n}

Alone == \A c, d \in Registering : c = d

Searches(c) ==
    /\ client[c].cookie <= size[c]
    /\ Cardinality(From(client[c].cookie)) <= size[c] - client[c].cookie

SearchInv ==
    ~raced =>
        /\ Alone
        /\ \A c \in Clients : client[c].pc = "scan" => Searches(c)
        /\ \A c \in Clients : client[c].pc = "write" => client[c].cookie \notin Occupied

CookieInv == TypeOK /\ CookieOwned /\ SearchInv

(***************************************************************************)
(* ReachesAll.  An undisturbed walk leaves every key it has passed in the  *)
(* map and every member it has passed with the event.                      *)
(***************************************************************************)
WalkInv ==
    steady =>
        /\ pollPc # "idle" /\ i <= clientSize
        /\ pollPc = "call" => i < clientSize
        /\ \A k \in 0 .. i - 1 : k \in Keys
        /\ ~raced => \A c \in Members : client[c].cookie < i => got[c] = 1

(***************************************************************************)
(* The map.                                                                *)
(***************************************************************************)
MapOK(r) ==
    /\ DOMAIN r \subseteq Nat /\ IsFiniteSet(DOMAIN r)
    /\ \A k \in DOMAIN r : r[k] \in Clients \union {NULL, DEAD}

ClientOK(m) == m \in [Clients -> [pc : {"out", "scan", "write", "in"}, cookie : Nat]]

\* Reading an entry with operator[] puts its key into the map, with NULL if it
\* was not there, and leaves the others alone.
LEMMA TouchedMap ==
    ASSUME MapOK(registry), NEW k \in Nat
    PROVE  /\ DOMAIN Touched(k) = Keys \union {k}
           /\ \A j \in Keys : Touched(k)[j] = registry[j]
           /\ k \notin Keys => Touched(k)[k] = NULL
           /\ MapOK(Touched(k))
<1>1. IsFiniteSet(Keys \union {k})
  BY FS_AddElement DEF MapOK, Keys
<1>2. CASE k \in Keys
  <2>1. Touched(k) = registry
    BY <1>2 DEF Touched
  <2>. QED
    BY <1>2, <2>1 DEF Keys
<1>3. CASE k \notin Keys
  <2>1. Touched(k) = [j \in Keys \union {k} |-> IF j = k THEN NULL ELSE registry[j]]
    BY <1>3 DEF Touched, Put
  <2>. QED
    BY <1>1, <1>3, <2>1 DEF MapOK, Keys
<1>. QED
  BY <1>2, <1>3

\* Writing an entry.
LEMMA PutMap ==
    ASSUME MapOK(registry), NEW k \in Nat, NEW v \in Clients
    PROVE  /\ DOMAIN Put(k, v) = Keys \union {k}
           /\ Put(k, v)[k] = v
           /\ \A j \in Keys \ {k} : Put(k, v)[j] = registry[j]
           /\ MapOK(Put(k, v))
<1>1. IsFiniteSet(Keys \union {k})
  BY FS_AddElement DEF MapOK, Keys
<1>. QED
  BY <1>1 DEF Put, MapOK, Keys

\* The number of entries is a number.
LEMMA SizeType == MapOK(registry) => Size \in Nat
  BY FS_CardinalityType DEF MapOK, Size, Keys

(***************************************************************************)
(* The type invariant.                                                     *)
(***************************************************************************)
\* Its parts, and what they say together.
LEMMA Typed ==
    TypeOK <=> /\ MapOK(registry) /\ ClientOK(client) /\ size \in [Clients -> Nat]
               /\ pollPc \in {"idle", "check", "call"} /\ kind \in Kinds
               /\ i \in Nat /\ clientSize \in Nat /\ got \in [Clients -> Nat]
               /\ steady \in BOOLEAN /\ raced \in BOOLEAN
  BY Zenon DEF TypeOK, MapOK, ClientOK, Keys

\* The same after a step.
LEMMA TypedNext ==
    TypeOK' <=> /\ MapOK(registry') /\ ClientOK(client') /\ size' \in [Clients -> Nat]
                /\ pollPc' \in {"idle", "check", "call"} /\ kind' \in Kinds
                /\ i' \in Nat /\ clientSize' \in Nat /\ got' \in [Clients -> Nat]
                /\ steady' \in BOOLEAN /\ raced' \in BOOLEAN
  BY Zenon DEF TypeOK, MapOK, ClientOK, Keys

\* What a client's move changes.
LEMMA MovesClient ==
    ASSUME ClientOK(client), NEW c \in Clients, NEW from,
           NEW to \in {"out", "scan", "write", "in"}, NEW k \in Nat, Moves(c, from, to, k)
    PROVE  /\ ClientOK(client')
           /\ client'[c].pc = to /\ client'[c].cookie = k
           /\ \A d \in Clients \ {c} : client'[d] = client[d]
           /\ client[c].pc = from /\ steady' = FALSE
  BY DEF Moves, ClientOK

\* A client's move keeps the type invariant if what it does to the map does.
LEMMA MovesTyped ==
    ASSUME TypeOK, NEW c \in Clients, NEW from, NEW to \in {"out", "scan", "write", "in"},
           NEW k \in Nat, Moves(c, from, to, k), UNCHANGED walk,
           MapOK(registry'), size' \in [Clients -> Nat], got' \in [Clients -> Nat],
           raced' \in BOOLEAN
    PROVE  TypeOK'
<1>1. ClientOK(client') /\ steady' \in BOOLEAN
  BY MovesClient, Typed
<1>2. /\ pollPc' \in {"idle", "check", "call"} /\ kind' \in Kinds
      /\ i' \in Nat /\ clientSize' \in Nat
  BY Typed DEF walk
<1>. QED
  BY <1>1, <1>2, TypedNext

\* The map after one step of the search.
LEMMA ScanMap ==
    ASSUME TypeOK, NEW c \in Clients, SetTvServiceCallBackScan(c)
    PROVE  /\ client[c].cookie \in Nat
           /\ MapOK(registry')
           /\ Keys \subseteq DOMAIN registry'
           /\ \A k \in Keys : registry'[k] = registry[k]
           /\ \A k \in DOMAIN registry' \ Keys : registry'[k] = NULL
<1>1. client[c].cookie \in Nat
  BY DEF TypeOK
<1>2. registry' = Touched(client[c].cookie) \/ registry' = registry
  BY DEF SetTvServiceCallBackScan
<1>3. CASE registry' = Touched(client[c].cookie)
  BY <1>1, <1>3, Typed, TouchedMap
<1>4. CASE registry' = registry
  BY <1>1, <1>4, Typed DEF Keys
<1>. QED
  BY <1>2, <1>3, <1>4

\* Every step keeps the type invariant.
LEMMA TypeStep == TypeOK /\ [Next]_vars => TypeOK'
<1>. SUFFICES ASSUME TypeOK, [Next]_vars PROVE TypeOK'
  OBVIOUS
<1>. USE Typed
<1>1. ASSUME NEW c \in Clients, SetTvServiceCallBack(c) PROVE TypeOK'
  <2>1. size' \in [Clients -> Nat] /\ got' = got /\ registry' = registry /\ UNCHANGED walk
    BY <1>1, SizeType DEF SetTvServiceCallBack
  <2>2. raced' \in BOOLEAN /\ Moves(c, "out", "scan", 0)
    BY <1>1, Zenon DEF SetTvServiceCallBack
  <2>. QED
    BY <2>1, <2>2, MovesTyped
<1>2. ASSUME NEW c \in Clients, SetTvServiceCallBackScan(c) PROVE TypeOK'
  <2>1. client[c].cookie \in Nat /\ MapOK(registry')
    BY <1>2, ScanMap
  <2>2. /\ UNCHANGED <<size, walk, got, raced>>
        /\ \/ Moves(c, "scan", "scan", client[c].cookie + 1)
           \/ Moves(c, "scan", "write", client[c].cookie)
    BY <1>2 DEF SetTvServiceCallBackScan
  <2>3. client[c].cookie + 1 \in Nat
    BY <2>1
  <2>. QED
    BY <2>1, <2>2, <2>3, MovesTyped
<1>3. ASSUME NEW c \in Clients, SetTvServiceCallBackWrite(c) PROVE TypeOK'
  <2>1. client[c].cookie \in Nat
    BY DEF ClientOK
  <2>2. /\ MapOK(registry') /\ size' \in [Clients -> Nat] /\ UNCHANGED <<walk, got, raced>>
        /\ Moves(c, "write", "in", client[c].cookie)
    BY <1>3, <2>1, PutMap DEF SetTvServiceCallBackWrite
  <2>. QED
    BY <2>1, <2>2, MovesTyped
<1>4. ASSUME NEW c \in Clients, RemoveTvServiceCallBack(c) PROVE TypeOK'
  <2>1. IsFiniteSet(Keys \ {client[c].cookie})
    BY FS_RemoveElement DEF MapOK, Keys
  <2>2. /\ MapOK(registry') /\ got' \in [Clients -> Nat] /\ UNCHANGED <<walk, size, raced>>
        /\ Moves(c, "in", "out", 0)
    BY <1>4, <2>1 DEF RemoveTvServiceCallBack, MapOK, Keys
  <2>. QED
    BY <2>2, MovesTyped
<1>5. ASSUME NEW c \in Clients, ClientDies(c) PROVE TypeOK'
  <2>1. /\ MapOK(registry') /\ got' \in [Clients -> Nat] /\ UNCHANGED <<walk, size, raced>>
        /\ Moves(c, "in", "out", 0)
    BY <1>5 DEF ClientDies, MapOK, Keys
  <2>. QED
    BY <2>1, MovesTyped
<1>6. ASSUME NEW k \in Kinds, SendSignal(k) PROVE TypeOK'
  BY <1>6, SizeType, TypedNext DEF SendSignal
<1>7. CASE SendSignalCheck
  <2>1. MapOK(registry')
    BY <1>7, TouchedMap DEF SendSignalCheck
  <2>2. /\ UNCHANGED <<client, size, raced>>
        /\ \/ pollPc' = "call" /\ UNCHANGED <<kind, i, clientSize, got, steady>>
           \/ i' = i + 1 /\ UNCHANGED <<pollPc, kind, clientSize, got, steady>>
           \/ EndWalk
    BY <1>7 DEF SendSignalCheck
  <2>3. /\ pollPc' \in {"idle", "check", "call"} /\ kind' \in Kinds /\ i' \in Nat
        /\ clientSize' \in Nat /\ got' \in [Clients -> Nat]
    BY <2>2 DEF EndWalk, Kinds
  <2>4. steady' \in BOOLEAN
    BY <2>2, Zenon DEF EndWalk
  <2>5. ClientOK(client') /\ size' \in [Clients -> Nat] /\ raced' \in BOOLEAN
    BY <2>2
  <2>. QED
    BY <2>1, <2>3, <2>4, <2>5, TypedNext
<1>8. CASE SendSignalTransact
  <2>1. got' \in [Clients -> Nat]
    <3>1. got' = got \/ (registry[i] \in Clients /\ got' = [got EXCEPT ![registry[i]] = @ + 1])
      BY <1>8 DEF SendSignalTransact, Value, MapOK, Keys
    <3>. QED
      BY <3>1
  <2>2. pollPc' = "check" /\ i' \in Nat
    BY <1>8 DEF SendSignalTransact
  <2>3. UNCHANGED <<registry, client, size, kind, clientSize, steady, raced>>
    BY <1>8 DEF SendSignalTransact
  <2>. QED
    BY <2>1, <2>2, <2>3, TypedNext
<1>9. CASE SendSignalCrash
  <2>1. MapOK(registry')
    BY <1>9, FS_EmptySet DEF SendSignalCrash, MapOK
  <2>2. ClientOK(client') /\ size' \in [Clients -> Nat] /\ raced' \in BOOLEAN /\ EndWalk
    BY <1>9 DEF SendSignalCrash, ClientOK
  <2>. QED
    BY <2>1, <2>2, TypedNext DEF EndWalk, Kinds
<1>10. CASE SendSignalReturn
  BY <1>10, TypedNext DEF SendSignalReturn, EndWalk, Kinds
<1>11. CASE UNCHANGED vars
  BY <1>11, TypedNext DEF vars, walk
<1>. QED
  BY <1>1, <1>2, <1>3, <1>4, <1>5, <1>6, <1>7, <1>8, <1>9, <1>10, <1>11 DEF Next, Binder, Walk

\* The process begins with an empty map, which has the type.
LEMMA InitTyped == Init => TypeOK
<1>. SUFFICES ASSUME Init PROVE TypeOK
  OBVIOUS
<1>1. MapOK(registry)
  BY FS_EmptySet DEF Init, MapOK
<1>2. ClientOK(client) /\ size \in [Clients -> Nat] /\ got \in [Clients -> Nat]
  BY DEF Init, ClientOK
<1>3. /\ pollPc \in {"idle", "check", "call"} /\ kind \in Kinds
      /\ i \in Nat /\ clientSize \in Nat
  BY DEF Init, Kinds
<1>4. steady \in BOOLEAN /\ raced \in BOOLEAN
  BY DEF Init
<1>. QED
  BY <1>1, <1>2, <1>3, <1>4, Typed

\* The type invariant of TvService, for any number of clients and entries.
THEOREM TypeCorrect == Spec => []TypeOK
  BY InitTyped, TypeStep, PTL DEF Spec

(***************************************************************************)
(* Delivery, and the refinement of EventBus.                               *)
(***************************************************************************)
\* Who is a member after a client's move.
LEMMA MovesMembers ==
    ASSUME TypeOK, NEW c \in Clients, NEW from, NEW to \in {"out", "scan", "write", "in"},
           NEW k \in Nat, Moves(c, from, to, k)
    PROVE  /\ c \in Members <=> from = "in"
           /\ Members' = IF to = "in" THEN Members \union {c} ELSE Members \ {c}
           /\ \A d \in Clients \ {c} : client'[d] = client[d]
<1>1. /\ client'[c].pc = to /\ client[c].pc = from
      /\ \A d \in Clients \ {c} : client'[d] = client[d]
  BY DEF Moves, TypeOK
<1>2. \A d \in Clients : In(d)' <=> (d # c /\ In(d)) \/ (d = c /\ to = "in")
  BY <1>1 DEF In
<1>3. c \in Members <=> from = "in"
  BY <1>1 DEF Members, In
<1>4. Members' = IF to = "in" THEN Members \union {c} ELSE Members \ {c}
  BY <1>2 DEF Members
<1>. QED
  BY <1>1, <1>3, <1>4

\* A search moves no member and no member's entry.
LEMMA ScanMoves ==
    ASSUME TypeOK, NEW c \in Clients, SetTvServiceCallBackScan(c)
    PROVE  \E to \in {"scan", "write"} : \E k \in Nat : Moves(c, "scan", to, k)
<1>1. client[c].cookie \in Nat
  BY ScanMap
<1>2. \/ Moves(c, "scan", "scan", client[c].cookie + 1)
      \/ Moves(c, "scan", "write", client[c].cookie)
  BY DEF SetTvServiceCallBackScan
<1>. QED
  BY <1>1, <1>2

\* Every step leaves each entry to the one member it delivers to.
LEMMA OwnStep == DeliveryInv /\ [Next]_vars => OwnInv'
<1>. SUFFICES ASSUME TypeOK, OwnInv, [Next]_vars PROVE OwnInv'
  BY DEF DeliveryInv
<1>. USE ConstantsAssumption
<1>1. ASSUME NEW c \in Clients, SetTvServiceCallBack(c) PROVE OwnInv'
  <2>1. Moves(c, "out", "scan", 0) /\ registry' = registry
    BY <1>1 DEF SetTvServiceCallBack
  <2>2. client[c].pc = "out" /\ \A d \in Clients \ {c} : client'[d] = client[d]
    BY <2>1, MovesClient, Typed
  <2>. QED
    BY <2>1, <2>2 DEF OwnInv, In, Keys
<1>2. ASSUME NEW c \in Clients, SetTvServiceCallBackScan(c) PROVE OwnInv'
  <2>1. client[c].pc = "scan" /\ \A d \in Clients \ {c} : client'[d] = client[d]
    BY <1>2, ScanMoves DEF Moves, TypeOK
  <2>2. /\ \A k \in Keys : registry'[k] = registry[k]
        /\ \A k \in DOMAIN registry' \ Keys : registry'[k] = NULL
    BY <1>2, ScanMap
  <2>. QED
    BY <2>1, <2>2 DEF OwnInv, In, Keys
<1>3. ASSUME NEW c \in Clients, SetTvServiceCallBackWrite(c) PROVE OwnInv'
  <2>. DEFINE n == client[c].cookie
  <2>1. n \in Nat
    BY DEF TypeOK
  <2>2. Moves(c, "write", "in", n) /\ registry' = Put(n, c)
    BY <1>3 DEF SetTvServiceCallBackWrite
  <2>3. /\ client[c].pc = "write" /\ client'[c].pc = "in" /\ client'[c].cookie = n
        /\ \A d \in Clients \ {c} : client'[d] = client[d]
    BY <2>1, <2>2, MovesClient, Typed
  <2>4. /\ DOMAIN registry' = Keys \union {n} /\ registry'[n] = c
        /\ \A j \in Keys \ {n} : registry'[j] = registry[j]
    BY <2>1, <2>2 DEF Put
  <2>. QED
    BY <2>3, <2>4 DEF OwnInv, In, Keys
<1>4. ASSUME NEW c \in Clients, RemoveTvServiceCallBack(c) PROVE OwnInv'
  <2>1. Moves(c, "in", "out", 0) /\ registry' = [k \in Keys \ {client[c].cookie} |-> registry[k]]
    BY <1>4 DEF RemoveTvServiceCallBack
  <2>2. \A d \in Clients \ {c} : client'[d] = client[d]
    BY <2>1, MovesClient, Typed
  <2>. QED
    BY <2>1, <2>2 DEF OwnInv, In, Keys
<1>5. ASSUME NEW c \in Clients, ClientDies(c) PROVE OwnInv'
  <2>1. /\ Moves(c, "in", "out", 0)
        /\ registry' = [k \in Keys |-> IF registry[k] = c THEN DEAD ELSE registry[k]]
    BY <1>5 DEF ClientDies
  <2>2. \A d \in Clients \ {c} : client'[d] = client[d]
    BY <2>1, MovesClient, Typed
  <2>. QED
    BY <2>1, <2>2 DEF OwnInv, In, Keys
<1>6. ASSUME NEW k \in Kinds, SendSignal(k) PROVE OwnInv'
  BY <1>6 DEF SendSignal, OwnInv, In, Keys
<1>7. CASE SendSignalCheck
  <2>1. registry' = Touched(i) /\ client' = client
    BY <1>7 DEF SendSignalCheck
  <2>2. MapOK(registry) /\ i \in Nat
    BY Typed
  <2>3. /\ DOMAIN registry' = Keys \union {i}
        /\ \A k \in Keys : registry'[k] = registry[k]
        /\ i \notin Keys => registry'[i] = NULL
    BY <2>1, <2>2, TouchedMap
  <2>. QED
    BY <2>1, <2>3 DEF OwnInv, In, Keys
<1>8. CASE SendSignalTransact
  BY <1>8 DEF SendSignalTransact, OwnInv, In, Keys
<1>9. CASE SendSignalCrash
  BY <1>9 DEF SendSignalCrash, OwnInv, Keys
<1>10. CASE SendSignalReturn
  BY <1>10 DEF SendSignalReturn, OwnInv, In, Keys
<1>11. CASE UNCHANGED vars
  BY <1>11 DEF vars, OwnInv, In, Keys
<1>. QED
  BY <1>1, <1>2, <1>3, <1>4, <1>5, <1>6, <1>7, <1>8, <1>9, <1>10, <1>11 DEF Next, Binder, Walk

\* The client a walk is about to call is a member under that cookie, and has not
\* had the event.
LEMMA CalledIsMember ==
    ASSUME DeliveryInv, pollPc = "call", Value(i) \in Clients
    PROVE  In(Value(i)) /\ client[Value(i)].cookie = i /\ got[Value(i)] = 0
<1>1. i \in Keys /\ registry[i] = Value(i)
  BY ConstantsAssumption DEF Value
<1>2. In(Value(i)) /\ client[Value(i)].cookie = i
  BY <1>1 DEF DeliveryInv, OwnInv
<1>3. got[Value(i)] = 0
  BY <1>2 DEF DeliveryInv, GotInv, TypeOK
<1>. QED
  BY <1>2, <1>3

\* Every step keeps the count of what a member has had.
LEMMA GotStep == DeliveryInv /\ [Next]_vars => GotInv'
<1>. SUFFICES ASSUME DeliveryInv, [Next]_vars PROVE GotInv'
  OBVIOUS
<1>. USE DEF DeliveryInv
\* A move of c with the walk at rest: c has not had the event, or forgets it.
<1>m. ASSUME NEW c \in Clients, NEW from, NEW to \in {"out", "scan", "write", "in"},
             NEW k \in Nat, Moves(c, from, to, k), UNCHANGED walk,
             (got' = got /\ from # "in") \/ got' = [got EXCEPT ![c] = 0]
      PROVE  GotInv'
  <2>1. client[c].pc = from /\ \A d \in Clients \ {c} : client'[d] = client[d]
    BY <1>m DEF Moves, TypeOK
  <2>2. got'[c] = 0 /\ \A d \in Clients \ {c} : got'[d] = got[d]
    BY <1>m, <2>1 DEF GotInv, In, TypeOK
  <2>. QED
    BY <1>m, <2>1, <2>2 DEF GotInv, In, walk
<1>1. ASSUME NEW c \in Clients, SetTvServiceCallBack(c) PROVE GotInv'
  BY <1>1, <1>m DEF SetTvServiceCallBack
<1>2. ASSUME NEW c \in Clients, SetTvServiceCallBackScan(c) PROVE GotInv'
  <2>1. UNCHANGED walk /\ got' = got
    BY <1>2 DEF SetTvServiceCallBackScan
  <2>. QED
    BY <1>2, <1>m, <2>1, ScanMoves
<1>3. ASSUME NEW c \in Clients, SetTvServiceCallBackWrite(c) PROVE GotInv'
  BY <1>3, <1>m DEF SetTvServiceCallBackWrite, TypeOK
<1>4. ASSUME NEW c \in Clients, RemoveTvServiceCallBack(c) PROVE GotInv'
  BY <1>4, <1>m DEF RemoveTvServiceCallBack
<1>5. ASSUME NEW c \in Clients, ClientDies(c) PROVE GotInv'
  BY <1>5, <1>m DEF ClientDies
<1>6. ASSUME NEW k \in Kinds, SendSignal(k) PROVE GotInv'
  BY <1>6 DEF SendSignal, GotInv
<1>7. CASE SendSignalCheck
  BY <1>7 DEF SendSignalCheck, EndWalk, GotInv, In, TypeOK
<1>8. CASE SendSignalTransact
  <2>1. CASE Value(i) \in Clients
    <3>1. In(Value(i)) /\ client[Value(i)].cookie = i /\ got[Value(i)] = 0
      BY <1>8, <2>1, CalledIsMember DEF SendSignalTransact
    <3>2. /\ got' = [got EXCEPT ![Value(i)] = @ + 1] /\ i' = i + 1 /\ pollPc' = "check"
          /\ client' = client
      BY <1>8, <2>1, ConstantsAssumption DEF SendSignalTransact
    <3>. QED
      BY <2>1, <3>1, <3>2 DEF GotInv, In, TypeOK
  <2>2. CASE Value(i) = DEAD
    BY <1>8, <2>2 DEF SendSignalTransact, GotInv, In, TypeOK
  <2>. QED
    BY <1>8, <2>1, <2>2 DEF SendSignalTransact, Value, TypeOK
<1>9. CASE SendSignalCrash
  BY <1>9 DEF SendSignalCrash, EndWalk, GotInv
<1>10. CASE SendSignalReturn
  BY <1>10 DEF SendSignalReturn, EndWalk, GotInv
<1>11. CASE UNCHANGED vars
  BY <1>11 DEF vars, walk, GotInv, In
<1>. QED
  BY <1>1, <1>2, <1>3, <1>4, <1>5, <1>6, <1>7, <1>8, <1>9, <1>10, <1>11 DEF Next, Binder, Walk

\* Entries and deliveries, whatever registrations overlap.
THEOREM DeliveryInvCorrect == Spec => []DeliveryInv
<1>1. Init => DeliveryInv
  <2>1. Init => OwnInv /\ GotInv
    BY DEF Init, OwnInv, GotInv, Keys
  <2>2. Init => TypeOK
    BY InitTyped
  <2>. QED
    BY <2>1, <2>2 DEF DeliveryInv
<1>2. DeliveryInv /\ [Next]_vars => DeliveryInv'
  BY TypeStep, OwnStep, GotStep DEF DeliveryInv
<1>. QED
  BY <1>1, <1>2, PTL DEF Spec

\* A step of the registry is a step of EventBus or changes nothing there.
LEMMA BusStep ==
    DeliveryInv /\ [Next]_vars => [Bus!Next]_<<Members, got>>
<1>. SUFFICES ASSUME DeliveryInv, [Next]_vars PROVE [Bus!Next]_<<Members, got>>
  OBVIOUS
<1>0. TypeOK /\ got \in [Clients -> Nat]
  BY DEF DeliveryInv, TypeOK
<1>s. ASSUME Members' = Members, got' = got PROVE [Bus!Next]_<<Members, got>>
  BY <1>s
<1>l. ASSUME NEW c \in Clients, Moves(c, "in", "out", 0), got' = [got EXCEPT ![c] = 0]
      PROVE  Bus!Next
  <2>1. c \in Members /\ Members' = Members \ {c}
    BY <1>0, <1>l, MovesMembers
  <2>. QED
    BY <1>l, <2>1 DEF Bus!Next, Bus!Leave
<1>1. ASSUME NEW c \in Clients, SetTvServiceCallBack(c) PROVE [Bus!Next]_<<Members, got>>
  <2>1. Moves(c, "out", "scan", 0) /\ got' = got
    BY <1>1 DEF SetTvServiceCallBack
  <2>2. Members' = Members
    BY <1>0, <2>1 DEF Moves, TypeOK, Members, In
  <2>. QED
    BY <1>s, <2>1, <2>2
<1>2. ASSUME NEW c \in Clients, SetTvServiceCallBackScan(c) PROVE [Bus!Next]_<<Members, got>>
  <2>1. client[c].pc = "scan" /\ client'[c].pc \in {"scan", "write"}
        /\ \A d \in Clients \ {c} : client'[d] = client[d]
    <3>1. PICK to \in {"scan", "write"} : \E k \in Nat : Moves(c, "scan", to, k)
      BY <1>0, <1>2, ScanMoves
    <3>. QED
      BY <1>0, <3>1 DEF Moves, TypeOK
  <2>2. Members' = Members
    BY <2>1 DEF Members, In
  <2>. QED
    BY <1>2, <1>s, <2>2 DEF SetTvServiceCallBackScan
<1>3. ASSUME NEW c \in Clients, SetTvServiceCallBackWrite(c) PROVE [Bus!Next]_<<Members, got>>
  <2>1. client[c].cookie \in Nat
    BY <1>0 DEF TypeOK
  <2>2. Moves(c, "write", "in", client[c].cookie)
    BY <1>3 DEF SetTvServiceCallBackWrite
  <2>3. c \notin Members /\ Members' = Members \union {c}
    BY <1>0, <2>1, <2>2, MovesMembers
  <2>. QED
    BY <1>3, <2>3 DEF SetTvServiceCallBackWrite, Bus!Next, Bus!Join
<1>4. ASSUME NEW c \in Clients, RemoveTvServiceCallBack(c) PROVE [Bus!Next]_<<Members, got>>
  BY <1>4, <1>l DEF RemoveTvServiceCallBack
<1>5. ASSUME NEW c \in Clients, ClientDies(c) PROVE [Bus!Next]_<<Members, got>>
  BY <1>5, <1>l DEF ClientDies
<1>6. ASSUME NEW k \in Kinds, SendSignal(k) PROVE [Bus!Next]_<<Members, got>>
  BY <1>6, <1>s DEF SendSignal, Members, In
<1>7. CASE SendSignalCheck
  <2>1. Members' = Members
    BY <1>7 DEF SendSignalCheck, Members, In
  <2>2. CASE got' = got
    BY <1>s, <2>1, <2>2
  <2>3. CASE EndWalk
    BY <2>1, <2>3 DEF EndWalk, Bus!Next, Bus!NewEvent
  <2>. QED
    BY <1>7, <2>2, <2>3 DEF SendSignalCheck
<1>8. CASE SendSignalTransact
  <2>1. Members' = Members
    BY <1>8 DEF SendSignalTransact, Members, In
  <2>2. CASE Value(i) \in Clients
    <3>1. Value(i) \in Members /\ got[Value(i)] = 0
      BY <1>8, <2>2, CalledIsMember DEF SendSignalTransact, Members
    <3>2. got' = [got EXCEPT ![Value(i)] = 1]
      BY <1>0, <1>8, <2>2, <3>1, ConstantsAssumption DEF SendSignalTransact
    <3>. QED
      BY <2>1, <2>2, <3>1, <3>2 DEF Bus!Next, Bus!Deliver
  <2>3. CASE Value(i) = DEAD
    BY <1>8, <1>s, <2>1, <2>3 DEF SendSignalTransact
  <2>. QED
    BY <1>0, <1>8, <2>2, <2>3 DEF SendSignalTransact, Value, TypeOK
<1>9. CASE SendSignalCrash
  <2>1. Members' = {} /\ got' = [c \in Clients |-> 0]
    BY <1>9 DEF SendSignalCrash, EndWalk, Members, In
  <2>. QED
    BY <2>1 DEF Bus!Next, Bus!Restart
<1>10. CASE SendSignalReturn
  <2>1. Members' = Members /\ got' = [c \in Clients |-> 0]
    BY <1>10 DEF SendSignalReturn, EndWalk, Members, In
  <2>. QED
    BY <2>1 DEF Bus!Next, Bus!NewEvent
<1>11. CASE UNCHANGED vars
  BY <1>11, <1>s DEF vars, Members, In
<1>. QED
  BY <1>1, <1>2, <1>3, <1>4, <1>5, <1>6, <1>7, <1>8, <1>9, <1>10, <1>11 DEF Next, Binder, Walk

\* The registry implements EventBus: an event reaches members only, each at most
\* once, for any number of clients and whatever overlaps.
THEOREM ImplementsEventBus == Spec => BusSpec
<1>1. Init => Bus!Init
  BY DEF Init, Bus!Init, Members, In
<1>. QED
  BY <1>1, BusStep, DeliveryInvCorrect, PTL DEF Spec, BusSpec, Bus!Spec

(***************************************************************************)
(* Cookies.                                                                *)
(***************************************************************************)
\* Sets of occupied keys are finite, and shrink with the occupied keys.
LEMMA FromFinite ==
    ASSUME MapOK(registry), NEW n \in Nat
    PROVE  IsFiniteSet(From(n)) /\ Cardinality(From(n)) \in Nat
<1>1. From(n) \in SUBSET Keys /\ IsFiniteSet(Keys)
  BY DEF From, Occupied, MapOK, Keys
<1>2. IsFiniteSet(From(n))
  BY <1>1, FS_Subset
<1>. QED
  BY <1>2, FS_CardinalityType

\* A search is not disturbed by a step that occupies no key.
LEMMA SearchKept ==
    ASSUME TypeOK, TypeOK', NEW c \in Clients, Searches(c), client'[c] = client[c],
           size'[c] = size[c], Occupied' \subseteq Occupied
    PROVE  Searches(c)'
<1>. DEFINE n == client[c].cookie
<1>1. n \in Nat /\ size[c] \in Nat
  BY DEF TypeOK
<1>2. From(n)' = {k \in Occupied' : k >= n}
  BY DEF From
<1>3. {k \in Occupied' : k >= n} \in SUBSET From(n)
  BY DEF From
<1>4. IsFiniteSet(From(n))
  BY <1>1, FromFinite, Typed
<1>5. Cardinality({k \in Occupied' : k >= n}) <= Cardinality(From(n))
  BY <1>3, <1>4, FS_Subset
<1>6. Cardinality(From(n)) \in Nat /\ Cardinality({k \in Occupied' : k >= n}) \in Nat
  BY <1>3, <1>4, FS_Subset, FS_CardinalityType
<1>. QED
  BY <1>1, <1>5, <1>6 DEF Searches, From

\* The search for a free entry is alone and finds one.
LEMMA SearchStep == CookieInv /\ TypeOK' /\ [Next]_vars => SearchInv'
<1>. SUFFICES ASSUME CookieInv, TypeOK', [Next]_vars, ~raced' PROVE SearchInv'
  BY DEF SearchInv
<1>0. TypeOK /\ MapOK(registry)
  BY Typed DEF CookieInv
\* A step that occupies no key and moves nobody into or within a search.
<1>k. ASSUME ~raced, Occupied' \subseteq Occupied, size' = size,
             \A c \in Registering' : client'[c] = client[c]
      PROVE  SearchInv'
  <2>1. /\ Alone
        /\ \A c \in Clients : client[c].pc = "scan" => Searches(c)
        /\ \A c \in Clients : client[c].pc = "write" => client[c].cookie \notin Occupied
    BY <1>k DEF CookieInv, SearchInv
  <2>2. Alone'
    BY <1>k, <2>1 DEF Alone, Registering
  <2>3. ASSUME NEW c \in Clients, client'[c].pc = "scan" PROVE Searches(c)'
    BY <1>0, <1>k, <2>1, <2>3, SearchKept DEF Registering
  <2>4. ASSUME NEW c \in Clients, client'[c].pc = "write" PROVE client'[c].cookie \notin Occupied'
    BY <1>k, <2>1, <2>4 DEF Registering
  <2>. QED
    BY <2>2, <2>3, <2>4 DEF SearchInv
<1>1. ASSUME NEW c \in Clients, SetTvServiceCallBack(c) PROVE SearchInv'
  <2>1. ~raced /\ Registering = {} /\ registry' = registry
    BY <1>1 DEF SetTvServiceCallBack
  <2>2. /\ client'[c] = [pc |-> "scan", cookie |-> 0] /\ size'[c] = Size
        /\ \A d \in Clients \ {c} : client'[d] = client[d]
    BY <1>0, <1>1 DEF SetTvServiceCallBack, Moves, TypeOK
  <2>3. \A d \in Clients \ {c} : client'[d].pc \notin {"scan", "write"}
    BY <2>1, <2>2 DEF Registering
  <2>4. Cardinality(From(0)') <= Size /\ Size \in Nat /\ Cardinality(From(0)') \in Nat
    <3>1. From(0)' \in SUBSET Keys /\ IsFiniteSet(Keys)
      BY <1>0, <2>1 DEF From, Occupied, MapOK, Keys
    <3>. QED
      BY <3>1, FS_Subset, FS_CardinalityType DEF Size
  <2>5. Searches(c)'
    BY <2>2, <2>4 DEF Searches
  <2>. QED
    BY <2>2, <2>3, <2>5 DEF SearchInv, Alone, Registering
<1>2. ASSUME NEW c \in Clients, SetTvServiceCallBackScan(c) PROVE SearchInv'
  <2>. DEFINE k == client[c].cookie
  <2>1. ~raced /\ size' = size /\ size[c] \in Nat /\ k \in Nat
    BY <1>0, <1>2 DEF SetTvServiceCallBackScan, TypeOK
  <2>2. Occupied' = Occupied
    BY <1>0, <1>2, ScanMap DEF Occupied, Keys
  <2>3. client[c].pc = "scan" /\ \A d \in Clients \ {c} : client'[d] = client[d]
    BY <1>0, <1>2, ScanMoves DEF Moves, TypeOK
  <2>4. Searches(c) /\ \A d \in Clients \ {c} : d \notin Registering
    BY <2>1, <2>3 DEF CookieInv, SearchInv, Alone, Registering
  <2>5. \A d \in Clients \ {c} : client'[d].pc \notin {"scan", "write"}
    BY <2>3, <2>4 DEF Registering
  <2>6. CASE k < size[c] /\ Value(k) # NULL
    <3>1. client'[c] = [pc |-> "scan", cookie |-> k + 1]
      BY <1>0, <1>2, <2>6 DEF SetTvServiceCallBackScan, Moves, TypeOK
    <3>2. k \in Occupied
      BY <2>6 DEF Value, Occupied
    <3>3. From(k + 1) = From(k) \ {k} /\ k \in From(k)
      BY <1>0, <2>1, <3>2 DEF From, Occupied, MapOK, Keys
    <3>4. Cardinality(From(k + 1)) = Cardinality(From(k)) - 1
      BY <1>0, <2>1, <3>3, FromFinite, FS_RemoveElement
    <3>5. Cardinality(From(k)) \in Nat
      BY <1>0, <2>1, FromFinite
    <3>6. k + 1 <= size[c] /\ Cardinality(From(k + 1)) <= size[c] - (k + 1)
      BY <2>1, <2>4, <2>6, <3>4, <3>5 DEF Searches
    <3>7. Searches(c)'
      BY <2>1, <2>2, <3>1, <3>6 DEF Searches, From
    <3>. QED
      BY <2>5, <3>1, <3>7 DEF SearchInv, Alone, Registering
  <2>7. CASE ~(k < size[c] /\ Value(k) # NULL)
    <3>1. client'[c] = [pc |-> "write", cookie |-> k]
      BY <1>0, <1>2, <2>7 DEF SetTvServiceCallBackScan, Moves, TypeOK
    <3>2. k \notin Occupied
      <4>1. CASE k < size[c]
        BY <2>7, <4>1 DEF Value, Occupied
      <4>2. CASE ~(k < size[c])
        <5>1. IsFiniteSet(From(k)) /\ Cardinality(From(k)) \in Nat
          BY <1>0, <2>1, FromFinite
        <5>2. Cardinality(From(k)) = 0
          BY <2>1, <2>4, <4>2, <5>1 DEF Searches
        <5>3. From(k) = {}
          BY <5>1, <5>2, FS_EmptySet
        <5>. QED
          BY <2>1, <5>3 DEF From
      <4>. QED
        BY <4>1, <4>2
    <3>. QED
      BY <2>2, <2>5, <3>1, <3>2 DEF SearchInv, Alone, Registering
  <2>. QED
    BY <2>6, <2>7
<1>3. ASSUME NEW c \in Clients, SetTvServiceCallBackWrite(c) PROVE SearchInv'
  <2>1. ~raced
    BY <1>3 DEF SetTvServiceCallBackWrite
  <2>2. /\ client[c].pc = "write" /\ client'[c].pc = "in"
        /\ \A d \in Clients \ {c} : client'[d] = client[d]
    BY <1>0, <1>3 DEF SetTvServiceCallBackWrite, Moves, TypeOK
  <2>3. \A d \in Clients \ {c} : d \notin Registering
    BY <2>1, <2>2 DEF CookieInv, SearchInv, Alone, Registering
  <2>4. \A d \in Clients : client'[d].pc \notin {"scan", "write"}
    BY <2>2, <2>3 DEF Registering
  <2>. QED
    BY <2>4 DEF SearchInv, Alone, Registering
<1>4. ASSUME NEW c \in Clients, RemoveTvServiceCallBack(c) PROVE SearchInv'
  <2>1. /\ ~raced /\ size' = size /\ client'[c].pc = "out"
        /\ \A d \in Clients \ {c} : client'[d] = client[d]
    BY <1>0, <1>4 DEF RemoveTvServiceCallBack, Moves, TypeOK
  <2>2. Occupied' \subseteq Occupied
    BY <1>4 DEF RemoveTvServiceCallBack, Occupied, Keys
  <2>. QED
    BY <1>k, <2>1, <2>2 DEF Registering
<1>5. ASSUME NEW c \in Clients, ClientDies(c) PROVE SearchInv'
  <2>1. /\ ~raced /\ size' = size /\ client'[c].pc = "out"
        /\ \A d \in Clients \ {c} : client'[d] = client[d]
    BY <1>0, <1>5 DEF ClientDies, Moves, TypeOK
  <2>2. Occupied' \subseteq Occupied
    BY <1>5, ConstantsAssumption DEF ClientDies, Occupied, Keys
  <2>. QED
    BY <1>k, <2>1, <2>2 DEF Registering
<1>6. ASSUME NEW k \in Kinds, SendSignal(k) PROVE SearchInv'
  BY <1>6, <1>k DEF SendSignal, Occupied, Keys
<1>7. CASE SendSignalCheck
  <2>1. registry' = Touched(i) /\ i \in Nat /\ UNCHANGED <<client, size, raced>>
    BY <1>0, <1>7, Typed DEF SendSignalCheck
  <2>2. /\ DOMAIN registry' = Keys \union {i}
        /\ \A k \in Keys : registry'[k] = registry[k]
        /\ i \notin Keys => registry'[i] = NULL
    BY <1>0, <2>1, TouchedMap
  <2>3. Occupied' \subseteq Occupied
    BY <2>2 DEF Occupied, Keys
  <2>. QED
    BY <1>k, <2>1, <2>3
<1>8. CASE SendSignalTransact
  BY <1>8, <1>k DEF SendSignalTransact, Occupied, Keys
<1>9. CASE SendSignalCrash
  BY <1>9 DEF SendSignalCrash, SearchInv, Alone, Registering
<1>10. CASE SendSignalReturn
  BY <1>10, <1>k DEF SendSignalReturn, Occupied, Keys
<1>11. CASE UNCHANGED vars
  BY <1>11, <1>k DEF vars, Occupied, Keys
<1>. QED
  BY <1>1, <1>2, <1>3, <1>4, <1>5, <1>6, <1>7, <1>8, <1>9, <1>10, <1>11 DEF Next, Binder, Walk

\* A cookie stays its owner's as long as no registrations overlap.
LEMMA CookieStep == CookieInv /\ TypeOK' /\ [Next]_vars => CookieOwned'
<1>. SUFFICES ASSUME CookieInv, TypeOK', [Next]_vars, ~raced' PROVE CookieOwned'
  BY DEF CookieOwned
<1>0. TypeOK /\ MapOK(registry)
  BY Typed DEF CookieInv
<1>. DEFINE Owns(c) == client[c].cookie \in Keys /\ registry[client[c].cookie] = c
<1>o. ASSUME ~raced PROVE \A c \in Members : Owns(c)
  BY <1>o DEF CookieInv, CookieOwned
<1>1. ASSUME NEW c \in Clients, SetTvServiceCallBack(c) PROVE CookieOwned'
  <2>1. ~raced /\ registry' = registry
    BY <1>1 DEF SetTvServiceCallBack
  <2>2. client'[c].pc = "scan" /\ \A d \in Clients \ {c} : client'[d] = client[d]
    BY <1>0, <1>1 DEF SetTvServiceCallBack, Moves, TypeOK
  <2>. QED
    BY <1>o, <2>1, <2>2 DEF CookieOwned, Members, In, Keys
<1>2. ASSUME NEW c \in Clients, SetTvServiceCallBackScan(c) PROVE CookieOwned'
  <2>1. ~raced
    BY <1>2 DEF SetTvServiceCallBackScan
  <2>2. client'[c].pc \in {"scan", "write"} /\ \A d \in Clients \ {c} : client'[d] = client[d]
    <3>1. PICK to \in {"scan", "write"} : \E k \in Nat : Moves(c, "scan", to, k)
      BY <1>0, <1>2, ScanMoves
    <3>. QED
      BY <1>0, <3>1 DEF Moves, TypeOK
  <2>3. Keys \subseteq DOMAIN registry' /\ \A k \in Keys : registry'[k] = registry[k]
    BY <1>0, <1>2, ScanMap
  <2>. QED
    BY <1>o, <2>1, <2>2, <2>3 DEF CookieOwned, Members, In, Keys
<1>3. ASSUME NEW c \in Clients, SetTvServiceCallBackWrite(c) PROVE CookieOwned'
  <2>. DEFINE n == client[c].cookie
  <2>1. ~raced /\ registry' = Put(n, c) /\ n \in Nat
    BY <1>0, <1>3 DEF SetTvServiceCallBackWrite, TypeOK
  <2>2. /\ client[c].pc = "write" /\ client'[c] = [pc |-> "in", cookie |-> n]
        /\ \A d \in Clients \ {c} : client'[d] = client[d]
    BY <1>0, <1>3 DEF SetTvServiceCallBackWrite, Moves, TypeOK
  <2>3. n \notin Occupied
    BY <2>1, <2>2 DEF CookieInv, SearchInv
  <2>4. /\ DOMAIN registry' = Keys \union {n} /\ registry'[n] = c
        /\ \A j \in Keys \ {n} : registry'[j] = registry[j]
    BY <2>1 DEF Put
  <2>5. \A d \in Members : client[d].cookie # n
    BY <1>o, <2>1, <2>3, ConstantsAssumption DEF Members, Occupied
  <2>. QED
    BY <1>o, <2>1, <2>2, <2>4, <2>5 DEF CookieOwned, Members, In, Keys
<1>4. ASSUME NEW c \in Clients, RemoveTvServiceCallBack(c) PROVE CookieOwned'
  <2>1. ~raced /\ registry' = [k \in Keys \ {client[c].cookie} |-> registry[k]]
    BY <1>4 DEF RemoveTvServiceCallBack
  <2>2. /\ client[c].pc = "in" /\ client'[c].pc = "out"
        /\ \A d \in Clients \ {c} : client'[d] = client[d]
    BY <1>0, <1>4 DEF RemoveTvServiceCallBack, Moves, TypeOK
  <2>3. \A d \in Members \ {c} : client[d].cookie # client[c].cookie
    BY <1>o, <2>1, <2>2 DEF Members, In
  <2>. QED
    BY <1>o, <2>1, <2>2, <2>3 DEF CookieOwned, Members, In, Keys
<1>5. ASSUME NEW c \in Clients, ClientDies(c) PROVE CookieOwned'
  <2>1. ~raced /\ registry' = [k \in Keys |-> IF registry[k] = c THEN DEAD ELSE registry[k]]
    BY <1>5 DEF ClientDies
  <2>2. client'[c].pc = "out" /\ \A d \in Clients \ {c} : client'[d] = client[d]
    BY <1>0, <1>5 DEF ClientDies, Moves, TypeOK
  <2>. QED
    BY <1>o, <2>1, <2>2 DEF CookieOwned, Members, In, Keys
<1>6. ASSUME NEW k \in Kinds, SendSignal(k) PROVE CookieOwned'
  BY <1>6, <1>o DEF SendSignal, CookieOwned, Members, In, Keys
<1>7. CASE SendSignalCheck
  <2>1. registry' = Touched(i) /\ i \in Nat /\ client' = client /\ ~raced
    BY <1>0, <1>7, Typed DEF SendSignalCheck
  <2>2. /\ DOMAIN registry' = Keys \union {i}
        /\ \A k \in Keys : registry'[k] = registry[k]
    BY <1>0, <2>1, TouchedMap
  <2>. QED
    BY <1>o, <2>1, <2>2 DEF CookieOwned, Members, In, Keys
<1>8. CASE SendSignalTransact
  BY <1>8, <1>o DEF SendSignalTransact, CookieOwned, Members, In, Keys
<1>9. CASE SendSignalCrash
  BY <1>9 DEF SendSignalCrash, CookieOwned, Members, In
<1>10. CASE SendSignalReturn
  BY <1>10, <1>o DEF SendSignalReturn, CookieOwned, Members, In, Keys
<1>11. CASE UNCHANGED vars
  BY <1>11, <1>o DEF vars, CookieOwned, Members, In, Keys
<1>. QED
  BY <1>1, <1>2, <1>3, <1>4, <1>5, <1>6, <1>7, <1>8, <1>9, <1>10, <1>11 DEF Next, Binder, Walk

\* No registration is given a cookie in use, for any number of clients, entries
\* and gaps, as long as no two overlap.
LEMMA CookieInvCorrect == Spec => []CookieInv
<1>1. Init => CookieInv
  <2>1. Init => CookieOwned /\ SearchInv
    BY DEF Init, CookieOwned, SearchInv, Members, In, Alone, Registering
  <2>. QED
    BY <2>1, InitTyped DEF CookieInv
<1>2. CookieInv /\ [Next]_vars => CookieInv'
  BY TypeStep, CookieStep, SearchStep DEF CookieInv
<1>. QED
  BY <1>1, <1>2, PTL DEF Spec

\* However clients come, leave and die and whatever the walks insert, a client
\* that holds a cookie owns the entry under it, unless registrations overlapped.
THEOREM CookieOwnedCorrect == Spec => []CookieOwned
<1>1. CookieInv => CookieOwned
  BY DEF CookieInv
<1>. QED
  BY <1>1, CookieInvCorrect, PTL

(***************************************************************************)
(* Walks.                                                                  *)
(***************************************************************************)
\* An undisturbed walk keeps up: what it has passed is in the map and, if it is a
\* member's entry, delivered.
LEMMA WalkStep ==
    DeliveryInv /\ CookieInv /\ WalkInv /\ TypeOK' /\ [Next]_vars => WalkInv'
<1>. SUFFICES ASSUME DeliveryInv, CookieInv, WalkInv, [Next]_vars, TypeOK', steady'
              PROVE  WalkInv'
  BY DEF WalkInv
<1>0. TypeOK /\ MapOK(registry) /\ i \in Nat /\ clientSize \in Nat
  BY Typed DEF CookieInv
<1>1. ASSUME NEW c \in Clients, Binder(c) PROVE FALSE
  <2>1. steady' = FALSE
    BY <1>1 DEF Binder, SetTvServiceCallBack, SetTvServiceCallBackScan, SetTvServiceCallBackWrite,
                RemoveTvServiceCallBack, ClientDies, Moves
  <2>. QED
    BY <2>1
<1>2. ASSUME NEW k \in Kinds, SendSignal(k) PROVE WalkInv'
  <2>1. /\ pollPc' = "check" /\ i' = 0 /\ clientSize' \in Nat
        /\ client' = client
    BY <1>2, Typed, TypedNext DEF SendSignal
  <2>2. \A c \in Clients : client[c].cookie \in Nat
    BY <1>0 DEF TypeOK
  <2>. QED
    BY <2>1, <2>2 DEF WalkInv, Members, In
<1>3. CASE SendSignalCheck
  <2>1. /\ i < clientSize /\ registry' = Touched(i) /\ UNCHANGED <<client, raced>>
        /\ pollPc = "check"
    BY <1>3 DEF SendSignalCheck
  <2>2. /\ DOMAIN registry' = Keys \union {i}
        /\ \A k \in Keys : registry'[k] = registry[k]
    BY <1>0, <2>1, TouchedMap
  <2>3. steady' = FALSE \/ (clientSize' = clientSize /\ got' = got /\ steady' = steady)
    BY <1>3 DEF SendSignalCheck, EndWalk
  <2>4. steady
    BY <2>3
  <2>5. \/ pollPc' = "call" /\ i' = i
        \/ pollPc' = "check" /\ i' = i + 1 /\ Value(i) = NULL
    BY <1>3, <2>1 DEF SendSignalCheck, EndWalk
  <2>6. ~raced => \A c \in Members : client[c].cookie < i' => got[c] = 1
    <3>1. ASSUME ~raced, NEW c \in Members, client[c].cookie < i' PROVE got[c] = 1
      <4>1. client[c].cookie \in Nat /\ registry[client[c].cookie] = c /\ client[c].cookie \in Keys
        BY <1>0, <3>1 DEF CookieInv, CookieOwned, TypeOK, Members
      <4>2. c # NULL
        BY ConstantsAssumption DEF Members
      <4>3. client[c].cookie < i
        BY <1>0, <2>5, <3>1, <4>1, <4>2 DEF Value
      <4>. QED
        BY <2>4, <3>1, <4>3 DEF WalkInv
    <3>. QED
      BY <3>1
  <2>7. \A k \in 0 .. i' - 1 : k \in DOMAIN registry'
    BY <1>0, <2>2, <2>4, <2>5 DEF WalkInv
  <2>8. i' <= clientSize' /\ pollPc' # "idle" /\ got' = got
    BY <1>0, <2>1, <2>3, <2>5
  <2>10. pollPc' = "call" => i' < clientSize'
    BY <1>0, <2>1, <2>3, <2>5
  <2>9. Members' = Members /\ raced' = raced /\ client' = client
    BY <2>1 DEF Members, In
  <2>. QED
    BY <2>6, <2>7, <2>8, <2>9, <2>10 DEF WalkInv, Keys
<1>4. CASE SendSignalTransact
  <2>1. /\ Value(i) # NULL /\ pollPc = "call" /\ pollPc' = "check" /\ i' = i + 1
        /\ got' = IF Value(i) = DEAD THEN got ELSE [got EXCEPT ![Value(i)] = @ + 1]
        /\ UNCHANGED <<registry, client, clientSize, steady, raced>>
    BY <1>4 DEF SendSignalTransact
  <2>2. i \in Keys /\ Value(i) = registry[i]
    BY <2>1 DEF Value
  <2>3. ~raced => \A c \in Members : client[c].cookie < i + 1 => got'[c] = 1
    <3>1. ASSUME ~raced, NEW c \in Members, client[c].cookie < i + 1 PROVE got'[c] = 1
      <4>1. client[c].cookie \in Nat /\ registry[client[c].cookie] = c /\ c \in Clients
        BY <1>0, <3>1 DEF CookieInv, CookieOwned, TypeOK, Members
      <4>2. CASE client[c].cookie < i
        <5>1. got[c] = 1
          BY <2>1, <3>1, <4>2 DEF WalkInv
        <5>2. Value(i) # c
          BY <2>1, <4>1, <4>2, <5>1, CalledIsMember
        <5>. QED
          BY <1>0, <2>1, <4>1, <5>1, <5>2 DEF TypeOK
      <4>3. CASE client[c].cookie = i
        <5>1. Value(i) = c /\ got[c] = 0
          BY <2>1, <2>2, <4>1, <4>3, CalledIsMember
        <5>. QED
          BY <1>0, <2>1, <4>1, <5>1, ConstantsAssumption DEF TypeOK
      <4>. QED
        BY <1>0, <3>1, <4>1, <4>2, <4>3
    <3>. QED
      BY <3>1
  <2>4. i < clientSize
    BY <2>1 DEF WalkInv
  <2>5. \A k \in 0 .. i : k \in Keys
    BY <1>0, <2>1, <2>2 DEF WalkInv
  <2>6. Members' = Members /\ Keys' = Keys
    BY <2>1 DEF Members, In, Keys
  <2>. QED
    BY <1>0, <2>1, <2>3, <2>4, <2>5, <2>6 DEF WalkInv
<1>5. CASE SendSignalCrash \/ SendSignalReturn
  BY <1>5 DEF SendSignalCrash, SendSignalReturn, EndWalk
<1>6. CASE UNCHANGED vars
  BY <1>6 DEF vars, walk, WalkInv, Members, In, Keys
<1>. QED
  BY <1>1, <1>2, <1>3, <1>4, <1>5, <1>6 DEF Next, Walk

\* It does so always, for any number of clients and gaps.
LEMMA WalkInvCorrect == Spec => []WalkInv
<1>1. Init => WalkInv
  BY DEF Init, WalkInv
<1>2. DeliveryInv /\ CookieInv /\ WalkInv /\ TypeOK' /\ [Next]_vars => WalkInv'
  BY WalkStep
<1>3. DeliveryInv => TypeOK
  BY DEF DeliveryInv
<1>. QED
  BY <1>1, <1>2, <1>3, DeliveryInvCorrect, CookieInvCorrect, PTL DEF Spec

\* At its end an undisturbed walk over a map that has not outgrown it has passed
\* every key, for the keys it has passed are as many as there are.
LEMMA WalkReachesAll == CookieInv /\ WalkInv => ReachesAll
<1>. SUFFICES ASSUME CookieInv, WalkInv, WalkOver, steady, ~raced, clientSize = Size,
                     NEW c \in Members
              PROVE  got[c] = 1
  BY DEF ReachesAll, AllReached
<1>1. MapOK(registry) /\ i \in Nat /\ i = Size
  BY Typed DEF CookieInv, WalkOver
<1>2. 0 .. i - 1 \in SUBSET Keys /\ IsFiniteSet(Keys)
  BY <1>1 DEF WalkInv, MapOK, Keys
<1>3. Cardinality(0 .. i - 1) = i
  BY <1>1, FS_Interval
<1>4. Keys = 0 .. i - 1
  BY <1>1, <1>2, <1>3, FS_Subset DEF Size
<1>5. client[c].cookie \in Keys
  BY DEF CookieInv, CookieOwned
<1>6. client[c].cookie < i
  BY <1>1, <1>4, <1>5
<1>. QED
  BY <1>6 DEF WalkInv

\* A signal event nobody disturbs reaches every member whenever the map has not
\* outgrown the walk, for any number of clients and gaps.
THEOREM ReachesAllCorrect == Spec => []ReachesAll
  BY CookieInvCorrect, WalkInvCorrect, WalkReachesAll, PTL
=============================================================================
