----------------------------- MODULE TvService -----------------------------
(***************************************************************************)
(* The callback registry of service/TvService.cpp and the delivery of      *)
(* events through it.  mTvServiceCallBack is a std::map from cookies to    *)
(* binders.  Binder threads change it (SetTvServiceCallBack,               *)
(* RemoveTvServiceCallBack) while the poll thread walks it (the four       *)
(* SendSignalFor... functions); no lock is taken.  Two habits shape what   *)
(* happens: a walk runs over 0 .. size() - 1 although cookies are keys,    *)
(* and operator[] inserts a NULL entry for every key it does not find.     *)
(* A step is one access to the map.  (What an unsynchronised std::map does *)
(* to two accesses at once is not modelled.)                               *)
(***************************************************************************)
EXTENDS Integers, FiniteSets

CONSTANTS
    Clients,
    NULL,           \* an entry operator[] made
    DEAD,           \* a binder whose process died: no death link removes it
    MaxEntries      \* bound: nobody registers beyond this many entries

ASSUME ConstantsAssumption ==
    /\ IsFiniteSet(Clients)
    /\ NULL \notin Clients
    /\ DEAD \notin Clients \union {NULL}
    /\ MaxEntries \in Nat \ {0}

\* SignalDetect and SourceConnect skip a NULL entry, DvAllm and Vrr return.
Kinds == {"skip", "return"}

VARIABLES
    registry,   \* mTvServiceCallBack
    client,     \* each client's binder thread in the service: "out", "scan",
                \* "write" or "in", with the cookie looked at or held
    size,       \* clientSize of each registration
    pollPc,     \* "idle", "check" or "call"
    kind, i, clientSize,    \* locals of the walk
    got,        \* history: how often the current event reached each client
    steady,     \* history: nobody came, went or died since the walk began
    raced       \* history: two registrations have overlapped

walk == <<pollPc, kind, i, clientSize>>
vars == <<registry, client, size, walk, got, steady, raced>>

Keys == DOMAIN registry

\* mTvServiceCallBack[k] = v
Put(k, v) == [j \in Keys \union {k} |-> IF j = k THEN v ELSE registry[j]]

\* Mutant: find() instead of operator[].
TouchedByFind(k) == registry

\* Reading mTvServiceCallBack[k]: the map after it, and the value.
Touched(k) == IF k \in Keys THEN registry ELSE Put(k, NULL)
Value(k)   == IF k \in Keys THEN registry[k] ELSE NULL

Size == Cardinality(Keys)

In(c) == client[c].pc = "in"
Members == {c \in Clients : In(c)}

\* The type invariant: also says that every key is a cookie or was made by a
\* walk, never a negative number.
TypeOK ==
    /\ Keys \subseteq Nat /\ IsFiniteSet(Keys)
    /\ \A k \in Keys : registry[k] \in Clients \union {NULL, DEAD}
    /\ client \in [Clients -> [pc : {"out", "scan", "write", "in"}, cookie : Nat]]
    /\ size \in [Clients -> Nat]
    /\ pollPc \in {"idle", "check", "call"}
    /\ kind \in Kinds
    /\ i \in Nat /\ clientSize \in Nat
    /\ got \in [Clients -> Nat]
    /\ steady \in BOOLEAN /\ raced \in BOOLEAN

Init ==
    /\ registry = [k \in {} |-> NULL]
    /\ client = [c \in Clients |-> [pc |-> "out", cookie |-> 0]]
    /\ size = [c \in Clients |-> 0]
    /\ pollPc = "idle"
    /\ kind = "skip"
    /\ i = 0
    /\ clientSize = 0
    /\ got = [c \in Clients |-> 0]
    /\ steady = FALSE
    /\ raced = FALSE

(***************************************************************************)
(* Binder threads                                                          *)
(***************************************************************************)
Moves(c, from, to, cookie) ==
    /\ client[c].pc = from
    /\ client' = [client EXCEPT ![c] = [pc |-> to, cookie |-> cookie]]
    /\ steady' = FALSE

Registering == {c \in Clients : client[c].pc \in {"scan", "write"}}

\* SetTvServiceCallBack: the size is read first.
SetTvServiceCallBack(c) ==
    /\ Moves(c, "out", "scan", 0)
    /\ Size < MaxEntries
    /\ size' = [size EXCEPT ![c] = Size]
    /\ raced' = (raced \/ Registering # {})
    /\ UNCHANGED <<registry, walk, got>>

\* Mutant: the last key is taken instead of the one behind it.
SetTvServiceCallBackScanShort(c) ==
    LET k == client[c].cookie IN
    /\ IF k < size[c] /\ Value(k) # NULL
       THEN Moves(c, "scan", "scan", k + 1)
       ELSE Moves(c, "scan", "write", IF k < size[c] THEN k ELSE size[c] - 1)
    /\ registry' = IF k < size[c] THEN Touched(k) ELSE registry
    /\ UNCHANGED <<size, walk, got, raced>>

\* Mutant: clientSize is the cookie, without a look at the entries.
SetTvServiceCallBackAppend(c) ==
    /\ Moves(c, "scan", "write", size[c])
    /\ UNCHANGED <<registry, size, walk, got, raced>>

\* Then the first NULL entry below it is looked for, ...
SetTvServiceCallBackScan(c) ==
    LET k == client[c].cookie IN
    /\ IF k < size[c] /\ Value(k) # NULL
       THEN Moves(c, "scan", "scan", k + 1)
       ELSE Moves(c, "scan", "write", k)
    /\ registry' = IF k < size[c] THEN Touched(k) ELSE registry
    /\ UNCHANGED <<size, walk, got, raced>>

\* ... and that entry, or a new one, becomes the client's.
SetTvServiceCallBackWrite(c) ==
    /\ Moves(c, "write", "in", client[c].cookie)
    /\ registry' = Put(client[c].cookie, c)
    /\ size' = [size EXCEPT ![c] = 0]
    /\ UNCHANGED <<walk, got, raced>>

\* Mutant: cookie 0 passes for an invalid one.
RemoveTvServiceCallBackNotZero(c) ==
    /\ Moves(c, "in", "out", 0)
    /\ registry' = [k \in Keys \ ({client[c].cookie} \ {0}) |-> registry[k]]
    /\ got' = [got EXCEPT ![c] = 0]
    /\ UNCHANGED <<size, walk, raced>>

\* Erase does not care whose entry it is.
RemoveTvServiceCallBack(c) ==
    /\ Moves(c, "in", "out", 0)
    /\ registry' = [k \in Keys \ {client[c].cookie} |-> registry[k]]
    /\ got' = [got EXCEPT ![c] = 0]
    /\ UNCHANGED <<size, walk, raced>>

\* The client's process dies: its binder stays in the map.
ClientDies(c) ==
    /\ Moves(c, "in", "out", 0)
    /\ registry' = [k \in Keys |-> IF registry[k] = c THEN DEAD ELSE registry[k]]
    /\ got' = [got EXCEPT ![c] = 0]
    /\ UNCHANGED <<size, walk, raced>>

(***************************************************************************)
(* The poll thread                                                         *)
(***************************************************************************)
EndWalk ==
    /\ pollPc' = "idle"
    /\ kind' = "skip"
    /\ i' = 0
    /\ clientSize' = 0
    /\ got' = [c \in Clients |-> 0]
    /\ steady' = FALSE

\* Mutant: the walk begins at 1.
SendSignalFromOne(k) ==
    /\ pollPc = "idle"
    /\ pollPc' = "check"
    /\ kind' = k
    /\ i' = 1
    /\ clientSize' = Size
    /\ steady' = TRUE
    /\ UNCHANGED <<registry, client, size, got, raced>>

SendSignal(k) ==
    /\ pollPc = "idle"
    /\ pollPc' = "check"
    /\ kind' = k
    /\ i' = 0
    /\ clientSize' = Size
    /\ steady' = TRUE
    /\ UNCHANGED <<registry, client, size, got, raced>>

\* mTvServiceCallBack[i] != NULL
SendSignalCheck ==
    /\ pollPc = "check"
    /\ i < clientSize
    /\ registry' = Touched(i)
    /\ \/ /\ Value(i) # NULL
          /\ pollPc' = "call"
          /\ UNCHANGED <<kind, i, clientSize, got, steady>>
       \/ /\ Value(i) = NULL /\ kind = "skip"
          /\ i' = i + 1
          /\ UNCHANGED <<pollPc, kind, clientSize, got, steady>>
       \/ /\ Value(i) = NULL /\ kind = "return"
          /\ EndWalk
    /\ UNCHANGED <<client, size, raced>>

\* mTvServiceCallBack[i]->transact: the map is searched a second time.
SendSignalTransact ==
    /\ pollPc = "call"
    /\ Value(i) # NULL
    /\ pollPc' = "check"
    /\ i' = i + 1
    /\ got' = IF Value(i) = DEAD THEN got ELSE [got EXCEPT ![Value(i)] = @ + 1]
    /\ UNCHANGED <<registry, client, size, kind, clientSize, steady, raced>>

\* The entry was erased in between: a call through a null pointer.  The next
\* process begins with an empty map and no clients.
SendSignalCrash ==
    /\ pollPc = "call"
    /\ Value(i) = NULL
    /\ registry' = [k \in {} |-> NULL]
    /\ client' = [c \in Clients |-> [pc |-> "out", cookie |-> 0]]
    /\ size' = [c \in Clients |-> 0]
    /\ EndWalk
    /\ raced' = FALSE

SendSignalReturn ==
    /\ pollPc = "check"
    /\ i >= clientSize
    /\ EndWalk
    /\ UNCHANGED <<registry, client, size, raced>>

Binder(c) ==
    \/ SetTvServiceCallBack(c)
    \/ SetTvServiceCallBackScan(c)
    \/ SetTvServiceCallBackWrite(c)
    \/ RemoveTvServiceCallBack(c)
    \/ ClientDies(c)

Walk ==
    \/ SendSignalCheck \/ SendSignalTransact \/ SendSignalCrash \/ SendSignalReturn

Next ==
    \/ \E c \in Clients : Binder(c)
    \/ \E k \in Kinds : SendSignal(k)
    \/ Walk

Spec == Init /\ [][Next]_vars

\* A thread inside the service goes on.  That inputs keep changing is an
\* assumption of the liveness property below, not of the service.
Fairness ==
    /\ WF_vars(Walk)
    /\ WF_vars(SendSignal("skip"))
    /\ \A c \in Clients :
          WF_vars(SetTvServiceCallBackScan(c) \/ SetTvServiceCallBackWrite(c))

FairSpec == Spec /\ Fairness

(***************************************************************************)
(* Properties                                                              *)
(***************************************************************************)
\* A client that holds a cookie owns the entry under it, however clients come,
\* leave and die and whatever entries the walks insert, as long as no two
\* registrations overlap: SetTvServiceCallBack never gives out a cookie in use.
CookieOwned ==
    ~raced => \A c \in Members : client[c].cookie \in Keys /\ registry[client[c].cookie] = c

\* A signal event that nobody disturbs reaches every member, unless the walk
\* met a key that was not there: then the map has outgrown clientSize, and the
\* highest cookies were not looked at.
WalkOver == pollPc = "check" /\ kind = "skip" /\ i = clientSize
AllReached == \A c \in Members : got[c] = 1

ReachesAll == WalkOver /\ steady /\ ~raced /\ clientSize = Size => AllReached

\* Events reach members only, and each at most once per membership, whatever
\* the threads do to the map meanwhile.
Bus == INSTANCE EventBus WITH members <- Members, got <- got
BusSpec == Bus!Spec

\* The gap a client leaves makes the walk stop short of the highest cookies,
\* but every walk over it inserts an entry: once nobody comes or goes, signal
\* events reach every member from some point on.
GapsHeal == <>[][FALSE]_client => <>[](WalkOver /\ ~raced => AllReached)
=============================================================================
