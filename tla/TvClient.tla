------------------------------ MODULE TvClient ------------------------------
(***************************************************************************)
(* The client library in one application process: the TvClient objects,    *)
(* the C wrappers that observe them, tvclient_mutex, and what happens when *)
(* tvserver dies.                                                          *)
(*                                                                         *)
(* Three threads: "main" calls the C interface, "event" is the binder      *)
(* thread that takes events (the service sends one at a time and waits for *)
(* it), "death" is the one that runs DeathNotifier::binderDied.  mInstance *)
(* is the static pointer: 0 is null, n the n-th object made.  An object    *)
(* lives while mInstance or the kernel, for the service, refers to it; the *)
(* wrappers keep a plain pointer.                                          *)
(***************************************************************************)
EXTENDS Naturals, FiniteSets

CONSTANTS
    Wrappers,       \* what GetInstance() may return
    Kinds,          \* kinds of events, of "signal", "connect", "allm", "vrr"
    MaxInstances,   \* bound on the objects made
    MaxDeaths       \* bound on the deaths of tvserver

VARIABLES
    server,             \* "up" or "down"
    deaths,             \* how often it died
    registered,         \* objects the service sends events to
    kernel,             \* objects the kernel holds a reference to
    obituary,           \* a death that mDeathNotifier has not been told of yet
    made, gone,         \* how many objects were made; those destroyed
    mInstance,
    mDeathNotifier,     \* not NULL: it will be told of a death
    mTvClientObserver,  \* object -> wrappers that observe it
    tvServicebinder,    \* objects whose proxy is of the service that runs now
    mpTvClient,         \* wrapper -> object; 0 before GetInstance() and after delete
    funcs,              \* wrappers whose mEventCallbackFunc is set
    mEventCallback,     \* the application's callback is set
    stopped,            \* stopProcess() was called
    event,              \* the event that is handled: its target and kind
    left, heard,        \* observers still to be called; those whose callback ran
    tvclient_mutex,     \* the thread that holds it, or "free"
    pc,                 \* thread -> where it is
    making,             \* thread -> the object its constructor makes
    arg,                \* the wrapper main works on
    crash,              \* "no", or the pointer that ended the process
    raced               \* history: a destructor cleared a later mInstance, or a
                        \* death was handled while main was in the constructor

service == <<server, deaths, registered, kernel, obituary>>
library == <<made, gone, mInstance, mDeathNotifier, mTvClientObserver, tvServicebinder>>
app     == <<mpTvClient, funcs, mEventCallback, stopped, arg>>
events  == <<event, left, heard>>
vars == <<service, library, app, events, tvclient_mutex, pc, making, crash, raced>>

ASSUME BoundsAssumption == MaxInstances \in Nat /\ MaxDeaths \in Nat

Threads == {"main", "event", "death"}
Objects == 1..MaxInstances
NoEvent == [to |-> 0, kind |-> "none"]

Init ==
    /\ server \in {"up", "down"} /\ deaths = 0 /\ obituary = FALSE
    /\ registered = {} /\ kernel = {}
    /\ made = 0 /\ gone = {} /\ mInstance = 0 /\ mDeathNotifier = FALSE
    /\ mTvClientObserver = [o \in Objects |-> {}] /\ tvServicebinder = {}
    /\ mpTvClient = [w \in Wrappers |-> 0] /\ funcs = {} /\ mEventCallback = FALSE
    /\ stopped = FALSE /\ arg \in Wrappers
    /\ event = NoEvent /\ left = {} /\ heard = {}
    /\ tvclient_mutex = "free"
    /\ pc = [t \in Threads |-> "idle"] /\ making = [t \in Threads |-> 0]
    /\ crash = "no" /\ raced = FALSE

Go(t, to) == pc' = [pc EXCEPT ![t] = to]
Lock(t) == tvclient_mutex = "free" /\ tvclient_mutex' = t
Unlock(t) == tvclient_mutex = t /\ tvclient_mutex' = "free"

\* The object mInstance lets go, unless the kernel still holds it.
Dropped == {mInstance} \ (kernel \cup {0})

-----------------------------------------------------------------------------
\* TvClient::GetInstance and the constructor, on main or on the death thread.

GetInstanceCheck(t) ==
    /\ pc[t] = "get"
    /\ Go(t, IF mInstance = 0 THEN "ctor" ELSE "got")
    /\ UNCHANGED <<service, library, app, events, tvclient_mutex, making, crash, raced>>

CtorLock(t) ==
    /\ pc[t] = "ctor" /\ Lock(t)
    /\ Go(t, "wait")
    /\ UNCHANGED <<service, library, app, events, making, crash, raced>>

\* The loop around getService ends when the service is there.
CtorGetService(t) ==
    /\ pc[t] = "wait" /\ server = "up" /\ made < MaxInstances
    /\ made' = made + 1
    /\ making' = [making EXCEPT ![t] = made']
    /\ tvServicebinder' = tvServicebinder \cup {made'}
    /\ Go(t, "link")
    /\ UNCHANGED <<service, app, events, gone, mInstance, mDeathNotifier, mTvClientObserver,
                   tvclient_mutex, crash, raced>>

\* linkToDeath and CMD_SET_TV_CB.  A service that has died meanwhile takes
\* neither; then the parcel held the only reference to the object, which does
\* not outlive its constructor.
CtorSetCallback(t) ==
    /\ pc[t] = "link" /\ Unlock(t)
    /\ IF making[t] \in tvServicebinder
       THEN /\ registered' = registered \cup {making[t]}
            /\ kernel' = kernel \cup {making[t]}
            /\ mDeathNotifier' = TRUE
            /\ UNCHANGED <<gone, mInstance>>
       ELSE /\ gone' = gone \cup {making[t]} \cup Dropped
            /\ mInstance' = 0 /\ mDeathNotifier' = FALSE
            /\ UNCHANGED <<registered, kernel>>
    /\ Go(t, "assign")
    /\ UNCHANGED <<app, events, server, deaths, obituary, made, mTvClientObserver,
                   tvServicebinder, making, crash, raced>>

\* Only now the object is assigned; events may have come since.
CtorAssign(t) ==
    /\ pc[t] = "assign"
    /\ mInstance' = making[t]
    /\ gone' = gone \cup Dropped
    /\ crash' = IF making[t] \in gone THEN "mInstance" ELSE "no"
    /\ making' = [making EXCEPT ![t] = 0]
    /\ Go(t, "got")
    /\ UNCHANGED <<service, app, events, made, mDeathNotifier, mTvClientObserver,
                   tvServicebinder, tvclient_mutex, raced>>

-----------------------------------------------------------------------------
\* The application's main thread.

\* GetInstance() of the C interface makes a wrapper.  No application makes one
\* after stopProcess(), which ends its binder threads.
GetInstance(w) ==
    /\ pc["main"] = "idle" /\ ~stopped /\ mpTvClient[w] = 0
    /\ arg' = w /\ Go("main", "get")
    /\ UNCHANGED <<service, library, events, mpTvClient, funcs, mEventCallback, stopped,
                   tvclient_mutex, making, crash, raced>>

\* Mutant: the free slot is always the first.
setTvClientObserverInFirstSlot ==
    /\ pc["main"] = "got" /\ mInstance # 0
    /\ mpTvClient' = [mpTvClient EXCEPT ![arg] = mInstance]
    /\ mTvClientObserver' = [mTvClientObserver EXCEPT ![mInstance] = {arg}]
    /\ Go("main", "register")
    /\ UNCHANGED <<service, events, made, gone, mInstance, mDeathNotifier, tvServicebinder,
                   funcs, mEventCallback, stopped, arg, tvclient_mutex, making, crash, raced>>

\* The wrapper's constructor; mInstance may have been cleared again.
setTvClientObserver ==
    /\ pc["main"] = "got"
    /\ mpTvClient' = [mpTvClient EXCEPT ![arg] = mInstance]
    /\ IF mInstance = 0
       THEN crash' = "mpTvClient" /\ UNCHANGED mTvClientObserver
       ELSE /\ mTvClientObserver' = [mTvClientObserver EXCEPT ![mInstance] = @ \cup {arg}]
            /\ UNCHANGED crash
    /\ Go("main", "register")
    /\ UNCHANGED <<service, events, made, gone, mInstance, mDeathNotifier, tvServicebinder,
                   funcs, mEventCallback, stopped, arg, tvclient_mutex, making, raced>>

\* Mutant: the function is not stored.
RegisterCallbackUnstored ==
    /\ pc["main"] = "register"
    /\ Go("main", "idle")
    /\ UNCHANGED <<service, library, app, events, tvclient_mutex, making, crash, raced>>

RegisterCallback ==
    /\ pc["main"] = "register"
    /\ funcs' = funcs \cup {arg}
    /\ Go("main", "idle")
    /\ UNCHANGED <<service, library, events, mpTvClient, mEventCallback, stopped, arg,
                   tvclient_mutex, making, crash, raced>>

setTvEventCallback ==
    /\ pc["main"] = "idle" /\ ~mEventCallback
    /\ mEventCallback' = TRUE
    /\ UNCHANGED <<service, library, events, mpTvClient, funcs, stopped, arg, tvclient_mutex,
                   pc, making, crash, raced>>

\* A call through a wrapper: what it does if the object is gone.
CallThrough(w) ==
    crash' = IF mpTvClient[w] \in gone THEN "mpTvClient" ELSE crash

\* Most calls: no lock; the service answers or is dead.
SendMethodCall(w) ==
    /\ pc["main"] = "idle" /\ mpTvClient[w] # 0
    /\ CallThrough(w)
    /\ UNCHANGED <<service, library, app, events, tvclient_mutex, pc, making, raced>>

\* GetSPDInfo: the lock is held until the service has answered.
SendDataRequest(w) ==
    /\ pc["main"] = "idle" /\ mpTvClient[w] # 0 /\ Lock("main")
    /\ CallThrough(w)
    /\ Go("main", "data")
    /\ UNCHANGED <<service, library, app, events, making, raced>>

SendDataReturn ==
    /\ pc["main"] = "data" /\ Unlock("main")
    /\ Go("main", "idle")
    /\ UNCHANGED <<service, library, app, events, making, crash, raced>>

\* ReleaseInstance() deletes the wrapper, whose destructor calls Release().
ReleaseInstance(w) ==
    /\ pc["main"] = "idle" /\ mpTvClient[w] # 0 /\ Lock("main")
    /\ CallThrough(w)
    /\ arg' = w /\ Go("main", "clear")
    /\ UNCHANGED <<service, library, events, mpTvClient, funcs, mEventCallback, stopped, making, raced>>

\* CMD_CLR_TV_CB
ReleaseClear ==
    /\ pc["main"] = "clear" /\ Unlock("main")
    /\ registered' = registered \ {mpTvClient[arg]}
    /\ tvServicebinder' = tvServicebinder \ {mpTvClient[arg]}
    /\ Go("main", "stop")
    /\ UNCHANGED <<app, events, server, deaths, kernel, obituary, made, gone, mInstance,
                   mDeathNotifier, mTvClientObserver, making, crash, raced>>

\* stopProcess() ends the binder threads' input; no event comes any more.
ReleaseStop ==
    /\ pc["main"] = "stop"
    /\ stopped' = TRUE
    /\ mInstance' = 0 /\ gone' = gone \cup Dropped /\ mDeathNotifier' = FALSE
    /\ mpTvClient' = [mpTvClient EXCEPT ![arg] = 0]
    /\ Go("main", "idle")
    /\ UNCHANGED <<service, events, made, mTvClientObserver, tvServicebinder, funcs,
                   mEventCallback, arg, tvclient_mutex, making, crash, raced>>

-----------------------------------------------------------------------------
\* The binder thread of events.

\* The service sends an event to an object; the thread waits for the lock.
onTransact(o, k) ==
    /\ pc["event"] = "idle" /\ server = "up" /\ ~stopped /\ o \in registered
    /\ event' = [to |-> o, kind |-> k] /\ heard' = {} /\ left' = {}
    /\ Go("event", "lock")
    /\ UNCHANGED <<service, library, app, tvclient_mutex, making, crash, raced>>

\* Whatever object the event is for, the handlers go through mInstance.
HandEvent ==
    /\ pc["event"] = "lock" /\ Lock("event")
    /\ IF mInstance = 0
       THEN crash' = "mInstance" /\ UNCHANGED left
       ELSE left' = mTvClientObserver[mInstance] /\ UNCHANGED crash
    /\ Go("event", "walk")
    /\ UNCHANGED <<service, library, app, event, heard, making, raced>>

\* onTvClientEvent of one observer; the wrapper has no case for VRR.
onTvClientEvent(w) ==
    /\ pc["event"] = "walk" /\ w \in left
    /\ left' = left \ {w}
    /\ IF event.kind = "vrr" THEN UNCHANGED <<heard, crash>>
       ELSE /\ crash' = IF w \notin funcs THEN "mEventCallbackFunc"
                        ELSE IF ~mEventCallback THEN "mEventCallback"
                        ELSE IF mpTvClient[w] = 0 THEN "observer" ELSE "no"
            /\ heard' = heard \cup {w}
    /\ Go("event", IF event.kind = "vrr" \/ crash' # "no" THEN "walk" ELSE "callback")
    /\ UNCHANGED <<service, library, app, event, tvclient_mutex, making, raced>>

\* Mutant: every call takes the lock, as a data request does.
CallbackReturnsUnlocked ==
    /\ pc["event"] = "callback" /\ tvclient_mutex = "free"
    /\ Go("event", "walk")
    /\ UNCHANGED <<service, library, app, events, tvclient_mutex, making, crash, raced>>

\* The application's callback asks the service for the frame size, as
\* streambox-tv does, or for nothing.
CallbackReturns ==
    /\ pc["event"] = "callback"
    /\ \/ UNCHANGED crash
       \/ \E w \in Wrappers : mpTvClient[w] # 0 /\ CallThrough(w)
    /\ Go("event", "walk")
    /\ UNCHANGED <<service, library, app, events, tvclient_mutex, making, raced>>

OnTransactReturns ==
    /\ pc["event"] = "walk" /\ left = {} /\ Unlock("event")
    /\ event' = NoEvent
    /\ Go("event", "idle")
    /\ UNCHANGED <<service, library, app, left, heard, making, crash, raced>>

-----------------------------------------------------------------------------
\* tvserver and the kernel.

ServerDies ==
    /\ server = "up" /\ deaths < MaxDeaths
    /\ server' = "down" /\ deaths' = deaths + 1
    /\ registered' = {} /\ tvServicebinder' = {}
    /\ obituary' = mDeathNotifier
    /\ UNCHANGED <<app, events, kernel, made, gone, mInstance, mDeathNotifier,
                   mTvClientObserver, tvclient_mutex, pc, making, crash, raced>>

ServerStarts ==
    /\ server = "down"
    /\ server' = "up"
    /\ UNCHANGED <<library, app, events, deaths, registered, kernel, obituary, tvclient_mutex,
                   pc, making, crash, raced>>

\* The kernel drops its reference to an object the service no longer knows,
\* after the event it is the target of.  If it was the last one, the destructor
\* runs, and clears mInstance whoever it points to.
KernelReleases(o) ==
    /\ o \in kernel \ registered /\ o # event.to /\ o \notin {making[t] : t \in Threads}
    /\ kernel' = kernel \ {o}
    /\ IF o = mInstance THEN UNCHANGED <<gone, mInstance, mDeathNotifier, raced>>
       ELSE /\ gone' = gone \cup {o} \cup Dropped
            /\ mInstance' = 0 /\ mDeathNotifier' = FALSE
            /\ raced' = (raced \/ mInstance # 0)
    /\ UNCHANGED <<app, events, server, deaths, registered, obituary, made, mTvClientObserver,
                   tvServicebinder, tvclient_mutex, pc, making, crash>>

\* Mutant: mInstance is not cleared first.
binderDiedKeepsInstance ==
    /\ pc["death"] = "idle" /\ obituary /\ ~stopped
    /\ obituary' = FALSE
    /\ Go("death", "get")
    /\ UNCHANGED <<library, app, events, server, deaths, registered, kernel,
                   tvclient_mutex, making, crash, raced>>

\* DeathNotifier::binderDied lets the object go and makes another.
binderDied ==
    /\ pc["death"] = "idle" /\ obituary /\ ~stopped
    /\ obituary' = FALSE
    /\ mInstance' = 0 /\ gone' = gone \cup Dropped
    /\ mDeathNotifier' = IF Dropped # {} THEN FALSE ELSE mDeathNotifier
    /\ Go("death", "get")
    /\ raced' = (raced \/ pc["main"] \in {"ctor", "wait", "link", "assign"})
    /\ UNCHANGED <<app, events, server, deaths, registered, kernel, made, mTvClientObserver,
                   tvServicebinder, tvclient_mutex, making, crash>>

Reconnected ==
    /\ pc["death"] = "got"
    /\ Go("death", "idle")
    /\ UNCHANGED <<service, library, app, events, tvclient_mutex, making, crash, raced>>

-----------------------------------------------------------------------------
Construct(t) ==
    \/ GetInstanceCheck(t) \/ CtorLock(t) \/ CtorGetService(t)
    \/ CtorSetCallback(t) \/ CtorAssign(t)

MainThread ==
    \/ Construct("main") \/ setTvClientObserver \/ RegisterCallback
    \/ SendDataReturn \/ ReleaseClear \/ ReleaseStop

AppCalls ==
    \/ \E w \in Wrappers : GetInstance(w) \/ SendMethodCall(w) \/ SendDataRequest(w)
                           \/ ReleaseInstance(w)
    \/ setTvEventCallback

EventThread ==
    \/ HandEvent \/ CallbackReturns \/ OnTransactReturns
    \/ \E w \in Wrappers : onTvClientEvent(w)

DeathThread == Construct("death") \/ binderDied \/ Reconnected

Next ==
    /\ crash = "no"
    /\ \/ MainThread \/ AppCalls \/ EventThread \/ DeathThread
       \/ \E o \in Objects : \E k \in Kinds : onTransact(o, k)
       \/ \E o \in Objects : KernelReleases(o)
       \/ ServerDies \/ ServerStarts

Spec == Init /\ [][Next]_vars

Fairness ==
    /\ WF_vars(crash = "no" /\ MainThread)
    /\ WF_vars(crash = "no" /\ EventThread)
    /\ WF_vars(crash = "no" /\ DeathThread)
    /\ \A t \in Threads : SF_vars(crash = "no" /\ CtorLock(t))
    /\ SF_vars(crash = "no" /\ HandEvent)

FairSpec == Spec /\ Fairness

(***************************************************************************)
(* Properties                                                              *)
(***************************************************************************)
\* Events and calls never meet a pointer that is null or dangling, except while
\* a wrapper is made or released, before the application has set its callback,
\* and once tvserver has died: outside these windows the process is safe though
\* neither mInstance nor the wrappers' pointers are guarded by the lock.
SettingUp ==
    \/ pc["main"] \in {"get", "ctor", "wait", "link", "assign", "got", "register", "clear", "stop"}
    \/ ~mEventCallback \/ stopped \/ deaths > 0

SafeOnceSetUp == crash = "no" \/ SettingUp

\* An event the service sends is shown to every wrapper that is ready for it,
\* not only to those on the object it was sent to, while tvserver lives.
EveryWrapperHears ==
    [][pc["event"] = "lock" /\ pc'["event"] = "walk" /\ crash' = "no" /\ deaths = 0 /\ ~stopped
        => {w \in funcs : mpTvClient[w] # 0} \subseteq left']_vars

\* The service, which waits for the client it sends an event to, gets its
\* answer: the lock, held over the callbacks and over data requests and while a
\* constructor waits for the service, is always given back.
EventsAnswered ==
    <>[](server = "up") => (pc["event"] # "idle" ~> pc["event"] = "idle" \/ crash # "no")

\* After a death of tvserver the process ends up registered with the next one,
\* unless it ended itself: "Tv server died,reconnect" (TvClient.cpp:671).  Two
\* races are left out, and each loses the registration: a destructor that runs
\* late takes the new mDeathNotifier with it, and a death handled before the
\* constructor's object is assigned leaves that object in place.
Reregistered ==
    <>[](server = "up")
        => <>[](made = 0 \/ registered # {} \/ stopped \/ raced \/ crash # "no")
=============================================================================
