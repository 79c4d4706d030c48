--------------------------- MODULE TvClient_proofs ---------------------------
(***************************************************************************)
(* Theorems about TvClient, for all numbers of wrappers, objects, events   *)
(* and deaths of the service.                                              *)
(***************************************************************************)
EXTENDS TvClient, TLAPS

MainPcs  == {"idle", "get", "ctor", "wait", "link", "assign", "got", "register", "data", "clear", "stop"}
EventPcs == {"idle", "lock", "walk", "callback"}
DeathPcs == {"idle", "get", "ctor", "wait", "link", "assign", "got"}

PcOK ==
    /\ DOMAIN pc = Threads /\ pc["main"] \in MainPcs
    /\ pc["event"] \in EventPcs /\ pc["death"] \in DeathPcs

ObjectsOK ==
    /\ made \in 0..MaxInstances /\ mInstance \in 0..MaxInstances
    /\ making \in [Threads -> 0..MaxInstances]
    /\ mpTvClient \in [Wrappers -> 0..MaxInstances]
    /\ mTvClientObserver \in [Objects -> SUBSET Wrappers]

TypeOK ==
    /\ PcOK /\ ObjectsOK
    /\ deaths \in Nat /\ arg \in Wrappers
    /\ left \subseteq Wrappers /\ funcs \subseteq Wrappers

(***************************************************************************)
(* While tvserver lives and the process has not stopped its binder         *)
(* threads, one object at most is ever made, and it is not let go.         *)
(***************************************************************************)
Calm == deaths = 0 /\ ~stopped

Making    == {"ctor", "wait", "link", "assign"}
Assembled == {"link", "assign"}

\* The death thread has nothing to do, and nothing is gone.
NobodyDied == ~obituary /\ pc["death"] = "idle" /\ gone = {}

\* The objects the service may know: mInstance, or the one that will be it.
Known == ({mInstance} \cup (IF pc["main"] = "assign" THEN {making["main"]} ELSE {})) \ {0}

OneObject ==
    /\ pc["main"] \in Making => mInstance = 0
    /\ pc["main"] = "got" => mInstance # 0
    /\ pc["main"] \in Assembled => making["main"] # 0
    /\ pc["main"] = "link" => making["main"] \in tvServicebinder
    /\ pc["main"] = "clear" => mpTvClient[arg] # 0
    /\ kernel \subseteq Known
    /\ pc["main"] # "stop" => registered = Known /\ kernel = Known
    /\ pc["main"] = "stop" => registered = {}
    /\ pc["event"] # "idle" => Known # {}

\* Every wrapper is on the list of the object it calls, and has its function
\* unless main is about to set it.
Observed ==
    /\ \A w \in Wrappers : mpTvClient[w] \in {0, mInstance}
    /\ \A o \in Objects : mTvClientObserver[o] = {w \in Wrappers : mpTvClient[w] = o}
    /\ \A w \in Wrappers :
          mpTvClient[w] # 0 => w \in funcs \/ (pc["main"] = "register" /\ arg = w)
    /\ \A w \in left : mpTvClient[w] # 0

Body == NobodyDied /\ OneObject /\ Observed /\ (crash = "no" \/ SettingUp)

CalmInv == Calm => Body

(***************************************************************************)
(* The type invariant.                                                     *)
(***************************************************************************)
\* Where the threads are after one has gone on.
LEMMA GoPc ==
    ASSUME DOMAIN pc = Threads, NEW t \in Threads, NEW p, Go(t, p)
    PROVE  DOMAIN pc' = Threads /\ pc'[t] = p /\ \A u \in Threads \ {t} : pc'[u] = pc[u]
  BY DEF Go

\* A step of a constructor keeps the types.
LEMMA ConstructTyped ==
    ASSUME TypeOK, NEW t \in {"main", "death"}, Construct(t)
    PROVE  TypeOK'
<1>. USE BoundsAssumption DEF TypeOK
<1>1. /\ UNCHANGED <<deaths, arg, left, funcs, mpTvClient, mTvClientObserver>>
      /\ t \in Threads
  BY DEF Construct, GetInstanceCheck, CtorLock, CtorGetService, CtorSetCallback, CtorAssign,
     app, events, service, library, Threads
<1>2. PcOK'
  <2>1. \E p \in {"ctor", "got", "wait", "link", "assign"} : Go(t, p)
    BY DEF Construct, GetInstanceCheck, CtorLock, CtorGetService, CtorSetCallback, CtorAssign
  <2>2. t = "main" \/ t = "death"
    OBVIOUS
  <2>. QED
    BY <1>1, <2>1, <2>2, GoPc DEF PcOK, MainPcs, DeathPcs, Threads
<1>3. made' \in 0..MaxInstances /\ mInstance' \in 0..MaxInstances
      /\ making' \in [Threads -> 0..MaxInstances]
  <2>1. CASE CtorGetService(t)
    BY <1>1, <2>1 DEF CtorGetService, ObjectsOK
  <2>2. CASE CtorSetCallback(t)
    BY <1>1, <2>2 DEF CtorSetCallback, ObjectsOK
  <2>3. CASE CtorAssign(t)
    BY <1>1, <2>3 DEF CtorAssign, ObjectsOK
  <2>4. CASE GetInstanceCheck(t) \/ CtorLock(t)
    BY <1>1, <2>4 DEF GetInstanceCheck, CtorLock, ObjectsOK, library
  <2>. QED
    BY <2>1, <2>2, <2>3, <2>4 DEF Construct
<1>4. ObjectsOK'
  BY <1>1, <1>3 DEF ObjectsOK
<1>. QED
  BY <1>1, <1>2, <1>4

\* Every step keeps the types.
LEMMA TypeStep == TypeOK /\ [Next]_vars => TypeOK'
<1>. SUFFICES ASSUME TypeOK, [Next]_vars PROVE TypeOK'
  OBVIOUS
<1>0. DOMAIN pc = Threads /\ {"main", "event", "death"} = Threads
  BY DEF TypeOK, PcOK, Threads
\* A step that leaves the objects alone.
<1>1. ASSUME ObjectsOK', PcOK', deaths' \in Nat, arg' \in Wrappers,
             left' \subseteq Wrappers, funcs' \subseteq Wrappers
      PROVE  TypeOK'
  BY <1>1 DEF TypeOK
<1>2. ASSUME NEW p \in MainPcs, Go("main", p) PROVE PcOK'
  BY <1>0, <1>2, GoPc DEF TypeOK, PcOK
<1>3. ASSUME NEW p \in EventPcs, Go("event", p) PROVE PcOK'
  BY <1>0, <1>3, GoPc DEF TypeOK, PcOK
<1>4. ASSUME NEW p \in DeathPcs, Go("death", p) PROVE PcOK'
  BY <1>0, <1>4, GoPc DEF TypeOK, PcOK
<1>5. ASSUME UNCHANGED pc PROVE PcOK'
  BY <1>5 DEF TypeOK, PcOK
<1>6. ASSUME UNCHANGED <<made, mInstance, making, mpTvClient, mTvClientObserver>> PROVE ObjectsOK'
  BY <1>6 DEF TypeOK, ObjectsOK
<1>7. CASE MainThread
  <2>1. CASE Construct("main")
    BY <2>1, ConstructTyped
  <2>2. CASE setTvClientObserver
    <3>1. ObjectsOK'
      BY <2>2 DEF setTvClientObserver, TypeOK, ObjectsOK, Objects
    <3>2. PcOK'
      BY <1>2, <2>2 DEF setTvClientObserver, MainPcs
    <3>. QED
      BY <1>1, <2>2, <3>1, <3>2 DEF setTvClientObserver, TypeOK, service, events
  <2>3. CASE RegisterCallback \/ SendDataReturn
    <3>1. UNCHANGED <<made, mInstance, making, mpTvClient, mTvClientObserver, deaths, arg, left>>
          /\ funcs' \in {funcs, funcs \cup {arg}} /\ Go("main", "idle")
      BY <2>3 DEF RegisterCallback, SendDataReturn, service, library, app, events
    <3>2. PcOK' /\ ObjectsOK'
      BY <1>2, <1>6, <3>1 DEF MainPcs
    <3>. QED
      BY <1>1, <3>1, <3>2 DEF TypeOK
  <2>4. CASE ReleaseClear
    <3>1. UNCHANGED <<made, mInstance, making, mpTvClient, mTvClientObserver, deaths, arg, left, funcs>>
          /\ Go("main", "stop")
      BY <2>4 DEF ReleaseClear, app, events
    <3>2. PcOK' /\ ObjectsOK'
      BY <1>2, <1>6, <3>1 DEF MainPcs
    <3>. QED
      BY <1>1, <3>1, <3>2 DEF TypeOK
  <2>5. CASE ReleaseStop
    <3>1. PcOK'
      BY <1>2, <2>5 DEF ReleaseStop, MainPcs
    <3>2. ObjectsOK'
      BY <2>5, BoundsAssumption DEF ReleaseStop, TypeOK, ObjectsOK
    <3>. QED
      BY <1>1, <2>5, <3>1, <3>2 DEF ReleaseStop, TypeOK, service, events
  <2>. QED
    BY <1>7, <2>1, <2>2, <2>3, <2>4, <2>5 DEF MainThread
<1>8. CASE AppCalls
  <2>1. /\ UNCHANGED <<made, mInstance, making, mpTvClient, mTvClientObserver, deaths, left, funcs>>
        /\ arg' \in {arg} \cup Wrappers
        /\ UNCHANGED pc \/ \E p \in MainPcs : Go("main", p)
    BY <1>8 DEF AppCalls, GetInstance, SendMethodCall, SendDataRequest, ReleaseInstance,
       setTvEventCallback, MainPcs, service, library, app, events
  <2>. QED
    BY <1>1, <1>2, <1>5, <1>6, <2>1 DEF TypeOK
<1>9. CASE EventThread \/ \E o \in Objects : \E k \in Kinds : onTransact(o, k)
  <2>1. UNCHANGED <<made, mInstance, making, mpTvClient, mTvClientObserver, deaths, arg, funcs>>
    BY <1>9 DEF EventThread, HandEvent, CallbackReturns, OnTransactReturns, onTvClientEvent,
       onTransact, service, library, app
  <2>2. \E p \in EventPcs : Go("event", p)
    BY <1>9 DEF EventThread, HandEvent, CallbackReturns, OnTransactReturns, onTvClientEvent,
       onTransact, EventPcs
  <2>3. left' \subseteq Wrappers
    <3>1. CASE HandEvent
      <4>1. mInstance # 0 => mInstance \in Objects
        BY DEF TypeOK, ObjectsOK, Objects
      <4>. QED
        BY <3>1, <4>1 DEF HandEvent, TypeOK, ObjectsOK
    <3>2. CASE ~HandEvent
      BY <1>9, <3>2 DEF EventThread, CallbackReturns, OnTransactReturns, onTvClientEvent,
         onTransact, events, TypeOK
    <3>. QED
      BY <3>1, <3>2
  <2>. QED
    BY <1>1, <1>3, <1>6, <2>1, <2>2, <2>3 DEF TypeOK
<1>10. CASE DeathThread
  <2>1. CASE binderDied
    <3>1. ObjectsOK'
      BY <2>1, BoundsAssumption DEF binderDied, TypeOK, ObjectsOK, app
    <3>2. PcOK'
      BY <1>4, <2>1 DEF binderDied, DeathPcs
    <3>. QED
      BY <1>1, <2>1, <3>1, <3>2 DEF binderDied, TypeOK, app, events
  <2>2. CASE Reconnected
    BY <1>1, <1>4, <1>6, <2>2 DEF Reconnected, TypeOK, DeathPcs, service, library, app, events
  <2>. QED
    BY <1>10, <2>1, <2>2, ConstructTyped DEF DeathThread
<1>11. CASE ServerDies \/ ServerStarts \/ UNCHANGED vars
  BY <1>1, <1>5, <1>6, <1>11 DEF ServerDies, ServerStarts, TypeOK, vars, service, library, app, events
<1>12. ASSUME NEW o \in Objects, KernelReleases(o) PROVE TypeOK'
  <2>1. ObjectsOK'
    BY <1>12, BoundsAssumption DEF KernelReleases, TypeOK, ObjectsOK, app
  <2>. QED
    BY <1>1, <1>5, <1>12, <2>1 DEF KernelReleases, TypeOK, app, events
<1>. QED
  BY <1>7, <1>8, <1>9, <1>10, <1>11, <1>12 DEF Next

\* The type invariant of TvClient, for every number of wrappers and objects.
THEOREM TypeCorrect == Spec => []TypeOK
<1>1. Init => TypeOK
  <2>. SUFFICES ASSUME Init PROVE TypeOK
    OBVIOUS
  <2>1. PcOK
    BY DEF Init, PcOK, MainPcs, EventPcs, DeathPcs, Threads
  <2>2. ObjectsOK
    BY BoundsAssumption DEF Init, ObjectsOK
  <2>. QED
    BY <2>1, <2>2 DEF Init, TypeOK
<1>. QED
  BY <1>1, TypeStep, PTL DEF Spec

(***************************************************************************)
(* While tvserver lives.                                                   *)
(***************************************************************************)
\* A step of main that leaves the objects, the service and the event thread
\* where they are.
LEMMA MainKept ==
    ASSUME TypeOK, NobodyDied, OneObject, Observed, NEW p, Go("main", p),
           UNCHANGED <<registered, kernel, obituary, gone, mInstance, mTvClientObserver,
                       tvServicebinder, mpTvClient, left, making>>,
           pc["main"] \notin {"assign", "stop", "register"}, p \notin {"assign", "stop", "link"},
           funcs \subseteq funcs',
           p \in Making => mInstance = 0, p = "got" => mInstance # 0,
           p = "clear" => mpTvClient[arg'] # 0
    PROVE  NobodyDied' /\ OneObject' /\ Observed'
<1>1. /\ DOMAIN pc = Threads /\ {"main", "event", "death"} = Threads
  BY DEF TypeOK, PcOK, Threads
<1>2. pc'["main"] = p /\ pc'["event"] = pc["event"] /\ pc'["death"] = pc["death"]
  BY <1>1, GoPc
<1>3. Known' = Known
  BY <1>2 DEF Known
<1>4. NobodyDied'
  BY <1>2 DEF NobodyDied
<1>5. OneObject'
  BY <1>2, <1>3 DEF OneObject, Assembled
<1>6. Observed'
  <2>1. \A w \in Wrappers : mpTvClient[w] # 0 => w \in funcs
    BY DEF Observed
  <2>. QED
    BY <2>1 DEF Observed
<1>. QED
  BY <1>4, <1>5, <1>6

\* A step that main, the objects and the service have no part in.
LEMMA AsideKept ==
    ASSUME NobodyDied, OneObject, Observed,
           UNCHANGED <<registered, kernel, obituary, gone, mInstance, mTvClientObserver,
                       tvServicebinder, mpTvClient, making, funcs, arg>>,
           pc'["main"] = pc["main"], pc'["death"] = pc["death"],
           pc'["event"] # "idle" => Known # {},
           \A w \in left' : mpTvClient[w] # 0
    PROVE  NobodyDied' /\ OneObject' /\ Observed'
<1>1. Known' = Known
  BY DEF Known
<1>. QED
  BY <1>1 DEF NobodyDied, OneObject, Observed

\* A step of the constructor on main.
LEMMA ConstructCalm ==
    ASSUME TypeOK, NobodyDied, OneObject, Observed, crash = "no", Construct("main")
    PROVE  Body'
<1>0. /\ DOMAIN pc = Threads /\ {"main", "event", "death"} = Threads
  BY DEF TypeOK, PcOK, Threads
<1>1. CASE GetInstanceCheck("main") \/ CtorLock("main")
  <2>1. /\ UNCHANGED <<registered, kernel, obituary, gone, mInstance, mTvClientObserver,
                       tvServicebinder, mpTvClient, left, making, funcs, arg, crash>>
        /\ pc["main"] \in {"get", "ctor"}
        /\ pc["main"] = "get" => Go("main", IF mInstance = 0 THEN "ctor" ELSE "got")
        /\ pc["main"] = "ctor" => Go("main", "wait")
    BY <1>1 DEF GetInstanceCheck, CtorLock, service, library, app, events
  <2>2. PICK p \in {"ctor", "got", "wait"} :
           Go("main", p) /\ (p \in Making => mInstance = 0) /\ (p = "got" => mInstance # 0)
    BY <2>1 DEF OneObject, Making
  <2>. QED
    BY <2>1, <2>2, MainKept DEF Body
<1>2. CASE CtorGetService("main")
  <2>1. /\ pc["main"] = "wait" /\ made' = made + 1 /\ making' = [making EXCEPT !["main"] = made']
        /\ tvServicebinder' = tvServicebinder \cup {made'} /\ Go("main", "link")
        /\ UNCHANGED <<registered, kernel, obituary, gone, mInstance, mTvClientObserver,
                       mpTvClient, left, funcs, arg, crash>>
    BY <1>2 DEF CtorGetService, service, app, events
  <2>2. pc'["main"] = "link" /\ pc'["event"] = pc["event"] /\ pc'["death"] = pc["death"]
    BY <1>0, <2>1, GoPc
  <2>3. making'["main"] = made' /\ made' # 0 /\ mInstance = 0
    BY <1>0, <2>1 DEF TypeOK, ObjectsOK, OneObject, Making
  <2>4. Known' = Known
    BY <2>1, <2>2 DEF Known
  <2>5. OneObject'
    BY <2>1, <2>2, <2>3, <2>4 DEF OneObject
  <2>6. NobodyDied' /\ Observed'
    BY <2>1, <2>2 DEF NobodyDied, Observed
  <2>. QED
    BY <2>1, <2>5, <2>6 DEF Body
<1>3. CASE CtorSetCallback("main")
  <2>0. making["main"] \in tvServicebinder /\ making["main"] # 0 /\ mInstance = 0
    BY <1>3 DEF CtorSetCallback, OneObject, Making, Assembled
  <2>1. /\ pc["main"] = "link" /\ Go("main", "assign")
        /\ registered' = registered \cup {making["main"]} /\ kernel' = kernel \cup {making["main"]}
        /\ UNCHANGED <<obituary, gone, mInstance, mTvClientObserver, tvServicebinder,
                       mpTvClient, left, funcs, arg, crash, making>>
    BY <1>3, <2>0 DEF CtorSetCallback, app, events
  <2>2. pc'["main"] = "assign" /\ pc'["event"] = pc["event"] /\ pc'["death"] = pc["death"]
    BY <1>0, <2>1, GoPc
  <2>3. Known = {} /\ Known' = {making["main"]}
    BY <2>0, <2>1, <2>2 DEF Known
  <2>4. OneObject'
    BY <2>0, <2>1, <2>2, <2>3 DEF OneObject
  <2>5. NobodyDied' /\ Observed'
    BY <2>1, <2>2 DEF NobodyDied, Observed
  <2>. QED
    BY <2>1, <2>4, <2>5 DEF Body
<1>4. CASE CtorAssign("main")
  <2>1. /\ pc["main"] = "assign" /\ Go("main", "got") /\ mInstance' = making["main"]
        /\ making' = [making EXCEPT !["main"] = 0] /\ gone' = gone \cup Dropped
        /\ crash' = IF making["main"] \in gone THEN "mInstance" ELSE "no"
        /\ UNCHANGED <<registered, kernel, obituary, mTvClientObserver, tvServicebinder,
                       mpTvClient, left, funcs, arg>>
    BY <1>4 DEF CtorAssign, service, app, events
  <2>2. pc'["main"] = "got" /\ pc'["event"] = pc["event"] /\ pc'["death"] = pc["death"]
    BY <1>0, <2>1, GoPc
  <2>3. mInstance = 0 /\ making["main"] # 0
    BY <2>1 DEF OneObject, Making, Assembled
  <2>4. gone' = {} /\ crash' = "no"
    BY <2>1, <2>3 DEF NobodyDied, Dropped
  <2>5. Known' = Known
    BY <2>1, <2>2, <2>3 DEF Known
  <2>6. OneObject'
    BY <2>1, <2>2, <2>3, <2>5 DEF OneObject, Making, Assembled
  <2>7. NobodyDied'
    BY <2>1, <2>2, <2>4 DEF NobodyDied
  <2>8. Observed'
    <3>1. \A w \in Wrappers : mpTvClient[w] = 0
      BY <2>3 DEF Observed
    <3>. QED
      BY <2>1, <3>1 DEF Observed
  <2>. QED
    BY <2>4, <2>6, <2>7, <2>8 DEF Body
<1>. QED
  BY <1>1, <1>2, <1>3, <1>4 DEF Construct

\* What main does after it, with a wrapper.
LEMMA WrapperCalm ==
    ASSUME TypeOK, NobodyDied, OneObject, Observed, crash = "no",
           setTvClientObserver \/ RegisterCallback \/ SendDataReturn \/ ReleaseClear
    PROVE  Body'
<1>0. /\ DOMAIN pc = Threads /\ {"main", "event", "death"} = Threads /\ arg \in Wrappers
      /\ mpTvClient \in [Wrappers -> 0..MaxInstances]
      /\ mTvClientObserver \in [Objects -> SUBSET Wrappers]
  BY DEF TypeOK, PcOK, ObjectsOK, Threads
<1>1. CASE setTvClientObserver
  <2>0. pc["main"] = "got" /\ mInstance # 0 /\ mInstance \in Objects
    BY <1>1 DEF setTvClientObserver, OneObject, TypeOK, ObjectsOK, Objects
  <2>1. /\ Go("main", "register") /\ mpTvClient' = [mpTvClient EXCEPT ![arg] = mInstance]
        /\ mTvClientObserver' = [mTvClientObserver EXCEPT
                                    ![mInstance] = mTvClientObserver[mInstance] \cup {arg}]
        /\ UNCHANGED <<registered, kernel, obituary, gone, mInstance, tvServicebinder,
                       left, making, funcs, arg, crash>>
    BY <1>1, <2>0 DEF setTvClientObserver, service, events
  <2>2. pc'["main"] = "register" /\ pc'["event"] = pc["event"] /\ pc'["death"] = pc["death"]
    BY <1>0, <2>1, GoPc
  <2>3. Known' = Known
    BY <2>0, <2>1, <2>2 DEF Known
  <2>4. NobodyDied' /\ OneObject'
    BY <2>0, <2>1, <2>2, <2>3 DEF NobodyDied, OneObject, Making, Assembled
  <2>5. /\ mpTvClient'[arg] = mInstance
        /\ \A w \in Wrappers \ {arg} : mpTvClient'[w] = mpTvClient[w]
    BY <1>0, <2>1
  <2>6. \A o \in Objects : mTvClientObserver'[o] = {w \in Wrappers : mpTvClient'[w] = o}
    <3>1. mTvClientObserver'[mInstance] = {w \in Wrappers : mpTvClient'[w] = mInstance}
      BY <1>0, <2>0, <2>1, <2>5 DEF Observed
    <3>2. ASSUME NEW o \in Objects, o # mInstance
          PROVE  mTvClientObserver'[o] = {w \in Wrappers : mpTvClient'[w] = o}
      <4>1. o # 0 /\ mTvClientObserver'[o] = mTvClientObserver[o]
        BY <1>0, <2>1, <3>2 DEF Objects
      <4>2. \A w \in Wrappers : mpTvClient'[w] # o /\ mpTvClient[w] # o
        BY <2>5, <3>2, <4>1 DEF Observed
      <4>. QED
        BY <4>1, <4>2 DEF Observed
    <3>. QED
      BY <3>1, <3>2
  <2>7. \A w \in Wrappers : mpTvClient'[w] # 0 => w \in funcs \/ arg = w
    BY <2>0, <2>5 DEF Observed
  <2>8. \A w \in left : mpTvClient'[w] # 0
    BY <2>0, <2>5 DEF Observed, TypeOK
  <2>9. Observed'
    BY <2>1, <2>2, <2>5, <2>6, <2>7, <2>8 DEF Observed
  <2>. QED
    BY <2>1, <2>4, <2>9 DEF Body
<1>2. CASE RegisterCallback
  <2>1. /\ pc["main"] = "register" /\ Go("main", "idle") /\ funcs' = funcs \cup {arg}
        /\ UNCHANGED <<registered, kernel, obituary, gone, mInstance, mTvClientObserver,
                       tvServicebinder, mpTvClient, left, making, arg, crash>>
    BY <1>2 DEF RegisterCallback, service, library, events
  <2>2. pc'["main"] = "idle" /\ pc'["event"] = pc["event"] /\ pc'["death"] = pc["death"]
    BY <1>0, <2>1, GoPc
  <2>3. Known' = Known
    BY <2>1, <2>2 DEF Known
  <2>4. NobodyDied' /\ OneObject' /\ Observed'
    BY <2>1, <2>2, <2>3 DEF NobodyDied, OneObject, Observed, Making, Assembled
  <2>. QED
    BY <2>1, <2>4 DEF Body
<1>3. CASE SendDataReturn
  <2>1. /\ pc["main"] = "data" /\ Go("main", "idle")
        /\ UNCHANGED <<registered, kernel, obituary, gone, mInstance, mTvClientObserver,
                       tvServicebinder, mpTvClient, left, making, funcs, arg, crash>>
    BY <1>3 DEF SendDataReturn, service, library, app, events
  <2>2. "idle" \notin Making
    BY DEF Making
  <2>. QED
    BY <2>1, <2>2, MainKept DEF Body
<1>4. CASE ReleaseClear
  <2>1. /\ pc["main"] = "clear" /\ Go("main", "stop")
        /\ registered' = registered \ {mpTvClient[arg]}
        /\ UNCHANGED <<kernel, obituary, gone, mInstance, mTvClientObserver,
                       mpTvClient, left, making, funcs, arg, crash>>
    BY <1>4 DEF ReleaseClear, app, events
  <2>2. pc'["main"] = "stop" /\ pc'["event"] = pc["event"] /\ pc'["death"] = pc["death"]
    BY <1>0, <2>1, GoPc
  <2>3. Known' = Known /\ Known \subseteq {mInstance}
    BY <2>1, <2>2 DEF Known
  <2>4. mpTvClient[arg] = mInstance /\ registered = Known
    BY <1>0, <2>1 DEF OneObject, Observed
  <2>5. registered' = {}
    BY <2>1, <2>3, <2>4
  <2>6. NobodyDied' /\ OneObject' /\ Observed'
    BY <2>1, <2>2, <2>3, <2>5 DEF NobodyDied, OneObject, Observed, Making, Assembled
  <2>. QED
    BY <2>1, <2>6 DEF Body
<1>. QED
  BY <1>1, <1>2, <1>3, <1>4

\* The calls of the application.
LEMMA AppCallsCalm ==
    ASSUME TypeOK, NobodyDied, OneObject, Observed, crash = "no", AppCalls
    PROVE  Body'
<1>1. CASE setTvEventCallback
  <2>1. /\ UNCHANGED <<registered, kernel, obituary, gone, mInstance, mTvClientObserver,
                       tvServicebinder, mpTvClient, making, funcs, arg, left, pc, crash>>
    BY <1>1 DEF setTvEventCallback, service, library, events
  <2>2. pc["event"] # "idle" => Known # {}
    BY DEF OneObject
  <2>3. \A w \in left : mpTvClient[w] # 0
    BY DEF Observed
  <2>. QED
    BY <2>1, <2>2, <2>3, AsideKept DEF Body
<1>2. ASSUME NEW w \in Wrappers, SendMethodCall(w) PROVE Body'
  <2>1. /\ UNCHANGED <<registered, kernel, obituary, gone, mInstance, mTvClientObserver,
                       tvServicebinder, mpTvClient, making, funcs, arg, left, pc>>
        /\ crash' = "no"
    BY <1>2 DEF SendMethodCall, CallThrough, NobodyDied, service, library, app, events
  <2>2. pc["event"] # "idle" => Known # {}
    BY DEF OneObject
  <2>3. \A v \in left : mpTvClient[v] # 0
    BY DEF Observed
  <2>. QED
    BY <2>1, <2>2, <2>3, AsideKept DEF Body
<1>3. ASSUME NEW w \in Wrappers, GetInstance(w) \/ SendDataRequest(w) \/ ReleaseInstance(w)
      PROVE  Body'
  <2>1. /\ pc["main"] = "idle" /\ crash' = "no"
        /\ UNCHANGED <<registered, kernel, obituary, gone, mInstance, mTvClientObserver,
                       tvServicebinder, mpTvClient, left, making, funcs>>
        /\ \E p \in {"get", "data", "clear"} :
              Go("main", p) /\ (p = "clear" => mpTvClient[arg'] # 0)
    BY <1>3 DEF GetInstance, SendDataRequest, ReleaseInstance, CallThrough, NobodyDied,
       service, library, app, events
  <2>2. \A p \in {"get", "data", "clear"} : p \notin Making
    BY DEF Making
  <2>. QED
    BY <2>1, <2>2, MainKept DEF Body
<1>. QED
  BY <1>1, <1>2, <1>3 DEF AppCalls

\* The events: the pointers they go through are those main has set up.
LEMMA EventsCalm ==
    ASSUME TypeOK, Calm, NobodyDied, OneObject, Observed, crash = "no",
           EventThread \/ \E o \in Objects : \E k \in Kinds : onTransact(o, k)
    PROVE  Body'
<1>0. /\ DOMAIN pc = Threads /\ {"main", "event", "death"} = Threads
  BY DEF TypeOK, PcOK, Threads
<1>1. /\ UNCHANGED <<registered, kernel, obituary, gone, mInstance, mTvClientObserver,
                     tvServicebinder, mpTvClient, making, funcs, arg, mEventCallback,
                     stopped, deaths>>
      /\ \E p : Go("event", p)
  BY DEF EventThread, HandEvent, CallbackReturns, OnTransactReturns, onTvClientEvent, onTransact,
     service, library, app
<1>2. pc'["main"] = pc["main"] /\ pc'["death"] = pc["death"]
  BY <1>0, <1>1, GoPc
<1>3. SettingUp' <=> SettingUp
  BY <1>1, <1>2 DEF SettingUp
<1>4. ASSUME pc["event"] # "idle", \A w \in left' : mpTvClient[w] # 0,
             crash' = "no" \/ SettingUp
      PROVE  Body'
  <2>1. Known # {}
    BY <1>4 DEF OneObject
  <2>. QED
    BY <1>1, <1>2, <1>3, <1>4, <2>1, AsideKept DEF Body
<1>5. CASE HandEvent
  <2>1. pc["event"] = "lock"
    BY <1>5 DEF HandEvent
  <2>2. CASE mInstance = 0
    <3>1. UNCHANGED left
      BY <1>5, <2>2 DEF HandEvent
    <3>2. pc["main"] = "assign"
      BY <2>1, <2>2 DEF OneObject, Known
    <3>. QED
      BY <1>4, <2>1, <3>1, <3>2 DEF SettingUp, Observed
  <2>3. CASE mInstance # 0
    <3>1. left' = mTvClientObserver[mInstance] /\ UNCHANGED crash
      BY <1>5, <2>3 DEF HandEvent
    <3>2. mInstance \in Objects
      BY <2>3 DEF TypeOK, ObjectsOK, Objects
    <3>3. left' = {w \in Wrappers : mpTvClient[w] = mInstance}
      BY <3>1, <3>2 DEF Observed
    <3>. QED
      BY <1>4, <2>1, <2>3, <3>1, <3>3
  <2>. QED
    BY <2>2, <2>3
<1>6. ASSUME NEW w \in Wrappers, onTvClientEvent(w) PROVE Body'
  <2>1. pc["event"] = "walk" /\ w \in left /\ left' = left \ {w}
    BY <1>6 DEF onTvClientEvent
  <2>2. mpTvClient[w] # 0 /\ (w \in funcs \/ pc["main"] = "register")
    BY <2>1 DEF Observed
  <2>3. crash' = "no" \/ SettingUp
    BY <1>6, <2>2 DEF onTvClientEvent, SettingUp
  <2>4. \A v \in left' : mpTvClient[v] # 0
    BY <2>1 DEF Observed
  <2>. QED
    BY <1>4, <2>1, <2>3, <2>4
<1>7. CASE CallbackReturns \/ OnTransactReturns
  <2>1. pc["event"] # "idle" /\ UNCHANGED left /\ crash' = "no"
    BY <1>7 DEF CallbackReturns, OnTransactReturns, CallThrough, NobodyDied, events
  <2>. QED
    BY <1>4, <2>1 DEF Observed
<1>8. ASSUME NEW o \in Objects, NEW k \in Kinds, onTransact(o, k) PROVE Body'
  <2>1. o \in registered /\ left' = {} /\ UNCHANGED crash
    BY <1>8 DEF onTransact
  <2>2. Known # {}
    BY <2>1 DEF OneObject
  <2>. QED
    BY <1>1, <1>2, <2>1, <2>2, AsideKept DEF Body
<1>. QED
  BY <1>5, <1>6, <1>7, <1>8 DEF EventThread

\* Every step keeps it.
LEMMA CalmStep == TypeOK /\ CalmInv /\ [Next]_vars => CalmInv'
<1>. SUFFICES ASSUME TypeOK, CalmInv, [Next]_vars, Calm' PROVE Body'
  BY DEF CalmInv
<1>1. CASE UNCHANGED vars
  <2>1. Body
    BY <1>1 DEF CalmInv, Calm, vars, service, app
  <2>2. Known' = Known
    BY <1>1 DEF Known, vars, library
  <2>. QED
    BY <1>1, <2>1, <2>2 DEF Body, NobodyDied, OneObject, Observed, SettingUp, vars, service,
       library, app, events
<1>2. CASE Next
  <2>0. crash = "no"
    BY <1>2 DEF Next
  <2>1. ~ServerDies /\ ~ReleaseStop
    <3>1. ServerDies => deaths' # 0
      BY DEF ServerDies, TypeOK
    <3>2. ReleaseStop => stopped'
      BY DEF ReleaseStop
    <3>. QED
      BY <3>1, <3>2 DEF Calm
  <2>2. Calm
    <3>1. CASE MainThread
      BY <2>1, <3>1 DEF Calm, MainThread, Construct, GetInstanceCheck, CtorLock, CtorGetService,
         CtorSetCallback, CtorAssign, setTvClientObserver, RegisterCallback, SendDataReturn,
         ReleaseClear, service, app
    <3>2. CASE AppCalls
      BY <3>2 DEF Calm, AppCalls, GetInstance, SendMethodCall, SendDataRequest, ReleaseInstance,
         setTvEventCallback, service, app
    <3>3. CASE EventThread \/ \E o \in Objects : \E k \in Kinds : onTransact(o, k)
      BY <3>3 DEF Calm, EventThread, HandEvent, CallbackReturns, OnTransactReturns,
         onTvClientEvent, onTransact, service, app
    <3>4. CASE DeathThread
      <4>1. CASE Construct("death")
        BY <4>1 DEF Calm, Construct, GetInstanceCheck, CtorLock, CtorGetService,
           CtorSetCallback, CtorAssign, service, app
      <4>2. CASE binderDied
        <5>1. deaths' = deaths /\ stopped' = stopped
          BY <4>2 DEF binderDied, app
        <5>. QED
          BY <5>1 DEF Calm
      <4>3. CASE Reconnected
        BY <4>3 DEF Calm, Reconnected, service, app
      <4>. QED
        BY <3>4, <4>1, <4>2, <4>3 DEF DeathThread
    <3>5. CASE ServerStarts \/ \E o \in Objects : KernelReleases(o)
      BY <3>5 DEF Calm, ServerStarts, KernelReleases, app
    <3>. QED
      BY <1>2, <2>1, <3>1, <3>2, <3>3, <3>4, <3>5 DEF Next
  <2>3. NobodyDied /\ OneObject /\ Observed
    BY <2>2 DEF CalmInv, Body
  <2>4. CASE MainThread
    BY <2>0, <2>1, <2>3, <2>4, ConstructCalm, WrapperCalm DEF MainThread
  <2>5. CASE AppCalls
    BY <2>0, <2>3, <2>5, AppCallsCalm
  <2>6. CASE EventThread \/ \E o \in Objects : \E k \in Kinds : onTransact(o, k)
    BY <2>0, <2>2, <2>3, <2>6, EventsCalm
  <2>7. ~DeathThread
    BY <2>3 DEF DeathThread, Construct, GetInstanceCheck, CtorLock, CtorGetService,
       CtorSetCallback, CtorAssign, binderDied, Reconnected, NobodyDied
  <2>8. CASE ServerStarts
    <3>1. /\ UNCHANGED <<registered, kernel, obituary, gone, mInstance, mTvClientObserver,
                         tvServicebinder, mpTvClient, making, funcs, arg, left, pc, crash>>
      BY <2>8 DEF ServerStarts, library, app, events
    <3>2. pc["event"] # "idle" => Known # {}
      BY <2>3 DEF OneObject
    <3>3. \A w \in left : mpTvClient[w] # 0
      BY <2>3 DEF Observed
    <3>. QED
      BY <2>0, <2>3, <3>1, <3>2, <3>3, AsideKept DEF Body
  <2>9. ASSUME NEW o \in Objects, KernelReleases(o) PROVE Body'
    <3>1. o \in kernel \ registered
      BY <2>9 DEF KernelReleases
    <3>2. pc["main"] = "stop"
      BY <2>3, <3>1 DEF OneObject
    <3>3. o = mInstance
      BY <2>3, <3>1, <3>2 DEF OneObject, Known
    <3>4. /\ UNCHANGED <<registered, obituary, gone, mInstance, mTvClientObserver,
                         tvServicebinder, mpTvClient, making, funcs, arg, left, pc, crash>>
          /\ kernel' \subseteq kernel
      BY <2>9, <3>3 DEF KernelReleases, app, events
    <3>5. Known' = Known
      BY <3>4 DEF Known
    <3>. QED
      BY <2>0, <2>3, <3>2, <3>4, <3>5 DEF Body, NobodyDied, OneObject, Observed
  <2>. QED
    BY <1>2, <2>1, <2>4, <2>5, <2>6, <2>7, <2>8, <2>9 DEF Next
<1>. QED
  BY <1>1, <1>2

\* Nothing is set up at first.
LEMMA CalmInit == Init => CalmInv
<1>. SUFFICES ASSUME Init PROVE Body
  BY DEF CalmInv
<1>1. Known = {}
  BY DEF Init, Known, Threads
<1>2. /\ pc["main"] = "idle" /\ pc["event"] = "idle" /\ pc["death"] = "idle"
      /\ crash = "no" /\ left = {} /\ registered = {} /\ kernel = {}
      /\ obituary = FALSE /\ gone = {} /\ \A w \in Wrappers : mpTvClient[w] = 0
      /\ \A o \in Objects : o # 0 /\ mTvClientObserver[o] = {}
  BY DEF Init, Threads, Objects
<1>. QED
  BY <1>1, <1>2 DEF Body, NobodyDied, OneObject, Observed, Making, Assembled

\* Once the application is set up, and while tvserver lives, events and calls
\* meet no pointer that is null or dangling (TvClient.SafeOnceSetUp).
THEOREM SafeOnceSetUpCorrect == Spec => []SafeOnceSetUp
<1>1. TypeOK /\ CalmInv => SafeOnceSetUp
  BY DEF CalmInv, Body, Calm, SafeOnceSetUp, SettingUp, TypeOK
<1>. QED
  BY <1>1, CalmInit, CalmStep, TypeCorrect, PTL DEF Spec

\* An event is shown to every wrapper that is ready for it, whatever object it
\* was sent to (TvClient.EveryWrapperHears).
THEOREM EveryWrapperHearsCorrect == Spec => EveryWrapperHears
<1>. DEFINE Heard == pc["event"] = "lock" /\ pc'["event"] = "walk" /\ crash' = "no" /\ deaths = 0
                       /\ ~stopped => {w \in funcs : mpTvClient[w] # 0} \subseteq left'
<1>1. TypeOK /\ CalmInv /\ [Next]_vars => [Heard]_vars
  <2>. SUFFICES ASSUME TypeOK, CalmInv, Next, Calm, pc["event"] = "lock", pc'["event"] = "walk",
                       crash' = "no"
                PROVE  {w \in funcs : mpTvClient[w] # 0} \subseteq left'
    BY DEF Calm
  <2>0. DOMAIN pc = Threads /\ {"main", "event", "death"} = Threads
    BY DEF TypeOK, PcOK, Threads
  <2>1. HandEvent
    <3>1. ASSUME NEW t \in {"main", "death"}, NEW p, Go(t, p) PROVE FALSE
      BY <2>0, <3>1, GoPc
    <3>2. pc' # pc
      OBVIOUS
    <3>3. ~MainThread
      BY <3>1 DEF MainThread, Construct, GetInstanceCheck, CtorLock, CtorGetService,
         CtorSetCallback, CtorAssign, setTvClientObserver, RegisterCallback, SendDataReturn,
         ReleaseClear, ReleaseStop
    <3>4. ~AppCalls
      BY <3>1, <3>2 DEF AppCalls, GetInstance, SendMethodCall, SendDataRequest, ReleaseInstance,
         setTvEventCallback
    <3>5. ~DeathThread
      BY <3>1 DEF DeathThread, Construct, GetInstanceCheck, CtorLock, CtorGetService,
         CtorSetCallback, CtorAssign, binderDied, Reconnected
    <3>6. EventThread => HandEvent
      BY DEF EventThread, onTvClientEvent, CallbackReturns, OnTransactReturns
    <3>7. ~\E o \in Objects : (\E k \in Kinds : onTransact(o, k)) \/ KernelReleases(o)
      BY <3>2 DEF onTransact, KernelReleases
    <3>8. ~ServerDies /\ ~ServerStarts
      BY <3>2 DEF ServerDies, ServerStarts
    <3>. QED
      BY <3>3, <3>4, <3>5, <3>6, <3>7, <3>8 DEF Next
  <2>2. mInstance # 0 /\ left' = mTvClientObserver[mInstance]
    BY <2>1 DEF HandEvent
  <2>3. mInstance \in Objects
    BY <2>2 DEF TypeOK, ObjectsOK, Objects
  <2>4. Observed /\ funcs \subseteq Wrappers
    BY DEF CalmInv, Body, TypeOK
  <2>. QED
    BY <2>2, <2>3, <2>4 DEF Observed
<1>2. EveryWrapperHears <=> [][Heard]_vars
  BY DEF EveryWrapperHears
<1>. QED
  BY <1>1, <1>2, CalmInit, CalmStep, TypeCorrect, PTL DEF Spec
=============================================================================
