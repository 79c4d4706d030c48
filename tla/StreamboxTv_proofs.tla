------------------------- MODULE StreamboxTv_proofs -------------------------
(***************************************************************************)
(* Theorems about StreamboxTv, for all statuses, configurations and        *)
(* numbers of drawing threads and uevents.                                 *)
(***************************************************************************)
EXTENDS StreamboxTv, FiniteSetTheorems, TLAPS

Stopping == {"ui handle", "ui join"}
Passing  == {"ui stop", "ui handle", "ui join", "size", "vrr mode", "vrr on", "audio"}

MainPcs   == {"socket", "hpd", "stop", "start tv", "spawn", "loop"} \union StartupCheck
UeventPcs == {"off", "idle", "vrr off", "call stop"}
EventPcs  == {"idle", "ui start", "mute", "return"} \union Passing
PollPcs   == {"idle", "send", "wait", "check vrr", "mode 1", "mode 2", "en 1"}

\* Until main has called StartTv, which is before the monitor thread comes.
Early == {"socket", "hpd", "stop", "start tv"}

\* Where main has not called StartTv yet, and where it may be without a display.
Idling    == {"socket", "hpd", "stop"}
Capturing == {"stop", "start tv", "loop"}

Vrr == [mode : 0..2, en : BOOLEAN]

\* Everything that can be amiss.
Kinds == {"start", "stop", "signal", "vrr", "switch", "shown"}

\* What the handles of threads may be is left to ScreenInv: a startup check that
\* met a callback may have found none.
WorldOK ==
    /\ signal \in Signals /\ plugged \in BOOLEAN /\ vrrIn \in BOOLEAN
    /\ display \in BOOLEAN /\ uevents \in Seq(BOOLEAN)

ServerOK ==
    /\ started \in BOOLEAN /\ stored \in Signals \union {NONE} /\ plugSeen \in BOOLEAN
    /\ raised \in SUBSET {"status", "vrr"}
    /\ handler \in {"stable", "lost", "unplugged", "other", NONE}
    /\ vrr \in Vrr

AppOK ==
    /\ g_hdmitx_connected \in BOOLEAN /\ g_headless_mode \in BOOLEAN /\ g_tv_started \in BOOLEAN
    /\ g_no_signal_ui_active \in BOOLEAN /\ g_no_signal_thread_created \in BOOLEAN
    /\ ui \in [UiThreads -> {"free", "draw", "exit", "ended"}]
    /\ DOMAIN joins = {"main", "event"} /\ alsaloop \in BOOLEAN

PcOK ==
    /\ DOMAIN pc = Threads /\ raced \in BOOLEAN
    /\ pc["main"] \in MainPcs /\ pc["uevent"] \in UeventPcs
    /\ pc["event"] \in EventPcs /\ pc["poll"] \in PollPcs
    /\ pc["main"] # "loop" => pc["uevent"] = "off"
    /\ pc["main"] \in Early => ~g_tv_started

AmissOK == amiss \subseteq Kinds

TypeOK == WorldOK /\ ServerOK /\ AppOK /\ PcOK /\ AmissOK

(***************************************************************************)
(* The order of the threads: the monitor thread comes after main's work,   *)
(* and only where there is a display; a callback runs while the poll       *)
(* thread waits for it, and passes a picture through for "stable" only.    *)
(***************************************************************************)
Quiet == ~started /\ raised = {} /\ handler # "stable"

OrderInv ==
    /\ pc["main"] \in Idling => Quiet
    /\ ~started => stored = NONE /\ raised = {}
    /\ g_headless_mode => pc["main"] \in Capturing /\ pc["uevent"] = "off"
    /\ pc["event"] # "idle" => pc["poll"] = "wait"
    /\ pc["poll"] = "send" => handler # NONE
    /\ pc["poll"] = "send" /\ handler = "lost" => stored # "STABLE"
    /\ pc["event"] \in Passing => handler = "stable" /\ ~g_headless_mode

(***************************************************************************)
(* AutoVrrStands.  Whatever makes the VRR mode differ from the source's    *)
(* leaves something behind that ends in another check: a VRR event raised, *)
(* a callback for "stable", or the check itself; or the last check failed. *)
(***************************************************************************)
FollowsSource == vrr.mode = IF vrrIn THEN 2 ELSE 1

Checked ==
    started /\ "vrr" \notin raised /\ stored = "STABLE" /\ VrrEnabled /\ ~g_headless_mode

NoCheckDue ==
    \/ pc["poll"] = "idle"
    \/ pc["poll"] \in {"send", "wait"} /\ handler # "stable"

VrrInv ==
    Checked =>
        /\ NoCheckDue /\ vrr.en /\ "vrr" \notin amiss => FollowsSource
        /\ pc["poll"] = "mode 1" => ~vrrIn
        /\ pc["poll"] = "mode 2" => vrrIn
        /\ pc["poll"] = "en 1" => FollowsSource

(***************************************************************************)
(* ScreenAsRequested.  While startup check and callback have not met, one  *)
(* of them at most is between flag and join, and the thread that is not    *)
(* free is the one in the handle.                                          *)
(***************************************************************************)
Joining(t) == pc[t] \in Stopping

ScreenInv ==
    ~raced =>
        /\ pc["main"] \in StartupCheck => pc["event"] = "idle"
        /\ \A u \in UiThreads : ui[u] # "free" => u = g_no_signal_thread
        /\ (Joining("main") \/ Joining("event")) =>
              /\ ~g_no_signal_ui_active
              /\ g_no_signal_thread \in UiThreads /\ ui[g_no_signal_thread] # "free"
              /\ g_no_signal_thread_created <=> ui[g_no_signal_thread] \in {"draw", "exit"}
        /\ ~Joining("main") /\ ~Joining("event") =>
              /\ g_no_signal_thread_created <=> g_no_signal_ui_active
              /\ g_no_signal_ui_active =>
                    g_no_signal_thread \in UiThreads /\ ui[g_no_signal_thread] = "draw"
              /\ ~g_no_signal_ui_active => \A u \in UiThreads : ui[u] = "free"
        /\ \A t \in DOMAIN joins : pc[t] = "ui join" => joins[t] = g_no_signal_thread

(***************************************************************************)
(* Positions.                                                              *)
(***************************************************************************)
\* Where the threads are after one has gone on, and when that is a race.
LEMMA GotoPc ==
    ASSUME DOMAIN pc = Threads, NEW t \in Threads, NEW p, Goto(t, p)
    PROVE  /\ DOMAIN pc' = Threads /\ pc'[t] = p
           /\ \A u \in Threads \ {t} : pc'[u] = pc[u]
           /\ raced' = (raced \/ (pc'["main"] \in StartupCheck /\ pc'["event"] # "idle"))
  BY DEF Goto, GotoAll

(***************************************************************************)
(* The type invariant.                                                     *)
(***************************************************************************)
\* The steps that main and the callback share.
ScreenStep(t) ==
    \/ StartNoSignalUi(t) \/ StopNoSignalUi(t)
    \/ StopNoSignalUiHandle(t) \/ StopNoSignalUiJoin(t) \/ StopAudioOnLoss(t)

\* What is taken off a queue, and what is left.
LEMMA TakenOff ==
    ASSUME NEW S, NEW q \in Seq(S), q # <<>>
    PROVE  Head(q) \in S /\ Tail(q) \in Seq(S)
  OBVIOUS

\* What the world does keeps the types.
LEMMA WorldStep == TypeOK /\ World => TypeOK'
<1>. SUFFICES ASSUME TypeOK, World PROVE TypeOK'
  OBVIOUS
<1>. USE DEF World, Plug, VrrChanges, DisplayChanges, SignalChanges, input, tx, server, app, screen
<1>1. WorldOK'
  <2>1. CASE Plug
    BY <2>1, ConstantsAssumption DEF TypeOK, WorldOK
  <2>2. CASE VrrChanges
    BY <2>2 DEF TypeOK, WorldOK
  <2>3. CASE DisplayChanges
    <3>1. display' \in BOOLEAN /\ uevents' \in {uevents, Append(uevents, display')}
      BY <2>3
    <3>2. uevents' \in Seq(BOOLEAN)
      BY <3>1 DEF TypeOK, WorldOK
    <3>. QED
      BY <2>3, <3>1, <3>2 DEF TypeOK, WorldOK
  <2>4. ASSUME NEW s \in Signals, SignalChanges(s) PROVE WorldOK'
    BY <2>4 DEF TypeOK, WorldOK
  <2>. QED
    BY <2>1, <2>2, <2>3, <2>4
<1>2. ServerOK'
  BY DEF TypeOK, ServerOK, Raise
<1>3. AppOK' /\ PcOK' /\ AmissOK'
  BY DEF TypeOK, AppOK, PcOK, AmissOK
<1>. QED
  BY <1>1, <1>2, <1>3 DEF TypeOK

\* What a write to the VRR driver leaves.
LEMMA VrrSet ==
    ASSUME vrr \in Vrr,
           \/ vrr' = [vrr EXCEPT !.mode = 0] \/ vrr' = [vrr EXCEPT !.mode = 1]
           \/ vrr' = [vrr EXCEPT !.mode = 2]
           \/ vrr' = [vrr EXCEPT !.en = TRUE] \/ vrr' = [vrr EXCEPT !.en = FALSE]
           \/ vrr' = vrr
    PROVE  vrr' \in Vrr
<1>1. ASSUME NEW m \in 0..2, vrr' = [vrr EXCEPT !.mode = m] PROVE vrr' \in Vrr
  BY <1>1 DEF Vrr
<1>2. CASE vrr' = [vrr EXCEPT !.en = TRUE]
  BY <1>2 DEF Vrr
<1>3. CASE vrr' = [vrr EXCEPT !.en = FALSE]
  BY <1>3 DEF Vrr
<1>4. CASE vrr' = vrr
  BY <1>4
<1>. QED
  BY <1>1, <1>2, <1>3, <1>4

\* A step that changes nothing else of the server's.
LEMMA VrrTyped ==
    ASSUME ServerOK, UNCHANGED server, vrr' \in Vrr
    PROVE  ServerOK'
<1>1. /\ started' = started /\ stored' = stored /\ plugSeen' = plugSeen
      /\ raised' = raised /\ handler' = handler
  BY DEF server
<1>. QED
  BY <1>1 DEF ServerOK

\* The steps of a thread of the system, the unplug of another source with them.
ThreadStep ==
    \/ onOtherSourceConnect \/ PollThread \/ EventThread \/ UeventThread \/ MainThread

\* So does what the threads do to the variables they share.
LEMMA DataStep ==
    ASSUME TypeOK, ThreadStep
    PROVE  WorldOK' /\ ServerOK' /\ AppOK'
<1>. USE DEF TypeOK, input, tx, server, app, screen
<1>1. CASE PollThread \/ onOtherSourceConnect
  <2>1. WorldOK' /\ AppOK'
    <3>1. UNCHANGED <<input, tx, app, screen, alsaloop, joins>>
      BY <1>1 DEF PollThread, onSigStatusChange, onSigVrrChange, onSourceConnect, SendEvent,
         onOtherSourceConnect, CheckAndApplyAutoVrr, SetForceVrrFrameLock
    <3>. QED
      BY <3>1 DEF WorldOK, AppOK
  <2>2. CASE onSigStatusChange
    BY <2>1, <2>2 DEF onSigStatusChange, WorldOK, ServerOK
  <2>3. CASE onSigVrrChange
    BY <2>1, <2>3 DEF onSigVrrChange, ServerOK
  <2>4. CASE onSourceConnect \/ onOtherSourceConnect
    BY <2>1, <2>4 DEF onSourceConnect, onOtherSourceConnect, WorldOK, ServerOK
  <2>5. CASE SendEvent \/ CheckAndApplyAutoVrr
    BY <2>1, <2>5 DEF SendEvent, CheckAndApplyAutoVrr, ServerOK
  <2>6. CASE SetForceVrrFrameLock
    <3>1. vrr' \in Vrr
      <4>1. \/ vrr' = [vrr EXCEPT !.mode = 1] \/ vrr' = [vrr EXCEPT !.mode = 2]
            \/ vrr' = [vrr EXCEPT !.en = TRUE] \/ vrr' = vrr
        BY <2>6 DEF SetForceVrrFrameLock, Switch
      <4>. QED
        BY <4>1, VrrSet DEF ServerOK
    <3>2. UNCHANGED server
      BY <2>6 DEF SetForceVrrFrameLock
    <3>3. ServerOK'
      BY <3>1, <3>2, VrrTyped
    <3>. QED
      BY <2>1, <3>3
  <2>. QED
    BY <1>1, <2>1, <2>2, <2>3, <2>4, <2>5, <2>6 DEF PollThread
<1>2. ASSUME NEW t \in {"main", "event"}, ScreenStep(t) PROVE WorldOK' /\ ServerOK' /\ AppOK'
  <2>. USE <1>2 DEF ScreenStep, StartNoSignalUi, StopNoSignalUi, StopNoSignalUiHandle,
           StopNoSignalUiJoin, StopAudioOnLoss, StopAudioPassthrough
  <2>1. WorldOK' /\ ServerOK'
    BY DEF WorldOK, ServerOK
  <2>2. AppOK'
    BY DEF AppOK
  <2>. QED
    BY <2>1, <2>2
<1>3. CASE SynchronizeHdmitxToHdmirx \/ ApplyVrrMode \/ StartAudioPassthrough \/ CallbackReturns
  <2>. USE DEF SynchronizeHdmitxToHdmirx, ApplyVrrMode, StartAudioPassthrough,
           StopAudioPassthrough, CallbackReturns
  <2>1. WorldOK' /\ AppOK'
    BY <1>3 DEF WorldOK, AppOK
  <2>2. CASE ApplyVrrMode
    <3>1. vrr' \in Vrr
      <4>1. \/ vrr' = [vrr EXCEPT !.mode = 0] \/ vrr' = [vrr EXCEPT !.mode = 1]
            \/ vrr' = [vrr EXCEPT !.en = TRUE] \/ vrr' = [vrr EXCEPT !.en = FALSE]
            \/ vrr' = vrr
        BY <2>2 DEF Switch
      <4>. QED
        BY <4>1, VrrSet DEF ServerOK
    <3>2. UNCHANGED server
      BY <2>2
    <3>3. ServerOK'
      BY <3>1, <3>2, VrrTyped
    <3>. QED
      BY <2>1, <3>3
  <2>3. CASE ~ApplyVrrMode
    BY <1>3, <2>1, <2>3 DEF ServerOK
  <2>. QED
    BY <2>2, <2>3
<1>4. CASE UeventMonitorThread
  <2>1. Head(uevents) \in BOOLEAN /\ Tail(uevents) \in Seq(BOOLEAN)
    BY <1>4, TakenOff DEF UeventMonitorThread, WorldOK
  <2>. USE DEF StartTvProcessing, StartTv, StopAudioPassthrough
  <2>2. WorldOK' /\ AppOK'
    BY <1>4, <2>1 DEF UeventMonitorThread, WorldOK, AppOK
  <2>3. ServerOK'
    BY <1>4 DEF UeventMonitorThread, ServerOK
  <2>. QED
    BY <2>2, <2>3
<1>5. CASE StopTvProcessing
  <2>. USE <1>5 DEF StopTvProcessing, StopTv
  <2>1. WorldOK' /\ AppOK'
    BY DEF WorldOK, AppOK
  <2>2. vrr' = [vrr EXCEPT !.en = FALSE] \/ vrr' = vrr
    BY DEF Switch
  <2>3. vrr' \in Vrr
    BY <2>2, VrrSet DEF ServerOK
  <2>4. ServerOK'
    BY <2>3 DEF ServerOK
  <2>. QED
    BY <2>1, <2>4
<1>6. CASE MainStartTv
  <2>. USE <1>6 DEF MainStartTv, StartTvProcessing, StartTv
  <2>1. WorldOK' /\ AppOK'
    BY DEF WorldOK, AppOK
  <2>2. ServerOK'
    BY DEF ServerOK
  <2>. QED
    BY <2>1, <2>2
<1>7. CASE MainSocket \/ MainReadHpd \/ MainStopTv \/ CheckPlug \/ CheckSize \/ MainSpawn
  <2>. USE <1>7 DEF StopTv, MainSocket, MainReadHpd, MainStopTv, CheckPlug, CheckSize, MainSpawn
  <2>1. WorldOK' /\ ServerOK'
    BY DEF WorldOK, ServerOK
  <2>2. AppOK'
    BY DEF WorldOK, AppOK
  <2>. QED
    BY <2>1, <2>2
<1>. QED
  BY <1>1, <1>2, <1>3, <1>4, <1>5, <1>6, <1>7
     DEF ThreadStep, EventThread, UeventThread, MainThread, ScreenStep

\* What goes wrong is one of the kinds there are.
LEMMA AmissStep ==
    ASSUME TypeOK, ThreadStep
    PROVE  AmissOK'
<1>. USE DEF TypeOK, AmissOK, Kinds, Fails, Mends
<1>1. CASE PollThread \/ onOtherSourceConnect
  BY <1>1 DEF PollThread, onSigStatusChange, onSigVrrChange, onSourceConnect, SendEvent,
     onOtherSourceConnect, CheckAndApplyAutoVrr, SetForceVrrFrameLock
<1>2. ASSUME NEW t, ScreenStep(t) PROVE AmissOK'
  BY <1>2 DEF ScreenStep, StartNoSignalUi, StopNoSignalUi, StopNoSignalUiHandle,
     StopNoSignalUiJoin, StopAudioOnLoss
<1>3. CASE SynchronizeHdmitxToHdmirx \/ ApplyVrrMode \/ StartAudioPassthrough \/ CallbackReturns
  BY <1>3 DEF SynchronizeHdmitxToHdmirx, ApplyVrrMode, StartAudioPassthrough, CallbackReturns
<1>4. CASE UeventThread \/ MainStartTv \/ MainStopTv
  BY <1>4 DEF UeventThread, UeventMonitorThread, StopTvProcessing, MainStartTv, MainStopTv,
     StartTvProcessing, StartTv, StopTv
<1>5. CASE MainSocket \/ MainReadHpd \/ CheckPlug \/ CheckSize \/ MainSpawn
  BY <1>5 DEF MainSocket, MainReadHpd, CheckPlug, CheckSize, MainSpawn
<1>. QED
  BY <1>1, <1>2, <1>3, <1>4, <1>5 DEF ThreadStep, EventThread, MainThread, ScreenStep

\* And each thread goes on to a position of its own.
LEMMA PcStep ==
    ASSUME TypeOK, ThreadStep
    PROVE  PcOK'
<1>. USE DEF TypeOK, PcOK, Threads, app
<1>1. CASE PollThread \/ onOtherSourceConnect
  <2>1. /\ UNCHANGED g_tv_started
        /\ \/ \E p \in PollPcs : Goto("poll", p)
           \/ UNCHANGED <<pc, raced>>
           \/ \E p \in EventPcs : GotoAll([pc EXCEPT !["poll"] = "wait", !["event"] = p])
    BY <1>1 DEF PollThread, onSigStatusChange, onSigVrrChange, onSourceConnect, SendEvent,
       onOtherSourceConnect, CheckAndApplyAutoVrr, SetForceVrrFrameLock, PollPcs, EventPcs, Passing
  <2>. QED
    BY <2>1 DEF Goto, GotoAll, PollPcs
<1>2. CASE EventThread
  <2>1. /\ UNCHANGED g_tv_started
        /\ \/ \E p \in EventPcs : Goto("event", p)
           \/ \E p \in PollPcs :
                 pc' = [pc EXCEPT !["event"] = "idle", !["poll"] = p] /\ raced' = raced
    BY <1>2 DEF EventThread, StartNoSignalUi, StopNoSignalUi, StopNoSignalUiHandle,
       StopNoSignalUiJoin, StopAudioOnLoss, SynchronizeHdmitxToHdmirx,
       ApplyVrrMode, StartAudioPassthrough, CallbackReturns, AfterStop, AfterEvent, EventPcs,
       Passing, PollPcs
  <2>. QED
    BY <2>1 DEF Goto, GotoAll, EventPcs
<1>3. CASE UeventThread
  <2>1. pc["uevent"] # "off" /\ \E p \in UeventPcs : Goto("uevent", p)
    BY <1>3 DEF UeventThread, UeventMonitorThread, StopTvProcessing, UeventPcs
  <2>2. pc["main"] = "loop"
    BY <2>1
  <2>. QED
    BY <2>1, <2>2 DEF Goto, GotoAll, Early
<1>4. ASSUME NEW p \in MainPcs, Goto("main", p), pc["main"] # "loop", p \notin Early PROVE PcOK'
  BY <1>4 DEF Goto, GotoAll
<1>5. CASE ScreenStep("main")
  <2>1. \E p \in {"mute", "spawn", "ui handle", "ui join"} : Goto("main", p)
    BY <1>5 DEF ScreenStep, StartNoSignalUi, StopNoSignalUi, StopNoSignalUiHandle,
       StopNoSignalUiJoin, StopAudioOnLoss, AfterStop
  <2>2. pc["main"] # "loop"
    BY <1>5 DEF ScreenStep, StartNoSignalUi, StopNoSignalUi, StopNoSignalUiHandle,
       StopNoSignalUiJoin, StopAudioOnLoss
  <2>. QED
    BY <2>1, <2>2, <1>4 DEF MainPcs, StartupCheck, Early
<1>6. CASE CheckPlug \/ CheckSize \/ MainStartTv
  <2>1. /\ pc["main"] # "loop"
        /\ \E p \in {"check plug", "check size", "ui start", "ui stop", "loop"} : Goto("main", p)
    BY <1>6 DEF CheckPlug, CheckSize, MainStartTv
  <2>. QED
    BY <2>1, <1>4 DEF MainPcs, StartupCheck, Early
<1>7. CASE MainSocket \/ MainReadHpd \/ MainStopTv
  <2>1. /\ pc["main"] \in Early /\ UNCHANGED g_tv_started
        /\ \E p \in {"hpd", "stop", "start tv"} : Goto("main", p)
    BY <1>7 DEF MainSocket, MainReadHpd, MainStopTv, Early
  <2>. QED
    BY <2>1 DEF Goto, GotoAll, MainPcs, Early
<1>8. CASE MainSpawn
  BY <1>8 DEF MainSpawn, MainPcs, UeventPcs, Early
<1>. QED
  BY <1>1, <1>2, <1>3, <1>5, <1>6, <1>7, <1>8 DEF ThreadStep, MainThread, ScreenStep

\* Every step keeps the type invariant.
LEMMA TypeStep == TypeOK /\ [Next]_vars => TypeOK'
<1>. SUFFICES ASSUME TypeOK, [Next]_vars PROVE TypeOK'
  OBVIOUS
<1>1. ASSUME NEW u \in UiThreads, NoSignalUiThread(u) PROVE TypeOK'
  <2>1. WorldOK' /\ ServerOK' /\ PcOK' /\ AmissOK'
    BY <1>1 DEF NoSignalUiThread, TypeOK, WorldOK, ServerOK, PcOK, AmissOK, input, tx, server, app
  <2>2. AppOK'
    BY <1>1 DEF NoSignalUiThread, TypeOK, AppOK, app
  <2>. QED
    BY <2>1, <2>2 DEF TypeOK
<1>2. CASE UNCHANGED vars
  BY <1>2 DEF vars, TypeOK, WorldOK, ServerOK, AppOK, PcOK, AmissOK, input, tx, server, app, screen
<1>. QED
  BY <1>1, <1>2, WorldStep, DataStep, PcStep, AmissStep DEF Next, ThreadStep, TypeOK

\* The system starts in a state of the type.
LEMMA InitTyped == Init => TypeOK
<1>. SUFFICES ASSUME Init PROVE TypeOK
  OBVIOUS
<1>. USE DEF Init
<1>0. WorldOK
  <2>1. <<>> \in Seq(BOOLEAN)
    OBVIOUS
  <2>. QED
    BY <2>1 DEF WorldOK
<1>1. ServerOK
  <2>1. [mode |-> 0, en |-> FALSE] \in Vrr
    BY DEF Vrr
  <2>2. /\ started = FALSE /\ stored = NONE /\ plugSeen = plugged /\ raised = {} /\ handler = NONE
        /\ vrr = [mode |-> 0, en |-> FALSE] /\ plugged \in BOOLEAN
    OBVIOUS
  <2>. QED
    BY <2>1, <2>2 DEF ServerOK
<1>2. AppOK
  BY DEF AppOK
<1>3. PcOK
  <2>1. /\ DOMAIN pc = Threads /\ raced = FALSE /\ g_tv_started = FALSE
        /\ pc["main"] = "socket" /\ pc["uevent"] = "off"
        /\ pc["event"] = "idle" /\ pc["poll"] = "idle"
    BY DEF Threads
  <2>. QED
    BY <2>1 DEF PcOK, MainPcs, UeventPcs, EventPcs, PollPcs
<1>4. AmissOK
  BY DEF AmissOK
<1>. QED
  BY <1>0, <1>1, <1>2, <1>3, <1>4 DEF TypeOK

\* The type invariant of StreamboxTv, for every configuration.
THEOREM TypeCorrect == Spec => []TypeOK
  BY InitTyped, TypeStep, PTL DEF Spec

(***************************************************************************)
(* The steps that main and the callback share.                             *)
(***************************************************************************)
Goes(t, p) ==
    /\ Goto(t, p) /\ UNCHANGED <<input, tx, server, app, vrr>>
    /\ "vrr" \in amiss => "vrr" \in amiss'
    /\ \/ pc[t] = "ui start" /\ p = "mute"
       \/ pc[t] = "ui stop" /\ p \in {"ui handle", AfterStop(t)}
       \/ pc[t] = "ui handle" /\ p = "ui join"
       \/ pc[t] = "ui join" /\ p = AfterStop(t)
       \/ pc[t] = "mute" /\ p = (IF t = "event" THEN "return" ELSE "spawn")

\* They leave the server and the VRR driver alone, and go on in this order.
LEMMA ScreenGoes ==
    ASSUME NEW t, ScreenStep(t)
    PROVE  \E p \in {"mute", "ui handle", "ui join", "return", "spawn", AfterStop(t)} : Goes(t, p)
<1>. USE DEF Goes
<1>1. CASE StartNoSignalUi(t)
  BY <1>1 DEF StartNoSignalUi, Fails
<1>2. CASE StopNoSignalUi(t)
  BY <1>2 DEF StopNoSignalUi
<1>3. CASE StopNoSignalUiHandle(t)
  BY <1>3 DEF StopNoSignalUiHandle
<1>4. CASE StopNoSignalUiJoin(t)
  BY <1>4 DEF StopNoSignalUiJoin
<1>5. CASE StopAudioOnLoss(t)
  BY <1>5 DEF StopAudioOnLoss
<1>. QED
  BY <1>1, <1>2, <1>3, <1>4, <1>5 DEF ScreenStep

(***************************************************************************)
(* The order of the threads.                                               *)
(***************************************************************************)
\* A step that touches nothing the order is about.
LEMMA OrderKept ==
    ASSUME OrderInv, UNCHANGED <<pc, started, stored, handler, g_headless_mode>>,
           started \/ raised' = raised
    PROVE  OrderInv'
  BY DEF OrderInv, Quiet

\* A step that moves nothing but main, and does not take it back to its start.
LEMMA OrderMain ==
    ASSUME TypeOK, OrderInv, NEW p, Goto("main", p), UNCHANGED <<stored, handler>>,
           ~started' => stored' = NONE /\ raised' = {},
           p \in Idling => Quiet', g_headless_mode' = g_headless_mode,
           g_headless_mode => p \in Capturing
    PROVE  OrderInv'
<1>1. DOMAIN pc = Threads
  BY DEF TypeOK, PcOK
<1>2. /\ pc'["main"] = p /\ pc'["uevent"] = pc["uevent"]
      /\ pc'["event"] = pc["event"] /\ pc'["poll"] = pc["poll"]
  BY <1>1 DEF Goto, GotoAll, Threads
<1>. QED
  BY <1>2 DEF OrderInv

\* A step of the callback's: it turns to no passing through.
LEMMA OrderEvent ==
    ASSUME TypeOK, OrderInv, pc["event"] # "idle",
           UNCHANGED <<started, stored, raised, handler, g_headless_mode>>,
           NEW p, Goto("event", p), p \in Passing => pc["event"] \in Passing
    PROVE  OrderInv'
<1>1. DOMAIN pc = Threads
  BY DEF TypeOK, PcOK
<1>2. /\ pc'["event"] = p /\ pc'["main"] = pc["main"]
      /\ pc'["uevent"] = pc["uevent"] /\ pc'["poll"] = pc["poll"]
  BY <1>1 DEF Goto, GotoAll, Threads
<1>. QED
  BY <1>2 DEF OrderInv, Quiet

\* A step of the monitor thread's, which is there when main is in its loop.
LEMMA OrderUevent ==
    ASSUME TypeOK, OrderInv, pc["uevent"] # "off", UNCHANGED <<handler, g_headless_mode>>,
           stored' \in {stored, NONE}, ~started' => stored' = NONE /\ raised' = {},
           NEW p, Goto("uevent", p)
    PROVE  OrderInv'
<1>1. DOMAIN pc = Threads /\ pc["main"] = "loop"
  BY DEF TypeOK, PcOK
<1>2. /\ pc'["uevent"] = p /\ pc'["main"] = pc["main"]
      /\ pc'["event"] = pc["event"] /\ pc'["poll"] = pc["poll"]
  BY <1>1 DEF Goto, GotoAll, Threads
<1>3. ~g_headless_mode /\ "loop" \notin Idling
  BY DEF OrderInv, Idling
<1>4. NONE # "STABLE"
  BY ConstantsAssumption
<1>. QED
  BY <1>1, <1>2, <1>3, <1>4 DEF OrderInv

\* Every step keeps the order.
LEMMA OrderStep == TypeOK /\ OrderInv /\ [Next]_vars => OrderInv'
<1>. SUFFICES ASSUME TypeOK, OrderInv, [Next]_vars PROVE OrderInv'
  OBVIOUS
<1>0. DOMAIN pc = Threads /\ (pc["main"] # "loop" => pc["uevent"] = "off")
  BY DEF TypeOK, PcOK
<1>. USE DEF input, tx, server, app, screen
<1>1. CASE World
  <2>1. /\ UNCHANGED <<pc, started, stored, handler, g_headless_mode>>
        /\ started \/ raised' = raised
    BY <1>1 DEF Raise, World, Plug, VrrChanges, DisplayChanges, SignalChanges
  <2>. QED
    BY <2>1, OrderKept
<1>2. CASE PollThread \/ onOtherSourceConnect
  <2>0. ASSUME NEW p \in PollPcs, Goto("poll", p), pc["poll"] # "wait",
               UNCHANGED <<started, g_headless_mode>>, ~started => stored' = NONE /\ raised' = {},
               p = "send" => handler' # NONE, p = "send" /\ handler' = "lost" => stored' # "STABLE",
               pc["main"] \in Idling => Quiet'
        PROVE  OrderInv'
    <3>1. /\ pc'["main"] = pc["main"] /\ pc'["uevent"] = pc["uevent"]
          /\ pc'["event"] = pc["event"] /\ pc'["poll"] = p
      BY <1>0, <2>0 DEF Goto, GotoAll, Threads
    <3>2. pc["event"] = "idle"
      BY <2>0 DEF OrderInv
    <3>3. "idle" \notin Passing
      BY DEF Passing
    <3>. QED
      BY <2>0, <3>1, <3>2, <3>3 DEF OrderInv
  <2>1. CASE onSigStatusChange
    <3>1. /\ pc["main"] \notin Idling /\ pc["poll"] = "idle" /\ started
          /\ UNCHANGED <<started, g_headless_mode>>
      BY <2>1 DEF onSigStatusChange, OrderInv, Quiet
    <3>2. CASE UNCHANGED <<pc, handler>> /\ stored' \in {stored, "UNSTABLE"}
      <4>1. started' /\ (stored' = "STABLE" => stored = "STABLE")
        BY <3>1, <3>2
      <4>. QED
        BY <3>1, <3>2, <4>1 DEF OrderInv
    <3>3. CASE /\ handler' = (IF signal = "STABLE" THEN "stable" ELSE "lost") /\ stored' = signal
               /\ Goto("poll", "send")
      <4>1. handler' # NONE /\ (handler' = "lost" => stored' # "STABLE")
        BY <3>3, ConstantsAssumption
      <4>2. "send" \in PollPcs
        BY DEF PollPcs
      <4>. QED
        BY <2>0, <3>1, <3>3, <4>1, <4>2
    <3>. QED
      BY <2>1, <3>2, <3>3 DEF onSigStatusChange
  <2>2. CASE onSigVrrChange
    <3>1. /\ pc["main"] \notin Idling /\ pc["poll"] = "idle" /\ started
          /\ UNCHANGED <<started, stored, handler, g_headless_mode>>
          /\ UNCHANGED pc \/ (Goto("poll", "check vrr") /\ "check vrr" \in PollPcs)
      BY <2>2 DEF onSigVrrChange, OrderInv, Quiet, PollPcs
    <3>2. CASE UNCHANGED pc
      BY <3>1, <3>2 DEF OrderInv
    <3>. QED
      BY <2>0, <3>1, <3>2
  <2>3. CASE onSourceConnect \/ onOtherSourceConnect
    <3>1. /\ pc["poll"] = "idle" /\ UNCHANGED <<g_headless_mode, started, stored, raised>>
          /\ ~started => stored' = NONE /\ raised' = {}
      BY <2>3 DEF onSourceConnect, onOtherSourceConnect, OrderInv
    <3>2. \/ UNCHANGED <<pc, handler>>
          \/ handler' \in {"unplugged", "other"} /\ Goto("poll", "send")
      BY <2>3 DEF onSourceConnect, onOtherSourceConnect
    <3>3. CASE UNCHANGED <<pc, handler>>
      BY <3>1, <3>3, OrderKept
    <3>4. CASE handler' \in {"unplugged", "other"} /\ Goto("poll", "send")
      <4>1. handler' # NONE /\ handler' # "lost" /\ handler' # "stable" /\ "send" \in PollPcs
        BY <3>4, ConstantsAssumption DEF PollPcs
      <4>2. pc["main"] \in Idling => Quiet'
        BY <3>1, <4>1 DEF OrderInv, Quiet
      <4>. QED
        BY <2>0, <3>1, <3>4, <4>1, <4>2
    <3>. QED
      BY <3>2, <3>3, <3>4
  <2>4. CASE SendEvent
    <3>1. /\ pc'["main"] = pc["main"] /\ pc'["uevent"] = pc["uevent"] /\ pc'["poll"] = "wait"
          /\ pc'["event"] \in {"return", "ui start", "ui stop"}
          /\ pc'["event"] = "ui stop" =>
                ~g_headless_mode /\ handler \notin {"unplugged", "other"} /\ stored = "STABLE"
      <4>1. \E p \in {"return", "ui start", "ui stop"} :
               /\ GotoAll([pc EXCEPT !["poll"] = "wait", !["event"] = p])
               /\ p = "ui stop" =>
                     ~g_headless_mode /\ handler \notin {"unplugged", "other"} /\ stored = "STABLE"
        <5>1. CASE g_headless_mode
          <6>1. GotoAll([pc EXCEPT !["poll"] = "wait", !["event"] = "return"])
            BY <2>4, <5>1 DEF SendEvent
          <6>. QED
            BY <6>1
        <5>2. CASE ~g_headless_mode /\ handler \notin {"unplugged", "other"} /\ stored = "STABLE"
          BY <2>4, <5>2 DEF SendEvent
        <5>3. CASE ~g_headless_mode /\ handler \in {"unplugged", "other"}
          BY <2>4, <5>3 DEF SendEvent
        <5>4. CASE ~g_headless_mode /\ handler \notin {"unplugged", "other"} /\ stored # "STABLE"
          BY <2>4, <5>4 DEF SendEvent
        <5>. QED
          BY <5>1, <5>2, <5>3, <5>4
      <4>. QED
        BY <1>0, <4>1 DEF GotoAll, Threads
    <3>2. UNCHANGED <<started, stored, raised, handler, g_headless_mode>> /\ pc["poll"] = "send"
      BY <2>4 DEF SendEvent
    <3>3. handler \in {"stable", "lost", "unplugged", "other", NONE}
      BY DEF TypeOK, ServerOK
    <3>4. pc'["event"] \in Passing => handler = "stable" /\ ~g_headless_mode
      BY <3>1, <3>2, <3>3 DEF OrderInv, Passing
    <3>. QED
      BY <3>1, <3>2, <3>4 DEF OrderInv, Quiet
  <2>5. CASE CheckAndApplyAutoVrr \/ SetForceVrrFrameLock
    <3>1. /\ \E p \in PollPcs \ {"send"} : Goto("poll", p)
          /\ pc["poll"] # "wait" /\ UNCHANGED <<started, stored, raised, handler, g_headless_mode>>
      BY <2>5 DEF CheckAndApplyAutoVrr, SetForceVrrFrameLock, PollPcs
    <3>2. (pc["main"] \in Idling => Quiet') /\ (~started => stored' = NONE /\ raised' = {})
      BY <3>1 DEF OrderInv, Quiet
    <3>. QED
      BY <2>0, <3>1, <3>2
  <2>. QED
    BY <1>2, <2>1, <2>2, <2>3, <2>4, <2>5 DEF PollThread
<1>3. CASE EventThread
  <2>1. CASE CallbackReturns
    <3>1. /\ pc'["event"] = "idle" /\ pc'["main"] = pc["main"] /\ pc'["uevent"] = pc["uevent"]
          /\ pc'["poll"] \in {"idle", "check vrr"} /\ handler' = NONE
      BY <1>0, <2>1 DEF CallbackReturns, AfterEvent, Threads
    <3>2. UNCHANGED <<started, stored, raised, g_headless_mode>>
      BY <2>1 DEF CallbackReturns
    <3>3. "idle" \notin Passing /\ NONE # "stable"
      BY ConstantsAssumption DEF Passing
    <3>. QED
      BY <3>1, <3>2, <3>3 DEF OrderInv, Quiet
  <2>2. CASE ~CallbackReturns
    <3>1. /\ UNCHANGED <<started, stored, raised, handler, g_headless_mode>> /\ pc["event"] # "idle"
          /\ \E p \in EventPcs : Goto("event", p) /\ (p \in Passing => pc["event"] \in Passing)
      <4>1. CASE ScreenStep("event")
        <5>1. \E p \in {"mute", "ui handle", "ui join", "size", "return"} : Goes("event", p)
          <6>1. PICK p \in {"mute", "ui handle", "ui join", "return", "spawn", "size"} :
                   Goes("event", p)
            BY <4>1, ScreenGoes DEF AfterStop
          <6>2. p # "spawn"
            BY <6>1 DEF Goes, AfterStop
          <6>. QED
            BY <6>1, <6>2
        <5>. QED
          BY <5>1 DEF Goes, EventPcs, Passing, server, app
      <4>2. CASE SynchronizeHdmitxToHdmirx \/ ApplyVrrMode \/ StartAudioPassthrough
        BY <4>2 DEF SynchronizeHdmitxToHdmirx, ApplyVrrMode, StartAudioPassthrough, EventPcs,
           Passing
      <4>. QED
        BY <1>3, <2>2, <4>1, <4>2 DEF EventThread, ScreenStep
    <3>. QED
      BY <3>1, OrderEvent
  <2>. QED
    BY <2>1, <2>2
<1>4. CASE UeventThread
  <2>1. /\ pc["uevent"] # "off" /\ UNCHANGED <<handler, g_headless_mode>>
        /\ stored' \in {stored, NONE} /\ \E p \in UeventPcs : Goto("uevent", p)
        /\ ~started' => stored' = NONE /\ raised' = {}
    <3>1. CASE UeventMonitorThread
      <4>1. /\ pc["uevent"] # "off" /\ UNCHANGED <<stored, handler, g_headless_mode>>
            /\ UNCHANGED <<started, raised>> \/ started'
        BY <3>1 DEF UeventMonitorThread, StartTvProcessing, StartTv
      <4>2. \E p \in UeventPcs : Goto("uevent", p)
        BY <3>1 DEF UeventMonitorThread, UeventPcs
      <4>. QED
        BY <4>1, <4>2 DEF OrderInv
    <3>2. CASE StopTvProcessing
      BY <1>4, <3>2 DEF StopTvProcessing, StopTv, UeventPcs, OrderInv
    <3>. QED
      BY <1>4, <3>1, <3>2 DEF UeventThread
  <2>. QED
    BY <2>1, OrderUevent
<1>5. CASE MainThread
  <2>1. CASE MainReadHpd
    <3>1. /\ pc'["main"] = "stop" /\ pc'["uevent"] = pc["uevent"] /\ pc["main"] = "hpd"
          /\ pc'["event"] = pc["event"] /\ pc'["poll"] = pc["poll"]
      BY <1>0, <2>1 DEF MainReadHpd, Goto, GotoAll, Threads
    <3>2. /\ UNCHANGED <<started, stored, raised, handler>>
          /\ "hpd" \in Idling /\ "stop" \in Idling /\ "stop" \in Capturing
      BY <2>1 DEF MainReadHpd, Idling, Capturing
    <3>3. pc["uevent"] = "off" /\ pc["event"] \notin Passing
      BY <1>0, <3>1, <3>2 DEF OrderInv, Quiet
    <3>. QED
      BY <3>1, <3>2, <3>3 DEF OrderInv, Quiet
  <2>2. CASE MainStopTv
    <3>1. /\ pc'["main"] = "start tv" /\ pc'["uevent"] = pc["uevent"]
          /\ pc'["event"] = pc["event"] /\ pc'["poll"] = pc["poll"]
      BY <1>0, <2>2 DEF MainStopTv, Goto, GotoAll, Threads
    <3>2. UNCHANGED <<handler, g_headless_mode>> /\ stored' = NONE
      BY <2>2 DEF MainStopTv, StopTv
    <3>3. "start tv" \notin Idling /\ "start tv" \in Capturing /\ NONE # "STABLE"
      BY ConstantsAssumption DEF Idling, Capturing
    <3>4. ~started' => raised' = {}
      <4>1. CASE started' = FALSE /\ raised' = {}
        BY <4>1
      <4>2. CASE started /\ UNCHANGED <<started, raised>>
        BY <4>2
      <4>. QED
        BY <2>2, <4>1, <4>2 DEF MainStopTv, StopTv
    <3>. QED
      BY <3>1, <3>2, <3>3, <3>4 DEF OrderInv
  <2>3. CASE MainSpawn
    <3>1. /\ pc'["main"] = "loop" /\ pc["main"] = "spawn" /\ pc'["uevent"] = "idle"
          /\ pc'["event"] = pc["event"] /\ pc'["poll"] = pc["poll"]
      BY <1>0, <2>3 DEF MainSpawn, Threads
    <3>2. UNCHANGED <<started, raised, stored, handler, g_headless_mode>>
      BY <2>3 DEF MainSpawn
    <3>3. "loop" \notin Idling /\ "spawn" \notin Capturing
      BY DEF Idling, Capturing
    <3>. QED
      BY <3>1, <3>2, <3>3 DEF OrderInv
  <2>4. CASE MainSocket
    <3>1. Goto("main", "hpd") /\ UNCHANGED <<started, stored, raised, handler, g_headless_mode>>
      BY <2>4 DEF MainSocket
    <3>2. "socket" \in Idling /\ "socket" \notin Capturing /\ pc["main"] = "socket"
      BY <2>4 DEF MainSocket, Idling, Capturing
    <3>3. Quiet' /\ ~g_headless_mode /\ (~started' => stored' = NONE /\ raised' = {})
      BY <3>1, <3>2 DEF OrderInv, Quiet
    <3>. QED
      BY <3>1, <3>3, OrderMain
  <2>5. CASE CheckPlug \/ CheckSize \/ ScreenStep("main") \/ MainStartTv
    <3>1. /\ UNCHANGED <<stored, handler, g_headless_mode>>
          /\ ~started' => stored' = NONE /\ raised' = {}
          /\ \E p \in MainPcs \ Idling : Goto("main", p) /\ (g_headless_mode => p \in Capturing)
      <4>1. CASE CheckPlug \/ CheckSize \/ ScreenStep("main")
        <5>1. /\ UNCHANGED <<started, raised, stored, handler, g_headless_mode>>
              /\ pc["main"] \in {"check plug", "check size", "ui start", "ui stop", "ui handle",
                                 "ui join", "mute"}
              /\ \E p \in {"check size", "ui start", "ui stop", "ui handle", "ui join", "mute",
                           "spawn"} : Goto("main", p)
          BY <4>1 DEF CheckPlug, CheckSize, ScreenStep, StartNoSignalUi, StopNoSignalUi,
             StopNoSignalUiHandle, StopNoSignalUiJoin, StopAudioOnLoss, AfterStop
        <5>2. pc["main"] \notin Capturing
          BY <5>1 DEF Capturing
        <5>3. ~g_headless_mode /\ (~started' => stored' = NONE /\ raised' = {})
          BY <5>1, <5>2 DEF OrderInv
        <5>. QED
          BY <5>1, <5>3 DEF MainPcs, StartupCheck, Idling
      <4>2. CASE MainStartTv
        BY <4>2 DEF MainStartTv, StartTvProcessing, StartTv, OrderInv, MainPcs, StartupCheck,
           Idling, Capturing
      <4>. QED
        BY <2>5, <4>1, <4>2
    <3>. QED
      BY <3>1, OrderMain
  <2>. QED
    BY <1>5, <2>1, <2>2, <2>3, <2>4, <2>5 DEF MainThread, ScreenStep
<1>6. CASE (\E u \in UiThreads : NoSignalUiThread(u)) \/ UNCHANGED vars
  <2>1. UNCHANGED <<pc, started, stored, raised, handler, g_headless_mode>>
    BY <1>6 DEF NoSignalUiThread, vars
  <2>. QED
    BY <2>1, OrderKept
<1>. QED
  BY <1>1, <1>2, <1>3, <1>4, <1>5, <1>6 DEF Next

\* The threads start in order, and keep it.
THEOREM OrderCorrect == Spec => []OrderInv
<1>1. Init => OrderInv
  <2>. SUFFICES ASSUME Init PROVE OrderInv
    OBVIOUS
  <2>1. /\ ~started /\ stored = NONE /\ raised = {} /\ handler = NONE /\ ~g_headless_mode
        /\ pc["event"] = "idle" /\ pc["poll"] = "idle"
    BY DEF Init, Threads
  <2>2. "idle" \notin Passing /\ NONE # "stable"
    BY ConstantsAssumption DEF Passing
  <2>. QED
    BY <2>1, <2>2 DEF OrderInv, Quiet
<1>. QED
  BY <1>1, OrderStep, TypeCorrect, PTL DEF Spec

(***************************************************************************)
(* Automatic VRR.                                                          *)
(***************************************************************************)
\* A step that touches nothing the mode is about.
LEMMA VrrKept ==
    ASSUME VrrInv, UNCHANGED <<started, stored, raised, handler, g_headless_mode, vrrIn, vrr>>,
           pc'["poll"] = pc["poll"], "vrr" \in amiss => "vrr" \in amiss'
    PROVE  VrrInv'
  BY DEF VrrInv, Checked, NoCheckDue, FollowsSource

\* A step after which there is another check to come, or none is called for.
LEMMA VrrDue ==
    ASSUME \/ ~Checked'
           \/ /\ pc'["poll"] \in {"send", "wait", "check vrr"}
              /\ pc'["poll"] = "check vrr" \/ handler' = "stable"
    PROVE  VrrInv'
  BY DEF VrrInv, NoCheckDue

\* Starting the input, or stopping it, calls for no check.
LEMMA VrrStartStop ==
    ASSUME OrderInv, VrrInv, StartTv \/ StopTv, pc'["poll"] = pc["poll"],
           UNCHANGED <<g_headless_mode, vrrIn, vrr>>
    PROVE  VrrInv'
<1>1. CASE StopTv
  <2>1. stored' = NONE /\ NONE # "STABLE"
    BY <1>1, ConstantsAssumption DEF StopTv
  <2>. QED
    BY <2>1, VrrDue DEF Checked
<1>2. CASE StartTv
  <2>1. /\ UNCHANGED <<stored, handler>> /\ ("vrr" \in amiss => "vrr" \in amiss')
        /\ "vrr" \in raised' <=> "vrr" \in raised
        /\ started' = TRUE \/ started' = started
    BY <1>2 DEF StartTv, Fails, Mends
  <2>2. CASE started
    BY <1>2, <2>1, <2>2 DEF VrrInv, Checked, NoCheckDue, FollowsSource
  <2>3. CASE ~started
    <3>1. stored' = NONE /\ NONE # "STABLE"
      BY <2>1, <2>3, ConstantsAssumption DEF OrderInv
    <3>. QED
      BY <3>1, VrrDue DEF Checked
  <2>. QED
    BY <2>2, <2>3
<1>. QED
  BY <1>1, <1>2

\* Every step keeps it.
LEMMA VrrStep == TypeOK /\ OrderInv /\ VrrInv /\ [Next]_vars => VrrInv'
<1>. SUFFICES ASSUME TypeOK, OrderInv, VrrInv, [Next]_vars PROVE VrrInv'
  OBVIOUS
<1>0. DOMAIN pc = Threads /\ vrr \in Vrr
  BY DEF TypeOK, PcOK, ServerOK
<1>1. CASE World
  <2>1. UNCHANGED <<pc, started, stored, handler, g_headless_mode, vrr, amiss>>
    BY <1>1 DEF World, Plug, VrrChanges, DisplayChanges, SignalChanges, server, app
  <2>2. CASE ~started
    BY <2>1, <2>2, VrrDue DEF Checked
  <2>3. CASE started /\ VrrChanges
    <3>1. "vrr" \in raised'
      BY <2>3 DEF VrrChanges, Raise
    <3>. QED
      BY <3>1, VrrDue DEF Checked
  <2>4. CASE started /\ ~VrrChanges
    <3>1. vrrIn' = vrrIn /\ raised' \in {raised, raised \cup {"status"}}
      BY <1>1, <2>4 DEF World, Plug, DisplayChanges, SignalChanges, Raise, input, server
    <3>. QED
      BY <2>1, <3>1 DEF VrrInv, Checked, NoCheckDue, FollowsSource
  <2>. QED
    BY <2>2, <2>3, <2>4
<1>2. CASE PollThread \/ onOtherSourceConnect
  <2>0. ASSUME NEW p, Goto("poll", p) PROVE pc'["poll"] = p
    BY <1>0, <2>0, GotoPc DEF Threads
  <2>1. CASE onSigStatusChange
    <3>1. CASE stored' # "STABLE"
      BY <3>1, VrrDue DEF Checked
    <3>2. CASE handler' = "stable" /\ Goto("poll", "send")
      <4>1. pc'["poll"] = "send"
        BY <2>0, <3>2
      <4>. QED
        BY <3>2, <4>1, VrrDue
    <3>3. CASE Fails("signal") /\ UNCHANGED <<stored, handler, pc>>
      <4>1. /\ UNCHANGED <<started, g_headless_mode, vrrIn, vrr>>
            /\ raised' = raised \ {"status"}
        BY <2>1 DEF onSigStatusChange, input, app
      <4>2. "vrr" \in amiss => "vrr" \in amiss'
        BY <3>3 DEF Fails
      <4>. QED
        BY <3>3, <4>1, <4>2 DEF VrrInv, Checked, NoCheckDue, FollowsSource
    <3>. QED
      BY <2>1, <3>1, <3>2, <3>3 DEF onSigStatusChange
  <2>2. CASE onSigVrrChange
    <3>1. CASE Goto("poll", "check vrr")
      BY <2>0, <3>1, VrrDue
    <3>2. CASE Fails("vrr") /\ UNCHANGED pc
      <4>1. pc'["poll"] = "idle" /\ "vrr" \in amiss'
        BY <2>2, <3>2 DEF onSigVrrChange, Fails
      <4>. QED
        BY <4>1 DEF VrrInv
    <3>. QED
      BY <2>2, <3>1, <3>2 DEF onSigVrrChange
  <2>3. CASE onSourceConnect \/ onOtherSourceConnect
    <3>1. /\ UNCHANGED <<started, stored, raised, g_headless_mode, vrrIn, vrr, amiss>>
          /\ pc["poll"] = "idle"
      BY <2>3 DEF onSourceConnect, onOtherSourceConnect, input, app
    <3>2. CASE UNCHANGED <<pc, handler>>
      BY <3>1, <3>2, VrrKept
    <3>3. CASE Goto("poll", "send") /\ handler' \in {"unplugged", "other"}
      <4>1. pc'["poll"] = "send" /\ handler' # "stable"
        BY <2>0, <3>3
      <4>. QED
        BY <3>1, <4>1 DEF VrrInv, Checked, NoCheckDue, FollowsSource
    <3>. QED
      BY <2>3, <3>2, <3>3 DEF onSourceConnect, onOtherSourceConnect
  <2>4. CASE SendEvent
    <3>1. pc'["poll"] = "wait" /\ pc["poll"] = "send"
      BY <1>0, <2>4 DEF SendEvent, GotoAll, Threads
    <3>2. /\ UNCHANGED <<started, stored, raised, handler, g_headless_mode, vrrIn, vrr>>
          /\ "vrr" \in amiss => "vrr" \in amiss'
      BY <2>4 DEF SendEvent, input, server, app
    <3>. QED
      BY <3>1, <3>2 DEF VrrInv, Checked, NoCheckDue, FollowsSource
  <2>5. CASE CheckAndApplyAutoVrr
    <3>1. UNCHANGED <<started, stored, raised, handler, g_headless_mode, vrrIn, vrr>>
      BY <2>5 DEF CheckAndApplyAutoVrr, input, server, app
    <3>2. CASE ~VrrEnabled
      BY <3>2, VrrDue DEF Checked
    <3>3. CASE Fails("vrr") /\ Goto("poll", "idle")
      <4>1. "vrr" \in amiss' /\ pc'["poll"] = "idle"
        BY <2>0, <3>3 DEF Fails
      <4>. QED
        BY <4>1 DEF VrrInv
    <3>4. CASE /\ VrrEnabled
               /\ Goto("poll", IF ~VrrEnabled THEN "idle" ELSE IF vrrIn THEN "mode 2" ELSE "mode 1")
      <4>1. pc'["poll"] = IF vrrIn THEN "mode 2" ELSE "mode 1"
        BY <2>0, <3>4
      <4>. QED
        BY <3>1, <4>1 DEF VrrInv, NoCheckDue
    <3>. QED
      BY <2>5, <3>2, <3>3, <3>4 DEF CheckAndApplyAutoVrr
  <2>6. CASE SetForceVrrFrameLock
    <3>1. UNCHANGED <<started, stored, raised, handler, g_headless_mode, vrrIn>>
      BY <2>6 DEF SetForceVrrFrameLock, input, server, app
    <3>2. CASE pc["poll"] = "en 1"
      <4>1. vrr'.mode = vrr.mode /\ pc'["poll"] = "idle"
        BY <1>0, <2>0, <2>6, <3>2 DEF SetForceVrrFrameLock, Switch, Vrr
      <4>. QED
        BY <3>1, <3>2, <4>1 DEF VrrInv, Checked, FollowsSource
    <3>3. CASE Fails("vrr") /\ Goto("poll", "idle")
      <4>1. "vrr" \in amiss' /\ pc'["poll"] = "idle"
        BY <2>0, <3>3 DEF Fails
      <4>. QED
        BY <4>1 DEF VrrInv
    <3>4. CASE pc["poll"] # "en 1" /\ Goto("poll", "en 1")
      <4>1. PICK m \in {1, 2} : /\ pc["poll"] = IF m = 1 THEN "mode 1" ELSE "mode 2"
                                /\ \/ Fails("vrr") /\ Goto("poll", "idle")
                                   \/ vrr' = [vrr EXCEPT !.mode = m]
        BY <2>6, <3>4 DEF SetForceVrrFrameLock
      <4>2. pc'["poll"] = "en 1"
        BY <2>0, <3>4
      <4>3. vrr' = [vrr EXCEPT !.mode = m]
        BY <2>0, <4>1, <4>2
      <4>4. vrr'.mode = m
        BY <1>0, <4>3 DEF Vrr
      <4>. QED
        BY <3>1, <4>1, <4>2, <4>4 DEF VrrInv, Checked, NoCheckDue, FollowsSource
    <3>. QED
      BY <2>6, <3>2, <3>3, <3>4 DEF SetForceVrrFrameLock
  <2>. QED
    BY <1>2, <2>1, <2>2, <2>3, <2>4, <2>5, <2>6 DEF PollThread
<1>3. CASE EventThread
  <2>0. ASSUME NEW p, Goto("event", p) PROVE pc'["poll"] = pc["poll"] /\ pc'["event"] = p
    BY <1>0, <2>0 DEF Goto, GotoAll, Threads
  <2>1. CASE CallbackReturns
    <3>1. /\ pc["event"] = "return" /\ pc'["poll"] = AfterEvent
          /\ UNCHANGED <<started, stored, raised, g_headless_mode, vrrIn, vrr, amiss>>
      BY <1>0, <2>1 DEF CallbackReturns, input, app, Threads
    <3>2. CASE handler = "stable" /\ ~g_headless_mode
      BY <3>1, <3>2, VrrDue DEF AfterEvent
    <3>3. CASE handler = "stable" /\ g_headless_mode
      BY <3>1, <3>3, VrrDue DEF Checked
    <3>4. CASE handler # "stable"
      <4>1. pc'["poll"] = "idle" /\ pc["poll"] = "wait"
        BY <3>1, <3>4 DEF AfterEvent, OrderInv
      <4>. QED
        BY <3>1, <3>4, <4>1 DEF VrrInv, Checked, NoCheckDue, FollowsSource
    <3>. QED
      BY <3>2, <3>3, <3>4
  <2>2. CASE ApplyVrrMode
    <3>1. pc["event"] \in Passing /\ pc["event"] # "idle"
      BY <2>2 DEF ApplyVrrMode, Passing
    <3>2. handler = "stable" /\ pc["poll"] = "wait"
      BY <3>1 DEF OrderInv
    <3>3. pc'["poll"] = pc["poll"] /\ handler' = handler
      BY <2>0, <2>2 DEF ApplyVrrMode, server
    <3>. QED
      BY <3>2, <3>3, VrrDue
  <2>3. CASE SynchronizeHdmitxToHdmirx \/ StartAudioPassthrough
    <3>1. "vrr" \in amiss => "vrr" \in amiss'
      BY <2>3 DEF SynchronizeHdmitxToHdmirx, StartAudioPassthrough, Fails
    <3>. QED
      BY <2>0, <2>3, <3>1, VrrKept DEF SynchronizeHdmitxToHdmirx, StartAudioPassthrough, input,
         server, app
  <2>4. CASE ScreenStep("event")
    BY <2>0, <2>4, ScreenGoes, VrrKept DEF Goes, input, server, app
  <2>. QED
    BY <1>3, <2>1, <2>2, <2>3, <2>4 DEF EventThread, ScreenStep
<1>4. CASE UeventThread
  <2>0. ASSUME NEW p, Goto("uevent", p) PROVE pc'["poll"] = pc["poll"]
    BY <1>0, <2>0 DEF Goto, GotoAll, Threads
  <2>1. CASE UeventMonitorThread
    <3>1. pc'["poll"] = pc["poll"] /\ UNCHANGED <<g_headless_mode, vrrIn, vrr>>
      BY <2>0, <2>1 DEF UeventMonitorThread, input
    <3>2. StartTv \/ UNCHANGED <<server, amiss>>
      BY <2>1 DEF UeventMonitorThread, StartTvProcessing
    <3>3. CASE UNCHANGED <<server, amiss>>
      BY <3>1, <3>3, VrrKept DEF server
    <3>. QED
      BY <3>1, <3>2, <3>3, VrrStartStop
  <2>2. CASE StopTvProcessing /\ pc["uevent"] = "vrr off"
    <3>1. /\ UNCHANGED <<server, g_headless_mode, vrrIn, amiss>> /\ pc'["poll"] = pc["poll"]
          /\ vrr' = [vrr EXCEPT !.en = FALSE] \/ vrr' = vrr
      BY <2>0, <2>2 DEF StopTvProcessing, Switch, input, app
    <3>2. vrr'.mode = vrr.mode /\ (vrr'.en => vrr.en)
      BY <1>0, <3>1 DEF Vrr
    <3>. QED
      BY <3>1, <3>2 DEF VrrInv, Checked, NoCheckDue, FollowsSource, server
  <2>3. CASE StopTvProcessing /\ pc["uevent"] # "vrr off"
    <3>1. /\ pc'["poll"] = pc["poll"] /\ UNCHANGED <<g_headless_mode, vrrIn, vrr>>
          /\ StopTv
      BY <2>0, <2>3 DEF StopTvProcessing, input
    <3>. QED
      BY <3>1, VrrStartStop
  <2>. QED
    BY <1>4, <2>1, <2>2, <2>3 DEF UeventThread
<1>5. CASE MainThread
  <2>0. ASSUME NEW p, Goto("main", p) PROVE pc'["poll"] = pc["poll"]
    BY <1>0, <2>0 DEF Goto, GotoAll, Threads
  <2>1. CASE MainReadHpd
    <3>1. ~started /\ started' = started
      BY <2>1 DEF MainReadHpd, OrderInv, Quiet, Idling, server
    <3>. QED
      BY <3>1, VrrDue DEF Checked
  <2>2. CASE MainStopTv
    BY <2>0, <2>2, VrrStartStop DEF MainStopTv, input, app
  <2>3. CASE MainSpawn
    <3>1. pc'["poll"] = pc["poll"]
      BY <1>0, <2>3 DEF MainSpawn, Threads
    <3>. QED
      BY <2>3, <3>1, VrrKept DEF MainSpawn, input, server, app
  <2>4. CASE MainSocket \/ CheckPlug \/ CheckSize
    <3>1. "vrr" \in amiss => "vrr" \in amiss'
      BY <2>4 DEF MainSocket, CheckPlug, CheckSize, Fails
    <3>. QED
      BY <2>0, <2>4, <3>1, VrrKept DEF MainSocket, CheckPlug, CheckSize, input, server, app
  <2>5. CASE MainStartTv
    <3>1. pc'["poll"] = pc["poll"] /\ UNCHANGED <<g_headless_mode, vrrIn, vrr>>
      BY <2>0, <2>5 DEF MainStartTv, input
    <3>2. StartTv \/ UNCHANGED <<server, amiss>>
      BY <2>5 DEF MainStartTv, StartTvProcessing
    <3>3. CASE UNCHANGED <<server, amiss>>
      BY <3>1, <3>3, VrrKept DEF server
    <3>. QED
      BY <3>1, <3>2, <3>3, VrrStartStop
  <2>6. CASE ScreenStep("main")
    BY <2>0, <2>6, ScreenGoes, VrrKept DEF Goes, input, server, app
  <2>. QED
    BY <1>5, <2>1, <2>2, <2>3, <2>4, <2>5, <2>6 DEF MainThread, ScreenStep
<1>6. CASE (\E u \in UiThreads : NoSignalUiThread(u)) \/ UNCHANGED vars
  BY <1>6, VrrKept DEF NoSignalUiThread, vars, input, server, app
<1>. QED
  BY <1>1, <1>2, <1>3, <1>4, <1>5, <1>6 DEF Next

\* The server's choice of the VRR mode stands (StreamboxTv.AutoVrrStands), for
\* any game mode and VRR mode of the application.
THEOREM AutoVrrStandsCorrect == Spec => []AutoVrrStands
<1>1. Init => VrrInv
  BY DEF Init, VrrInv, Checked
<1>2. TypeOK /\ OrderInv /\ VrrInv => AutoVrrStands
  <2>. SUFFICES ASSUME OrderInv, VrrInv,
                       pc["poll"] = "idle", raised = {}, started, pc["uevent"] = "idle",
                       VrrEnabled, vrr.en, stored = "STABLE", "vrr" \notin amiss
                PROVE  FollowsSource
    BY DEF AutoVrrStands, FollowsSource
  <2>1. ~g_headless_mode
    BY DEF OrderInv
  <2>. QED
    BY <2>1 DEF VrrInv, Checked, NoCheckDue
<1>. QED
  BY <1>1, <1>2, VrrStep, TypeCorrect, OrderCorrect, PTL DEF Spec

(***************************************************************************)
(* The no-signal screen.                                                   *)
(***************************************************************************)
\* A step of others: it touches neither screen nor handle, and whoever met the
\* startup check with it has raced.
LEMMA ScreenKept ==
    ASSUME TypeOK, ScreenInv, UNCHANGED <<screen, joins>>, raced => raced',
           pc'["main"] \in StartupCheck /\ ~raced' => pc'["event"] = "idle",
           \A t \in {"main", "event"} :
              (Joining(t)' <=> Joining(t)) /\ (pc'[t] = "ui join" => pc[t] = "ui join")
    PROVE  ScreenInv'
<1>1. /\ UNCHANGED <<g_no_signal_ui_active, g_no_signal_thread_created, g_no_signal_thread, ui>>
      /\ joins' = joins /\ DOMAIN joins = {"main", "event"}
  BY DEF screen, TypeOK, AppOK
<1>. QED
  BY <1>1 DEF ScreenInv

\* The same of a thread that goes on outside the screen's handlers.
LEMMA ScreenPassed ==
    ASSUME TypeOK, ScreenInv, UNCHANGED <<screen, joins>>, NEW t \in Threads, NEW p, Goto(t, p),
           pc[t] \notin Stopping, p \notin Stopping
    PROVE  ScreenInv'
<1>1. DOMAIN pc = Threads
  BY DEF TypeOK, PcOK
<1>2. /\ pc'[t] = p /\ \A u \in Threads \ {t} : pc'[u] = pc[u]
      /\ raced' = (raced \/ (pc'["main"] \in StartupCheck /\ pc'["event"] # "idle"))
  BY <1>1, GotoPc
<1>3. ASSUME NEW s \in {"main", "event"}
      PROVE  (Joining(s)' <=> Joining(s)) /\ (pc'[s] = "ui join" => pc[s] = "ui join")
  <2>1. "ui join" \in Stopping
    BY DEF Stopping
  <2>2. s \in Threads
    BY DEF Threads
  <2>. QED
    BY <1>2, <2>1, <2>2 DEF Joining
<1>4. raced \in BOOLEAN
  BY DEF TypeOK, PcOK
<1>. QED
  BY <1>2, <1>3, <1>4, ScreenKept

\* Main and the callback are at the screen one at a time.
LEMMA OneAtScreen ==
    ASSUME TypeOK, ScreenInv, ~raced, NEW t \in {"main", "event"}, NEW o \in {"main", "event"},
           o # t, pc[t] \in StartupCheck
    PROVE  ~Joining(o)
<1>1. "idle" \notin StartupCheck /\ "idle" \notin Stopping /\ Stopping \subseteq StartupCheck
  BY DEF StartupCheck, Stopping
<1>. QED
  BY <1>1 DEF ScreenInv, Joining

\* Starting and stopping the screen keep it.
LEMMA ScreenKeeps ==
    ASSUME TypeOK, ScreenInv, NEW t \in {"main", "event"}, ScreenStep(t)
    PROVE  ScreenInv'
<1>. DEFINE o == IF t = "main" THEN "event" ELSE "main"
            h == g_no_signal_thread
<1>0. /\ DOMAIN pc = Threads /\ DOMAIN joins = {"main", "event"} /\ t \in Threads /\ o \in Threads
      /\ o # t /\ o \in {"main", "event"}
      /\ raced \in BOOLEAN
      /\ g_no_signal_ui_active \in BOOLEAN /\ g_no_signal_thread_created \in BOOLEAN
      /\ ui \in [UiThreads -> {"free", "draw", "exit", "ended"}]
  BY DEF TypeOK, PcOK, AppOK, Threads
<1>1. PICK p : Goto(t, p)
  BY ScreenGoes DEF Goes
<1>2. /\ pc'[t] = p /\ pc'[o] = pc[o]
      /\ raced' = (raced \/ (pc'["main"] \in StartupCheck /\ pc'["event"] # "idle"))
  BY <1>0, <1>1, GotoPc
<1>. SUFFICES ASSUME ~raced' PROVE ScreenInv'
  BY DEF ScreenInv
<1>3. ~raced /\ (pc'["main"] \in StartupCheck => pc'["event"] = "idle")
  BY <1>0, <1>2
<1>4. pc[t] \in StartupCheck
  BY DEF ScreenStep, StartNoSignalUi, StopNoSignalUi, StopNoSignalUiHandle, StopNoSignalUiJoin,
     StopAudioOnLoss, StartupCheck
<1>5. ~Joining(o) /\ ~Joining(o)'
  BY <1>0, <1>2, <1>3, <1>4, OneAtScreen DEF Joining
<1>6. pc'[o] # "ui join" /\ {o, t} = {"main", "event"}
  BY <1>0, <1>5 DEF Joining, Stopping
<1>7. \A u \in UiThreads : ui[u] # "free" => u = h
  BY <1>3 DEF ScreenInv
\* What is left to show, by whether t is between flag and join afterwards.
<1>8. ASSUME ~Joining(t)', \A u \in UiThreads : ui'[u] # "free" => u = h',
             g_no_signal_thread_created' <=> g_no_signal_ui_active',
             g_no_signal_ui_active' => h' \in UiThreads /\ ui'[h'] = "draw",
             ~g_no_signal_ui_active' => \A u \in UiThreads : ui'[u] = "free",
             DOMAIN joins' = {"main", "event"}
      PROVE  ScreenInv'
  <2>1. ~Joining("main")' /\ ~Joining("event")'
    BY <1>5, <1>6, <1>8
  <2>2. pc'["main"] # "ui join" /\ pc'["event"] # "ui join"
    BY <2>1 DEF Joining, Stopping
  <2>. QED
    BY <1>3, <1>8, <2>1, <2>2 DEF ScreenInv
<1>9. ASSUME Joining(t)', UNCHANGED <<h, ui, g_no_signal_thread_created>>, ~g_no_signal_ui_active',
             h \in UiThreads, ui[h] # "free",
             g_no_signal_thread_created <=> ui[h] \in {"draw", "exit"},
             DOMAIN joins' = {"main", "event"}, pc'[t] = "ui join" => joins'[t] = h
      PROVE  ScreenInv'
  <2>1. Joining("main")' \/ Joining("event")'
    BY <1>9
  <2>2. \A s \in DOMAIN joins' : pc'[s] = "ui join" => joins'[s] = h'
    BY <1>6, <1>9
  <2>. QED
    BY <1>3, <1>7, <1>9, <2>1, <2>2 DEF ScreenInv
<1>10. /\ "ui handle" \in Stopping /\ "ui join" \in Stopping /\ AfterStop(t) \notin Stopping
       /\ "mute" \notin Stopping /\ "ui start" \notin Stopping /\ "ui stop" \notin Stopping
       /\ AfterStop(t) # "ui join" /\ "return" \notin Stopping /\ "spawn" \notin Stopping
  BY DEF Stopping, AfterStop
<1>11. ASSUME ~Joining(t)
       PROVE  /\ g_no_signal_thread_created <=> g_no_signal_ui_active
              /\ g_no_signal_ui_active => h \in UiThreads /\ ui[h] = "draw"
              /\ ~g_no_signal_ui_active => \A u \in UiThreads : ui[u] = "free"
  <2>1. ~Joining("main") /\ ~Joining("event")
    BY <1>5, <1>6, <1>11
  <2>. QED
    BY <1>3, <2>1 DEF ScreenInv
<1>12. ASSUME Joining(t)
       PROVE  /\ ~g_no_signal_ui_active /\ h \in UiThreads /\ ui[h] # "free"
              /\ g_no_signal_thread_created <=> ui[h] \in {"draw", "exit"}
  <2>1. Joining("main") \/ Joining("event")
    BY <1>12
  <2>. QED
    BY <1>3, <2>1 DEF ScreenInv
<1>13. CASE StartNoSignalUi(t)
  <2>1. ~Joining(t) /\ ~Joining(t)' /\ joins' = joins
    <3>1. pc[t] = "ui start" /\ Goto(t, "mute") /\ joins' = joins
      BY <1>13 DEF StartNoSignalUi
    <3>2. pc'[t] = "mute"
      BY <1>0, <3>1, GotoPc
    <3>. QED
      BY <1>10, <3>1, <3>2 DEF Joining
  <2>2. CASE g_no_signal_ui_active \/ g_no_signal_thread_created
    <3>1. UNCHANGED <<h, ui, g_no_signal_thread_created>> /\ g_no_signal_ui_active' = TRUE
      BY <1>13, <2>2 DEF StartNoSignalUi
    <3>2. g_no_signal_ui_active
      BY <1>11, <2>1, <2>2
    <3>. QED
      BY <1>0, <1>7, <1>8, <1>11, <2>1, <3>1, <3>2
  <2>3. CASE UNCHANGED screen
    BY <1>0, <1>7, <1>8, <1>11, <2>1, <2>3 DEF screen
  <2>4. CASE ~(g_no_signal_ui_active \/ g_no_signal_thread_created) /\ ~UNCHANGED screen
    <3>. DEFINE u == CHOOSE v \in UiThreads : ui[v] = "free"
    <3>1. /\ ui' = [ui EXCEPT ![u] = "draw"] /\ h' = u /\ g_no_signal_thread_created' = TRUE
          /\ g_no_signal_ui_active' = TRUE
      BY <1>13, <2>4 DEF StartNoSignalUi
    <3>2. \A v \in UiThreads : ui[v] = "free"
      BY <1>11, <2>1, <2>4
    <3>3. u \in UiThreads
      BY <3>2, ConstantsAssumption
    <3>. HIDE DEF u
    <3>4. ui'[u] = "draw" /\ \A v \in UiThreads \ {u} : ui'[v] = "free"
      BY <1>0, <3>1, <3>2, <3>3
    <3>. QED
      BY <1>0, <1>8, <2>1, <3>1, <3>3, <3>4
  <2>. QED
    BY <2>2, <2>3, <2>4
<1>14. CASE StopNoSignalUi(t)
  <2>1. /\ pc[t] = "ui stop" /\ ~g_no_signal_ui_active' /\ joins' = joins
        /\ UNCHANGED <<h, ui, g_no_signal_thread_created>>
        /\ Goto(t, IF g_no_signal_thread_created THEN "ui handle" ELSE AfterStop(t))
    BY <1>14 DEF StopNoSignalUi
  <2>2. ~Joining(t)
    BY <1>10, <2>1 DEF Joining
  <2>3. pc'[t] = IF g_no_signal_thread_created THEN "ui handle" ELSE AfterStop(t)
    BY <1>0, <2>1, GotoPc
  <2>4. CASE g_no_signal_thread_created
    <3>1. Joining(t)' /\ pc'[t] # "ui join"
      BY <1>10, <2>3, <2>4 DEF Joining
    <3>2. h \in UiThreads /\ ui[h] = "draw"
      BY <1>11, <2>2, <2>4
    <3>. QED
      BY <1>0, <1>9, <2>1, <2>4, <3>1, <3>2
  <2>5. CASE ~g_no_signal_thread_created
    <3>1. ~Joining(t)'
      BY <1>10, <2>3, <2>5 DEF Joining
    <3>2. \A u \in UiThreads : ui[u] = "free"
      BY <1>11, <2>2, <2>5
    <3>. QED
      BY <1>0, <1>7, <1>8, <2>1, <2>5, <3>1, <3>2
  <2>. QED
    BY <2>4, <2>5
<1>15. CASE StopNoSignalUiHandle(t)
  <2>1. /\ pc[t] = "ui handle" /\ joins' = [joins EXCEPT ![t] = h] /\ Goto(t, "ui join")
        /\ UNCHANGED <<h, ui, g_no_signal_thread_created, g_no_signal_ui_active>>
    BY <1>15 DEF StopNoSignalUiHandle, screen
  <2>2. Joining(t) /\ pc'[t] = "ui join" /\ joins'[t] = h /\ DOMAIN joins' = {"main", "event"}
    BY <1>0, <1>10, <2>1, GotoPc DEF Joining
  <2>3. Joining(t)'
    BY <1>10, <2>2 DEF Joining
  <2>. QED
    BY <1>9, <1>12, <2>1, <2>2, <2>3
<1>16. CASE StopNoSignalUiJoin(t)
  <2>1. /\ pc[t] = "ui join" /\ ui[joins[t]] \in {"ended", "free"}
        /\ ui' = [ui EXCEPT ![joins[t]] = "free"] /\ joins' = [joins EXCEPT ![t] = NONE]
        /\ Goto(t, AfterStop(t))
        /\ UNCHANGED <<h, g_no_signal_thread_created, g_no_signal_ui_active>>
    BY <1>16 DEF StopNoSignalUiJoin
  <2>2. Joining(t) /\ pc'[t] = AfterStop(t) /\ DOMAIN joins' = {"main", "event"}
    BY <1>0, <1>10, <2>1, GotoPc DEF Joining
  <2>3. ~Joining(t)'
    BY <1>10, <2>2 DEF Joining
  <2>4. joins[t] = h
    BY <1>0, <1>3, <2>1 DEF ScreenInv
  <2>5. ~g_no_signal_thread_created /\ ~g_no_signal_ui_active
    BY <1>12, <2>1, <2>2, <2>4
  <2>6. \A u \in UiThreads : ui'[u] = "free"
    BY <1>0, <1>7, <2>1, <2>4
  <2>. QED
    BY <1>8, <2>1, <2>2, <2>3, <2>5, <2>6
<1>17. CASE StopAudioOnLoss(t)
  <2>1. /\ pc[t] = "mute" /\ Goto(t, IF t = "event" THEN "return" ELSE "spawn")
        /\ UNCHANGED <<screen, joins>>
    BY <1>17 DEF StopAudioOnLoss
  <2>. QED
    BY <1>0, <1>10, <2>1, ScreenPassed
<1>. QED
  BY <1>13, <1>14, <1>15, <1>16, <1>17 DEF ScreenStep

\* Every step keeps it.
LEMMA ScreenInvStep == TypeOK /\ OrderInv /\ ScreenInv /\ [Next]_vars => ScreenInv'
<1>. SUFFICES ASSUME TypeOK, OrderInv, ScreenInv, [Next]_vars PROVE ScreenInv'
  OBVIOUS
<1>0. DOMAIN pc = Threads /\ raced \in BOOLEAN
  BY DEF TypeOK, PcOK
<1>1. ASSUME UNCHANGED <<screen, joins, pc, raced>> PROVE ScreenInv'
  BY <1>1, ScreenKept DEF ScreenInv, Joining
<1>2. CASE World
  BY <1>1, <1>2 DEF World, Plug, VrrChanges, DisplayChanges, SignalChanges
<1>3. CASE PollThread \/ onOtherSourceConnect
  <2>1. UNCHANGED <<screen, joins>>
    BY <1>3 DEF PollThread, onSigStatusChange, onSigVrrChange, onSourceConnect, SendEvent,
       onOtherSourceConnect, CheckAndApplyAutoVrr, SetForceVrrFrameLock
  <2>2. CASE SendEvent
    <3>1. \E p \in {"return", "ui start", "ui stop"} :
             GotoAll([pc EXCEPT !["poll"] = "wait", !["event"] = p])
      BY <2>2 DEF SendEvent
    <3>2. /\ pc'["main"] = pc["main"] /\ pc'["event"] \in {"return", "ui start", "ui stop"}
          /\ raced' = (raced \/ (pc'["main"] \in StartupCheck /\ pc'["event"] # "idle"))
      BY <1>0, <3>1 DEF GotoAll, Threads
    <3>3. pc["event"] = "idle"
      BY <2>2 DEF SendEvent, OrderInv
    <3>4. \A t \in {"main", "event"} :
             (Joining(t)' <=> Joining(t)) /\ (pc'[t] = "ui join" => pc[t] = "ui join")
      BY <3>2, <3>3 DEF Joining, Stopping
    <3>. QED
      BY <1>0, <2>1, <3>2, <3>4, ScreenKept
  <2>3. CASE ~SendEvent
    <3>1. UNCHANGED <<pc, raced>> \/ \E p \in PollPcs : Goto("poll", p)
      BY <1>3, <2>3 DEF PollThread, onSigStatusChange, onSigVrrChange, onSourceConnect,
         onOtherSourceConnect, CheckAndApplyAutoVrr, SetForceVrrFrameLock, PollPcs
    <3>2. pc["poll"] \notin Stopping /\ \A p \in PollPcs : p \notin Stopping
      BY DEF TypeOK, PcOK, PollPcs, Stopping
    <3>. QED
      BY <1>1, <2>1, <3>1, <3>2, ScreenPassed DEF Threads
  <2>. QED
    BY <2>2, <2>3
<1>4. CASE EventThread
  <2>1. CASE CallbackReturns
    <3>1. UNCHANGED <<screen, joins, raced>>
      BY <2>1 DEF CallbackReturns
    <3>2. pc'["main"] = pc["main"] /\ pc["event"] = "return" /\ pc'["event"] = "idle"
      BY <1>0, <2>1 DEF CallbackReturns, Threads
    <3>3. \A t \in {"main", "event"} :
             (Joining(t)' <=> Joining(t)) /\ (pc'[t] = "ui join" => pc[t] = "ui join")
      BY <3>2 DEF Joining, Stopping
    <3>. QED
      BY <3>1, <3>2, <3>3, ScreenKept
  <2>2. CASE SynchronizeHdmitxToHdmirx \/ ApplyVrrMode \/ StartAudioPassthrough
    <3>1. /\ UNCHANGED <<screen, joins>> /\ pc["event"] \in {"size", "vrr mode", "vrr on", "audio"}
          /\ \E p \in {"return", "vrr mode", "vrr on", "audio"} : Goto("event", p)
      BY <2>2 DEF SynchronizeHdmitxToHdmirx, ApplyVrrMode, StartAudioPassthrough
    <3>2. \A p \in {"size", "return", "vrr mode", "vrr on", "audio"} : p \notin Stopping
      BY DEF Stopping
    <3>. QED
      BY <3>1, <3>2, ScreenPassed DEF Threads
  <2>. QED
    BY <1>4, <2>1, <2>2, ScreenKeeps DEF EventThread, ScreenStep
<1>5. CASE UeventThread
  <2>1. UNCHANGED <<screen, joins>> /\ \E p \in UeventPcs : Goto("uevent", p)
    BY <1>5 DEF UeventThread, UeventMonitorThread, StopTvProcessing, UeventPcs
  <2>2. pc["uevent"] \notin Stopping /\ \A p \in UeventPcs : p \notin Stopping
    BY DEF TypeOK, PcOK, UeventPcs, Stopping
  <2>. QED
    BY <2>1, <2>2, ScreenPassed DEF Threads
<1>6. CASE MainThread
  <2>1. CASE MainSpawn
    <3>1. UNCHANGED <<screen, joins, raced>>
      BY <2>1 DEF MainSpawn
    <3>2. pc'["event"] = pc["event"] /\ pc["main"] = "spawn" /\ pc'["main"] = "loop"
      BY <1>0, <2>1 DEF MainSpawn, Threads
    <3>3. \A t \in {"main", "event"} :
             (Joining(t)' <=> Joining(t)) /\ (pc'[t] = "ui join" => pc[t] = "ui join")
      BY <3>2 DEF Joining, Stopping
    <3>4. pc'["main"] \notin StartupCheck
      BY <3>2 DEF StartupCheck
    <3>. QED
      BY <3>1, <3>3, <3>4, ScreenKept
  <2>2. CASE MainSocket \/ MainReadHpd \/ MainStopTv \/ MainStartTv \/ CheckPlug \/ CheckSize
    <3>1. /\ UNCHANGED <<screen, joins>> /\ pc["main"] \notin Stopping
          /\ \E p \in {"hpd", "stop", "start tv", "check plug", "check size", "ui start",
                       "ui stop", "loop"} : Goto("main", p)
      BY <2>2 DEF MainSocket, MainReadHpd, MainStopTv, MainStartTv, CheckPlug, CheckSize, Stopping
    <3>2. \A p \in {"hpd", "stop", "start tv", "check plug", "check size", "ui start", "ui stop",
                   "loop"} : p \notin Stopping
      BY DEF Stopping
    <3>. QED
      BY <3>1, <3>2, ScreenPassed DEF Threads
  <2>. QED
    BY <1>6, <2>1, <2>2, ScreenKeeps DEF MainThread, ScreenStep
<1>7. ASSUME NEW u \in UiThreads, NoSignalUiThread(u) PROVE ScreenInv'
  <2>. SUFFICES ASSUME ~raced' PROVE ScreenInv'
    BY DEF ScreenInv
  <2>1. UNCHANGED <<g_no_signal_ui_active, g_no_signal_thread, pc, joins, raced>>
    BY <1>7 DEF NoSignalUiThread
  <2>2. ui \in [UiThreads -> {"free", "draw", "exit", "ended"}]
    BY DEF TypeOK, AppOK
  <2>3. ui[u] \in {"draw", "exit"} /\ ui[u] # "free" /\ (ui[u] = "draw" => ~g_no_signal_ui_active)
    BY <1>7 DEF NoSignalUiThread
  <2>4. u = g_no_signal_thread
    BY <2>1, <2>3 DEF ScreenInv
  <2>5. Joining("main") \/ Joining("event")
    BY <2>1, <2>3, <2>4 DEF ScreenInv
  <2>6. /\ \/ ui'[u] = "exit" /\ ui[u] = "draw" /\ UNCHANGED g_no_signal_thread_created
           \/ ui'[u] = "ended" /\ ~g_no_signal_thread_created'
        /\ \A v \in UiThreads \ {u} : ui'[v] = ui[v]
    BY <1>7, <2>2 DEF NoSignalUiThread
  <2>7. ~g_no_signal_ui_active /\ (g_no_signal_thread_created <=> ui[u] \in {"draw", "exit"})
    BY <2>1, <2>4, <2>5 DEF ScreenInv
  <2>8. /\ ui'[u] # "free" /\ (g_no_signal_thread_created' <=> ui'[u] \in {"draw", "exit"})
        /\ \A v \in UiThreads : ui'[v] # "free" => v = u
    BY <2>1, <2>4, <2>6, <2>7 DEF ScreenInv
  <2>9. Joining("main")' \/ Joining("event")'
    BY <2>1, <2>5 DEF Joining
  <2>10. /\ pc'["main"] \in StartupCheck => pc'["event"] = "idle"
         /\ \A t \in DOMAIN joins' : pc'[t] = "ui join" => joins'[t] = g_no_signal_thread'
    BY <2>1 DEF ScreenInv
  <2>11. g_no_signal_thread' = u /\ ~g_no_signal_ui_active'
    BY <2>1, <2>4, <2>7
  <2>. QED
    BY <2>8, <2>9, <2>10, <2>11 DEF ScreenInv
<1>8. CASE UNCHANGED vars
  BY <1>1, <1>8 DEF vars
<1>. QED
  BY <1>2, <1>3, <1>4, <1>5, <1>6, <1>7, <1>8 DEF Next

\* One thread draws at most, and the screen is there if and only if that was the
\* last request (StreamboxTv.ScreenAsRequested), for any number of threads.
THEOREM ScreenAsRequestedCorrect == Spec => []ScreenAsRequested
<1>1. Init => ScreenInv
  <2>. SUFFICES ASSUME Init PROVE ScreenInv
    OBVIOUS
  <2>1. /\ pc["main"] = "socket" /\ pc["event"] = "idle"
        /\ g_no_signal_ui_active = FALSE /\ g_no_signal_thread_created = FALSE
        /\ \A u \in UiThreads : ui[u] = "free"
        /\ DOMAIN joins = {"main", "event"}
    BY DEF Init, Threads
  <2>. QED
    BY <2>1 DEF ScreenInv, Joining, Stopping, StartupCheck
<1>2. TypeOK /\ ScreenInv => ScreenAsRequested
  <2>. SUFFICES ASSUME TypeOK, ScreenInv, ~raced
                PROVE  /\ Cardinality({u \in UiThreads : ui[u] \in {"draw", "exit"}}) <= 1
                       /\ pc["main"] \notin Stopping /\ pc["event"] \notin Stopping
                             => (Shown <=> g_no_signal_ui_active)
    BY DEF ScreenAsRequested, Stopping
  <2>1. Cardinality({u \in UiThreads : ui[u] \in {"draw", "exit"}}) <= 1
    <3>. DEFINE D == {u \in UiThreads : ui[u] \in {"draw", "exit"}}
    <3>1. D \subseteq {g_no_signal_thread}
      BY DEF ScreenInv
    <3>2. D = {} \/ D = {g_no_signal_thread}
      BY <3>1
    <3>3. Cardinality({}) = 0 /\ Cardinality({g_no_signal_thread}) = 1
      BY FS_EmptySet, FS_Singleton
    <3>. HIDE DEF D
    <3>4. Cardinality(D) <= 1
      BY <3>2, <3>3
    <3>. QED
      BY <3>4 DEF D
  <2>2. ASSUME pc["main"] \notin Stopping, pc["event"] \notin Stopping
        PROVE  Shown <=> g_no_signal_ui_active
    BY <2>2 DEF ScreenInv, Joining, Shown
  <2>. QED
    BY <2>1, <2>2
<1>. QED
  BY <1>1, <1>2, ScreenInvStep, TypeCorrect, OrderCorrect, PTL DEF Spec
=============================================================================
