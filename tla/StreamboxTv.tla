----------------------------- MODULE StreamboxTv -----------------------------
(***************************************************************************)
(* The pass-through application (test/streambox-tv.c) with the part of     *)
(* tvserver it works against: three of its threads, the threads that draw  *)
(* the no-signal screen, and the server's poll thread, which waits in each *)
(* event until the application's callback has returned.                    *)
(*                                                                         *)
(* A step of a thread is one critical section, one call to the server or   *)
(* one write to a driver, with what no other thread can tell from it:      *)
(* taking an event, the flag g_tv_started, a stop of audio that follows.   *)
(* Left out: the TX attributes and HDR (no thread reads them back), the TX *)
(* switch for VRR packets (only ever set to 1), drawing, and the reloads   *)
(* of the configuration, which Config models.                              *)
(***************************************************************************)
EXTENDS Naturals, Sequences, FiniteSets

CONSTANTS
    Signals,        \* what the input may show: statuses of tvin_sig_status_e
    GameMode,       \* video->game_mode
    VrrMode,        \* video->vrr_mode
    VrrEnabled,     \* VRR is enabled
    UiThreads,      \* names of drawing threads
    Faults,         \* what may go wrong: "start", "stop" (the calls), "signal" (the info is
                    \* not read), "vrr" (VRR is not read, its mode not written), "switch"
                    \* (the VRR switch is not written), "shown" (another source's event, or
                    \* the application does not do what it set out to)
    MaxAmiss,       \* bound: kinds of faults not made up for at once
    MaxUevents,     \* bound: uevents waiting in the socket
    NONE            \* no thread, no status, no handler

ASSUME ConstantsAssumption ==
    /\ {"STABLE", "NOSIG"} \subseteq Signals
    /\ NONE \notin Signals \union {"stable", "lost", "unplugged", "other"}
    /\ GameMode \in 0..2 /\ VrrMode \in 0..2 /\ VrrEnabled \in BOOLEAN
    /\ IsFiniteSet(UiThreads) /\ UiThreads # {} /\ NONE \notin UiThreads
    /\ Faults \subseteq {"start", "stop", "signal", "vrr", "switch", "shown"}
    /\ MaxAmiss \in Nat
    /\ MaxUevents \in Nat \ {0}

VARIABLES
    signal,         \* what the HDMI input carries
    plugged,        \* the input's cable
    vrrIn,          \* the source sends VRR packets (VDIN_VRR_BASIC)
    display,        \* a display is connected to HDMI TX
    uevents,        \* hotplug events in the netlink socket
    started,        \* tvserver: the input is started
    stored,         \* tvserver: mCurrentSignalInfo.status
    plugSeen,       \* tvserver: the last HDMI status word
    raised,         \* tvserver: vdin events raised and not yet taken
    handler,        \* tvserver: what the poll thread handles
    g_hdmitx_connected, g_headless_mode, g_tv_started,
    g_no_signal_ui_active, g_no_signal_thread_created, g_no_signal_thread,
    ui,             \* each drawing thread: "free", "draw", "exit", "ended"
    alsaloop,       \* the audio process was started (g_alsaloop_pid > 0)
    vrr,            \* the VRR driver: mode and switch
    pc,             \* each thread's position
    joins,          \* the thread that pthread_join was called with
    raced,          \* history: the startup check met a callback
    amiss           \* history: what went wrong and has not been made up for

input  == <<signal, plugged, vrrIn>>
tx     == <<display, uevents>>
server == <<started, stored, plugSeen, raised, handler>>
app    == <<g_hdmitx_connected, g_headless_mode, g_tv_started>>
screen == <<g_no_signal_ui_active, g_no_signal_thread_created, g_no_signal_thread, ui>>
vars   == <<input, tx, server, app, screen, alsaloop, vrr, pc, joins, raced, amiss>>

Threads == {"main", "uevent", "event", "poll"}

\* The startup check lasts from its first question to the end of what it decides.
StartupCheck ==
    {"check plug", "check size", "ui start", "ui stop", "ui handle", "ui join", "mute"}

\* Threads go on at new positions; the startup check may meet a callback there.
GotoAll(next) ==
    /\ pc' = next
    /\ raced' = (raced \/ (next["main"] \in StartupCheck /\ next["event"] # "idle"))

Goto(t, p) == GotoAll([pc EXCEPT ![t] = p])

Init ==
    /\ signal \in Signals /\ plugged \in BOOLEAN /\ (~plugged => signal = "NOSIG")
    /\ vrrIn \in BOOLEAN /\ display \in BOOLEAN /\ uevents = <<>>
    /\ started = FALSE /\ stored = NONE /\ plugSeen = plugged /\ raised = {} /\ handler = NONE
    /\ g_hdmitx_connected = FALSE /\ g_headless_mode = FALSE /\ g_tv_started = FALSE
    /\ g_no_signal_ui_active = FALSE /\ g_no_signal_thread_created = FALSE
    /\ g_no_signal_thread = NONE /\ ui = [u \in UiThreads |-> "free"]
    /\ alsaloop = FALSE /\ vrr = [mode |-> 0, en |-> FALSE]
    /\ pc = [t \in Threads |-> CASE t = "main" -> "socket" [] t = "uevent" -> "off"
                                 [] OTHER -> "idle"]
    /\ joins = [t \in {"main", "event"} |-> NONE]
    /\ raced = FALSE /\ amiss = {}

\* A call or a write fails; what failed before is made up for.
MayFail(what) == what \in Faults /\ Cardinality(amiss \union {what}) <= MaxAmiss
Fails(what) == MayFail(what) /\ amiss' = amiss \union {what}
Mends(what) == amiss' = amiss \ what

(***************************************************************************)
(* The world                                                               *)
(***************************************************************************)
Raise(e) == raised' = IF started THEN raised \cup {e} ELSE raised

SignalChanges(s) ==
    /\ plugged /\ s # signal
    /\ signal' = s /\ Raise("status")
    /\ UNCHANGED <<plugged, vrrIn, tx, started, stored, plugSeen, handler, app, screen,
                   alsaloop, vrr, pc, joins, raced, amiss>>

\* A cable without a source carries nothing.
Plug ==
    /\ plugged' = ~plugged /\ signal' = "NOSIG"
    /\ IF signal = "NOSIG" THEN UNCHANGED raised ELSE Raise("status")
    /\ UNCHANGED <<vrrIn, tx, started, stored, plugSeen, handler, app, screen, alsaloop,
                   vrr, pc, joins, raced, amiss>>

VrrChanges ==
    /\ vrrIn' = ~vrrIn /\ Raise("vrr")
    /\ UNCHANGED <<signal, plugged, tx, started, stored, plugSeen, handler, app, screen,
                   alsaloop, vrr, pc, joins, raced, amiss>>

\* The socket keeps the events from its creation on.
DisplayChanges ==
    /\ Len(uevents) < MaxUevents
    /\ display' = ~display
    /\ uevents' = IF pc["main"] = "socket" THEN uevents ELSE Append(uevents, display')
    /\ UNCHANGED <<input, server, app, screen, alsaloop, vrr, pc, joins, raced, amiss>>

(***************************************************************************)
(* tvserver                                                                *)
(***************************************************************************)
\* StartTv: the driver reports what the opened port shows.
StartTv ==
    /\ \/ started' = TRUE /\ raised' = raised \union {"status"} /\ Mends({"start", "stop"})
       \/ Fails("start") /\ UNCHANGED <<started, raised>>
    /\ UNCHANGED <<stored, plugSeen, handler>>

\* StopTv: a closed port reports nothing, and the signal info is cleared.
StopTv ==
    /\ \/ started' = FALSE /\ raised' = {} /\ Mends({"start", "stop", "signal"})
       \/ started /\ Fails("stop") /\ UNCHANGED <<started, raised>>
    /\ stored' = NONE
    /\ UNCHANGED <<plugSeen, handler>>

\* onSigStatusChange: the info is stored, and the handler of the status runs;
\* onSigToUnstable sends no event.  If the info cannot be read the change is lost.
onSigStatusChange ==
    /\ pc["poll"] = "idle" /\ "status" \in raised
    /\ raised' = raised \ {"status"}
    /\ \/ /\ stored' = signal /\ Mends({"signal"})
          /\ IF signal = "UNSTABLE"
             THEN UNCHANGED <<handler, pc, raced>>
             ELSE /\ handler' = IF signal = "STABLE" THEN "stable" ELSE "lost"
                  /\ Goto("poll", "send")
       \/ Fails("signal") /\ UNCHANGED <<stored, handler, pc, raced>>
    /\ UNCHANGED <<input, tx, started, plugSeen, app, screen, alsaloop, vrr, joins>>

\* onSigVrrChange: the wrapper drops the VRR event, so only the check is left.
onSigVrrChange ==
    /\ pc["poll"] = "idle" /\ "vrr" \in raised
    /\ raised' = raised \ {"vrr"}
    /\ \/ Goto("poll", "check vrr") /\ UNCHANGED amiss
       \/ Fails("vrr") /\ UNCHANGED <<pc, raced>>
    /\ UNCHANGED <<input, tx, started, stored, plugSeen, handler, app, screen, alsaloop, vrr,
                   joins>>

\* The status word changed; the application looks at plugs that are gone only.
onSourceConnect ==
    /\ pc["poll"] = "idle" /\ plugSeen # plugged
    /\ plugSeen' = plugged
    /\ IF plugged THEN UNCHANGED <<handler, pc, raced>>
                  ELSE handler' = "unplugged" /\ Goto("poll", "send")
    /\ UNCHANGED <<input, tx, started, stored, raised, app, screen, alsaloop, vrr, joins, amiss>>

\* The same for the plug of any other source: the callback does not look whose
\* it is.  Nothing says that such plugs ever move, so fairness does not count it.
onOtherSourceConnect ==
    /\ pc["poll"] = "idle" /\ MayFail("shown")
    /\ handler' = "other" /\ Goto("poll", "send")
    /\ UNCHANGED <<input, tx, started, stored, plugSeen, raised, app, screen, alsaloop, vrr, joins,
                   amiss>>

\* TvEventCallback begins: transact returns when it ends.  The status sent is
\* the one stored now.
SendEvent ==
    /\ pc["poll"] = "send"
    /\ LET status == IF handler \in {"unplugged", "other"} THEN "NOSIG" ELSE stored
           first == IF g_headless_mode THEN "return"
                    ELSE IF status = "STABLE" THEN "ui stop" ELSE "ui start"
       IN  GotoAll([pc EXCEPT !["poll"] = "wait", !["event"] = first])
    /\ amiss' = IF handler = "other" THEN amiss \union {"shown"} ELSE amiss \ {"shown"}
    /\ UNCHANGED <<input, tx, server, app, screen, alsaloop, vrr, joins>>

\* Mutant: the VRR mode is checked when VRR changes only.
AfterEventUnchecked == "idle"

AfterEvent == IF handler = "stable" /\ ~g_headless_mode THEN "check vrr" ELSE "idle"

CallbackReturns ==
    /\ pc["event"] = "return"
    /\ pc' = [pc EXCEPT !["event"] = "idle", !["poll"] = AfterEvent]
    /\ handler' = NONE
    /\ UNCHANGED <<input, tx, started, stored, plugSeen, raised, app, screen, alsaloop, vrr, joins,
                   raced, amiss>>

\* A write of the VRR switch, which the driver may not take.
Switch(on) == vrr' = [vrr EXCEPT !.en = on] \/ ("switch" \in Faults /\ UNCHANGED vrr)

\* CheckAndApplyAutoVrr: SetForceVrrFrameLock(2) for a source that sends VRR
\* packets, (1) for another, and nothing if the drivers do not answer.
CheckAndApplyAutoVrr ==
    /\ pc["poll"] = "check vrr"
    /\ \/ /\ Goto("poll", IF ~VrrEnabled THEN "idle" ELSE IF vrrIn THEN "mode 2" ELSE "mode 1")
          /\ UNCHANGED amiss
       \/ Fails("vrr") /\ Goto("poll", "idle")
    /\ UNCHANGED <<input, tx, server, app, screen, alsaloop, vrr, joins>>

\* The mode, and the switch if the mode was taken.
SetForceVrrFrameLock ==
    /\ \/ \E m \in {1, 2} :
             /\ pc["poll"] = IF m = 1 THEN "mode 1" ELSE "mode 2"
             /\ \/ vrr' = [vrr EXCEPT !.mode = m] /\ Goto("poll", "en 1") /\ Mends({"vrr"})
                \/ Fails("vrr") /\ Goto("poll", "idle") /\ UNCHANGED vrr
       \/ /\ pc["poll"] = "en 1"
          /\ Switch(TRUE) /\ Goto("poll", "idle")
          /\ UNCHANGED amiss
    /\ UNCHANGED <<input, tx, server, app, screen, alsaloop, joins>>

PollThread ==
    \/ onSigStatusChange \/ onSigVrrChange \/ onSourceConnect
    \/ SendEvent \/ CheckAndApplyAutoVrr \/ SetForceVrrFrameLock

(***************************************************************************)
(* The no-signal screen                                                    *)
(***************************************************************************)
\* Where a thread goes after the screen has been stopped.
AfterStop(t) == IF t = "event" THEN "size" ELSE "spawn"

\* A screen that is there, or whose thread is still on its way out, gets no thread.
StartNoSignalUi(t) ==
    /\ pc[t] = "ui start"
    /\ \/ /\ g_no_signal_ui_active \/ g_no_signal_thread_created
          /\ g_no_signal_ui_active' = TRUE
          /\ UNCHANGED <<g_no_signal_thread_created, g_no_signal_thread, ui, amiss>>
       \/ /\ ~g_no_signal_ui_active /\ ~g_no_signal_thread_created
          /\ \/ LET u == CHOOSE v \in UiThreads : ui[v] = "free"
                IN  /\ ui' = [ui EXCEPT ![u] = "draw"]
                    /\ g_no_signal_thread' = u /\ g_no_signal_thread_created' = TRUE
                    /\ g_no_signal_ui_active' = TRUE /\ UNCHANGED amiss
             \/ Fails("shown") /\ UNCHANGED screen
    /\ Goto(t, "mute")
    /\ UNCHANGED <<input, tx, server, app, alsaloop, vrr, joins>>

\* Mutant: nobody waits for the drawing thread.
StopNoSignalUiUnjoined(t) ==
    /\ pc[t] = "ui stop"
    /\ g_no_signal_ui_active' = FALSE
    /\ Goto(t, AfterStop(t))
    /\ UNCHANGED <<input, tx, server, app, g_no_signal_thread_created, g_no_signal_thread, ui,
                   alsaloop, vrr, joins, amiss>>

\* StopNoSignalUi: the flags under the mutex, the handle and the join outside.
StopNoSignalUi(t) ==
    /\ pc[t] = "ui stop"
    /\ g_no_signal_ui_active' = FALSE
    /\ Goto(t, IF g_no_signal_thread_created THEN "ui handle" ELSE AfterStop(t))
    /\ UNCHANGED <<input, tx, server, app, g_no_signal_thread_created, g_no_signal_thread, ui,
                   alsaloop, vrr, joins, amiss>>

StopNoSignalUiHandle(t) ==
    /\ pc[t] = "ui handle"
    /\ joins' = [joins EXCEPT ![t] = g_no_signal_thread]
    /\ Goto(t, "ui join")
    /\ UNCHANGED <<input, tx, server, app, screen, alsaloop, vrr, amiss>>

\* A thread that was joined already is undefined behaviour; here it returns.
StopNoSignalUiJoin(t) ==
    /\ pc[t] = "ui join"
    /\ ui[joins[t]] \in {"ended", "free"}
    /\ ui' = [ui EXCEPT ![joins[t]] = "free"]
    /\ joins' = [joins EXCEPT ![t] = NONE]
    /\ Goto(t, AfterStop(t))
    /\ UNCHANGED <<input, tx, server, app, g_no_signal_ui_active, g_no_signal_thread_created,
                   g_no_signal_thread, alsaloop, vrr, amiss>>

\* Mutant: the stopping thread keeps the mutex until it has joined.
NoSignalUiThreadLockedOut(u) ==
    /\ \A t \in DOMAIN joins : pc[t] \notin {"ui handle", "ui join"}
    /\ \/ /\ ui[u] = "draw" /\ ~g_no_signal_ui_active
          /\ ui' = [ui EXCEPT ![u] = "exit"]
          /\ UNCHANGED g_no_signal_thread_created
       \/ /\ ui[u] = "exit"
          /\ ui' = [ui EXCEPT ![u] = "ended"]
          /\ g_no_signal_thread_created' = FALSE
    /\ UNCHANGED <<input, tx, server, app, g_no_signal_ui_active, g_no_signal_thread, alsaloop,
                   vrr, pc, joins, raced, amiss>>

\* The loop of NoSignalUiThread reads the flag under the mutex; the thread takes
\* it again, after the screen is blank, to say that it is gone.
NoSignalUiThread(u) ==
    /\ \/ /\ ui[u] = "draw" /\ ~g_no_signal_ui_active
          /\ ui' = [ui EXCEPT ![u] = "exit"]
          /\ UNCHANGED g_no_signal_thread_created
       \/ /\ ui[u] = "exit"
          /\ ui' = [ui EXCEPT ![u] = "ended"]
          /\ g_no_signal_thread_created' = FALSE
    /\ UNCHANGED <<input, tx, server, app, g_no_signal_ui_active, g_no_signal_thread,
                   alsaloop, vrr, pc, joins, raced, amiss>>

(***************************************************************************)
(* The event callback                                                      *)
(***************************************************************************)
StopAudioPassthrough == alsaloop' = FALSE

StopAudioOnLoss(t) ==
    /\ pc[t] = "mute"
    /\ StopAudioPassthrough
    /\ Goto(t, IF t = "event" THEN "return" ELSE "spawn")
    /\ UNCHANGED <<input, tx, server, app, screen, vrr, joins, amiss>>

\* Without a picture, or an answer about it, it does nothing; else audio stops,
\* and the TX mode is set.  Without a mode, or with one that the driver refuses,
\* nothing starts audio again.
SynchronizeHdmitxToHdmirx ==
    /\ pc["event"] = "size"
    /\ \/ /\ stored = "STABLE" /\ StopAudioPassthrough
          /\ \/ Goto("event", IF GameMode = 2 THEN "vrr mode" ELSE "audio") /\ UNCHANGED amiss
             \/ Goto("event", "return") /\ Fails("shown")
       \/ /\ Goto("event", "return") /\ UNCHANGED alsaloop
          /\ IF stored = "STABLE" THEN Fails("shown") ELSE UNCHANGED amiss
    /\ UNCHANGED <<input, tx, server, app, screen, vrr, joins>>

\* ApplyVrrMode: 0 forces VRR, 1 leaves it to the source, 2 does either; the mode,
\* then the switch.  The question whether VRR is enabled may be answered wrongly; a
\* refused write may look like one that is taken, so the switch is written or not.
NativeVrr(enabled) == VrrMode # 0 /\ enabled

ApplyVrrMode ==
    /\ \/ /\ pc["event"] = "vrr mode"
          /\ \E enabled \in BOOLEAN :
                /\ enabled = VrrEnabled \/ "vrr" \in Faults
                /\ \/ /\ VrrMode = 1 /\ ~enabled
                      /\ Switch(FALSE) /\ Goto("event", "audio")
                   \/ /\ VrrMode # 1 \/ enabled
                      /\ vrr' = [vrr EXCEPT !.mode = IF NativeVrr(enabled) THEN 0 ELSE 1]
                      /\ Goto("event", "vrr on")
                   \/ /\ "vrr" \in Faults /\ UNCHANGED vrr
                      /\ \E p \in {"vrr on", "audio"} : Goto("event", p)
       \/ /\ pc["event"] = "vrr on"
          /\ Switch(TRUE) /\ Goto("event", "audio")
    /\ UNCHANGED <<input, tx, server, app, screen, alsaloop, joins, amiss>>

StartAudioPassthrough ==
    /\ pc["event"] = "audio"
    /\ \/ alsaloop' = TRUE /\ UNCHANGED amiss
       \/ Fails("shown") /\ UNCHANGED alsaloop
    /\ Goto("event", "return")
    /\ UNCHANGED <<input, tx, server, app, screen, vrr, joins>>

EventThread ==
    \/ StartNoSignalUi("event") \/ StopNoSignalUi("event")
    \/ StopNoSignalUiHandle("event") \/ StopNoSignalUiJoin("event")
    \/ StopAudioOnLoss("event") \/ SynchronizeHdmitxToHdmirx \/ ApplyVrrMode
    \/ StartAudioPassthrough \/ CallbackReturns

(***************************************************************************)
(* Hotplug                                                                 *)
(***************************************************************************)
\* StartTvProcessing: the call, and the flag whatever the call returned.
StartTvProcessing ==
    /\ g_tv_started' = TRUE
    /\ IF g_tv_started THEN UNCHANGED <<server, amiss>> ELSE StartTv

\* Mutant: the flag is not cleared.
StopTvProcessingKeepsFlag ==
    \/ /\ pc["uevent"] = "vrr off"
       /\ IF GameMode = 2 THEN Switch(FALSE) ELSE UNCHANGED vrr
       /\ Goto("uevent", "call stop")
       /\ UNCHANGED <<input, tx, server, app, screen, alsaloop, joins, amiss>>
    \/ /\ pc["uevent"] = "call stop"
       /\ StopTv /\ Goto("uevent", "idle")
       /\ UNCHANGED <<input, tx, app, screen, alsaloop, vrr, joins>>

\* StopTvProcessing, when audio is stopped and TV was started: VRR, the call and
\* the flag.
StopTvProcessing ==
    \/ /\ pc["uevent"] = "vrr off"
       /\ IF GameMode = 2 THEN Switch(FALSE) ELSE UNCHANGED vrr
       /\ Goto("uevent", "call stop")
       /\ UNCHANGED <<input, tx, server, app, screen, alsaloop, joins, amiss>>
    \/ /\ pc["uevent"] = "call stop"
       /\ StopTv /\ g_tv_started' = FALSE
       /\ Goto("uevent", "idle")
       /\ UNCHANGED <<input, tx, g_hdmitx_connected, g_headless_mode, screen, alsaloop, vrr, joins>>

\* UeventMonitorThread: an event that repeats what is known is dropped.
UeventMonitorThread ==
    /\ pc["uevent"] = "idle" /\ uevents # <<>>
    /\ uevents' = Tail(uevents)
    /\ g_hdmitx_connected' = Head(uevents)
    /\ \/ /\ Head(uevents) = g_hdmitx_connected
          /\ Goto("uevent", "idle") /\ UNCHANGED <<server, amiss, g_tv_started, alsaloop>>
       \/ /\ Head(uevents) /\ ~g_hdmitx_connected
          /\ StartTvProcessing
          /\ Goto("uevent", "idle") /\ UNCHANGED alsaloop
       \/ /\ ~Head(uevents) /\ g_hdmitx_connected
          /\ StopAudioPassthrough
          /\ Goto("uevent", IF g_tv_started THEN "vrr off" ELSE "idle")
          /\ UNCHANGED <<server, amiss, g_tv_started>>
    /\ UNCHANGED <<input, display, g_headless_mode, screen, vrr, joins>>

UeventThread == UeventMonitorThread \/ StopTvProcessing

(***************************************************************************)
(* main                                                                    *)
(***************************************************************************)
\* CreateUeventSocket, then the state of HDMI TX: without a display the
\* process captures only, for good.
MainSocket ==
    /\ pc["main"] = "socket" /\ Goto("main", "hpd")
    /\ UNCHANGED <<input, tx, server, app, screen, alsaloop, vrr, joins, amiss>>

MainReadHpd ==
    /\ pc["main"] = "hpd"
    /\ g_hdmitx_connected' = display /\ g_headless_mode' = ~display
    /\ Goto("main", "stop")
    /\ UNCHANGED <<input, tx, server, g_tv_started, screen, alsaloop, vrr, joins, amiss>>

\* The client is registered by now; what an earlier process left is stopped.
MainStopTv ==
    /\ pc["main"] = "stop" /\ StopTv /\ Goto("main", "start tv")
    /\ UNCHANGED <<input, tx, app, screen, alsaloop, vrr, joins>>

MainStartTv ==
    /\ pc["main"] = "start tv"
    /\ StartTvProcessing
    /\ Goto("main", IF g_headless_mode THEN "loop" ELSE "check plug")
    /\ UNCHANGED <<input, tx, g_hdmitx_connected, g_headless_mode, screen, alsaloop, vrr, joins>>

\* UpdateNoSignalUiFromCurrentSource: is there a cable, and then a picture?  A
\* question without an answer counts as no.
CheckPlug ==
    /\ pc["main"] = "check plug"
    /\ \/ Goto("main", IF plugged THEN "check size" ELSE "ui start") /\ UNCHANGED amiss
       \/ plugged /\ Fails("shown") /\ Goto("main", "ui start")
    /\ UNCHANGED <<input, tx, server, app, screen, alsaloop, vrr, joins>>

CheckSize ==
    /\ pc["main"] = "check size"
    /\ \/ Goto("main", IF stored = "STABLE" THEN "ui stop" ELSE "ui start") /\ UNCHANGED amiss
       \/ stored = "STABLE" /\ Fails("shown") /\ Goto("main", "ui start")
    /\ UNCHANGED <<input, tx, server, app, screen, alsaloop, vrr, joins>>

\* The monitor thread comes last.
MainSpawn ==
    /\ pc["main"] = "spawn"
    /\ pc' = [pc EXCEPT !["main"] = "loop", !["uevent"] = "idle"]
    /\ UNCHANGED <<input, tx, server, app, screen, alsaloop, vrr, joins, raced, amiss>>

MainThread ==
    \/ MainSocket \/ MainReadHpd \/ MainStopTv \/ MainStartTv \/ CheckPlug \/ CheckSize
    \/ StartNoSignalUi("main") \/ StopNoSignalUi("main") \/ StopNoSignalUiHandle("main")
    \/ StopNoSignalUiJoin("main") \/ StopAudioOnLoss("main") \/ MainSpawn

(***************************************************************************)
(* The system                                                              *)
(***************************************************************************)
World == Plug \/ VrrChanges \/ DisplayChanges \/ \E s \in Signals : SignalChanges(s)

Next ==
    \/ World \/ onOtherSourceConnect \/ PollThread \/ EventThread \/ UeventThread \/ MainThread
    \/ \E u \in UiThreads : NoSignalUiThread(u)

\* Every thread that can run is run; nothing is assumed of the world.  The poll
\* thread and its callback never run at once, nor do main and the thread it starts last.
Spec ==
    /\ Init /\ [][Next]_vars
    /\ WF_vars(PollThread \/ EventThread) /\ WF_vars(UeventThread \/ MainThread)
    /\ WF_vars(\E u \in UiThreads : NoSignalUiThread(u))

\* What follows a race of the startup check is not looked at: the code joins a
\* thread twice there, or the wrong one.
NotRaced == ~raced

(***************************************************************************)
(* Properties                                                              *)
(***************************************************************************)
Shown == \E u \in UiThreads : ui[u] = "draw"

\* One thread at most draws, and once nobody is about to start or stop the
\* screen it is there if and only if that was the last request: a drawing
\* thread on its way out is never taken for one that stays.  (A startup check
\* that meets an event is another matter: it may join the wrong thread.)
ScreenAsRequested ==
    ~raced =>
        /\ Cardinality({u \in UiThreads : ui[u] \in {"draw", "exit"}}) <= 1
        /\ pc["main"] \notin {"ui handle", "ui join"} /\ pc["event"] \notin {"ui handle", "ui join"}
               => (Shown <=> g_no_signal_ui_active)

\* The poll thread is never held for good by a callback: whatever the callback
\* waits for, joins and audio included, comes, so that time and again no callback
\* is waited for.
CallbackEnds == []<>(raced \/ pc["poll"] # "wait")

\* While the display and the input rest, the application comes to match them:
\* TV runs if there is a display, and then a stable input is passed through with
\* audio and without the screen, and a lost one shows the screen in silence.  It
\* need not if something went wrong that the code does not make up for before the
\* next event: a refused start or stop of TV, a signal that could not be read, a
\* callback that gave up half way, or one for the plug of another source, which
\* the application takes for its own.
Rests == [][FALSE]_<<signal, plugged, vrrIn, display>>

MatchesInput ==
    /\ started = display /\ g_tv_started = display
    /\ display /\ signal = "STABLE" => alsaloop /\ ~Shown
    /\ display /\ signal = "NOSIG" => ~alsaloop /\ Shown

ComesToMatch ==
    <>Rests => <>[](raced \/ g_headless_mode \/ amiss \ {"vrr"} # {} \/ MatchesInput)

\* The server's choice of the VRR mode stands: it is made after the
\* application's, for the callback is over by then, and follows the source, unless
\* the drivers did not answer or take it when the server last tried.
AutoVrrStands ==
    (/\ pc["poll"] = "idle" /\ raised = {} /\ started /\ pc["uevent"] = "idle"
     /\ VrrEnabled /\ vrr.en /\ stored = "STABLE" /\ "vrr" \notin amiss)
        => vrr.mode = IF vrrIn THEN 2 ELSE 1
=============================================================================
