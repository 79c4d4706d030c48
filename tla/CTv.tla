-------------------------------- MODULE CTv --------------------------------
(***************************************************************************)
(* The TV controller of tvserver: libtv/CTv.cpp with the parts of          *)
(* CTvin.cpp, CAmVideo.cpp and CTvAudio.cpp it calls.  Three threads act   *)
(* on one unlocked object:                                                 *)
(*   - the command thread: binder transactions, serialised by              *)
(*     tvservice_mutex (service/TvService.cpp), run StartTv, StopTv,       *)
(*     SetHeadlessMode and the parts of the HDMI settings that touch the   *)
(*     decoder or the display;                                             *)
(*   - the poll thread (CTvDevicesPollDetect) runs onVdinSignalChange;     *)
(*   - the message thread (CMsgQueueThread) runs isVideoFrameAvailable.    *)
(* A step is one ioctl, or reads and writes of fields that lie side by     *)
(* side with nothing slow between them.                                    *)
(* The vdin, amvideo and VFM drivers outlive the process: a killed server  *)
(* leaves their state behind and the next one finds it.                    *)
(***************************************************************************)
EXTENDS Integers

CONSTANTS
    Sources,          \* the inputs a client may start
    SOURCE_TV,        \* the analogue tuner, the one input with a snow screen
    SOURCE_INVALID,   \* mCurrentSource while no input runs
    ATVDisplaySnow,   \* [TV] atv_display_snow of the configuration file
    HdmiSources,      \* SOURCE_HDMI1 .. SOURCE_HDMI4
    Requests,         \* the commands besides StartTv and StopTv clients send
    DriverMayFail,    \* a vdin ioctl may fail for reasons of the driver's own
    MapMayFail,       \* /sys/class/vfm/map may refuse a write
    ServerMayDie,     \* SIGKILL or a crash of the process
    Shown,            \* the statuses the inputs show (bound: some of Detected)
    MaxMsgs           \* bound: the signal is left alone while this many
                      \* messages wait (the queue itself has no limit)

\* TVIN_SIG_STATUS_* of include/amlogic/tvin.h.
Detected == {"NOSIG", "UNSTABLE", "NOTSUP", "STABLE"}
Status   == {"NULL"} \union Detected

ASSUME ConstantsAssumption ==
    /\ SOURCE_INVALID \notin Sources
    /\ ATVDisplaySnow \in BOOLEAN
    /\ HdmiSources \subseteq Sources
    /\ Requests \subseteq {"headless", "edidVersion", "feature"}
    /\ DriverMayFail \in BOOLEAN
    /\ MapMayFail \in BOOLEAN
    /\ ServerMayDie \in BOOLEAN
    /\ Shown \subseteq Detected
    /\ MaxMsgs \in Nat \ {0}

VARIABLES
    \* drivers: they survive the process
    port,             \* the opened vdin port, or SOURCE_INVALID (DEC_OPENED)
    decStarted,       \* vdin0's VDIN_FLAG_DEC_STARTED
    sig,              \* the status the driver reports for the opened port
    event,            \* a vdin event waits for epoll
    layer,            \* amvideo: the video layer is enabled
    output,           \* amvideo: the global video output is enabled
    path,             \* the path "tvpath" of /sys/class/vfm/map
    \* fields of CTv, CTvin and CTvAudio
    up,               \* how far construction has come: see Phases
    mDecoderStarted,
    mCurrentSource,
    mStatus,          \* mCurrentSignalInfo.status
    mHeadlessMode,
    audioPatch,       \* the patch that patch_handle names is live
    msgs,             \* TV_MSG_ENABLE_VIDEO_LATER messages in the queue
    \* where each thread is
    cmdPc, cmdSource, pollPc, handler, msgPc,
    \* history: read by no guard
    sync,             \* what is known of mDecoderStarted against decStarted
    quiet,            \* no other actor has moved since the command began
    told,             \* the status in the last SignalDetect event sent, or
                      \* "missed" when nobody observed CTv
    pathKnown         \* the map held nothing else when the last path was added,
                      \* and took it

driverVars  == <<port, decStarted, sig, event>>
displayVars == <<layer, output>>
fieldVars   == <<mDecoderStarted, mCurrentSource, mStatus>>
pathVars    == <<path, pathKnown>>
modeVars    == <<up, mHeadlessMode, pathVars, audioPatch>>
cmdVars     == <<cmdPc, cmdSource>>
pollVars    == <<pollPc, handler>>
vars == <<driverVars, displayVars, fieldVars, modeVars, msgs, cmdVars,
          pollVars, msgPc, sync, quiet, told>>

(***************************************************************************)
(* Types                                                                   *)
(***************************************************************************)
\* down:       no process
\* noQueue:    the poll thread runs, mTvMsgQueue has no value yet
\* noObserver: TvService has yet to call setTvObserver
\* up:         TvService is published and takes commands
Phases == {"down", "noQueue", "noObserver", "up"}

CmdPcs == {"idle", "openPort", "setSource", "layerOff", "outputOff",
           "resetStop", "resetClose", "resetFlag", "stopCheck", "stopIoctl",
           "stopFlag", "closePort", "clear", "stopDone", "addPath",
           "restorePath", "edidCheck", "edidIoctl", "edidFlag"}
PollPcs == {"wait", "setInfo", "branch", "startCheck", "startIoctl",
            "startFlag", "startFail", "sendMsg", "layerOn", "layerOff",
            "stopCheck", "stopIoctl", "stopFlag", "sendEvent"}
Handlers == {"none", "stable", "unstable", "unsupport", "nosig", "snow"}

\* The type invariant: no thread is ever at a point, and no queue count or
\* status at a value, that the code has no line for.
TypeOK ==
    /\ port \in Sources \union {SOURCE_INVALID}
    /\ decStarted \in BOOLEAN
    /\ sig \in Status
    /\ event \in BOOLEAN
    /\ layer \in BOOLEAN
    /\ output \in BOOLEAN
    /\ up \in Phases
    /\ mDecoderStarted \in BOOLEAN
    /\ mCurrentSource \in Sources \union {SOURCE_INVALID}
    /\ mStatus \in Status
    /\ mHeadlessMode \in BOOLEAN
    /\ path \in {"none", "full", "capture"}
    /\ audioPatch \in BOOLEAN
    /\ msgs \in Nat
    /\ cmdPc \in CmdPcs
    /\ cmdSource \in Sources \union {SOURCE_INVALID}
    /\ pollPc \in PollPcs
    /\ handler \in Handlers
    /\ msgPc \in {"wait", "layerOn", "outputOn"}
    /\ sync \in {"unknown", "resetting", "clean"}
    /\ quiet \in BOOLEAN
    /\ told \in Status \union {"missed"}
    /\ pathKnown \in BOOLEAN

(***************************************************************************)
(* Sections in which a thread has looked at, or changed, one of            *)
(* mDecoderStarted and decStarted and has yet to bring the other along.    *)
(* No lock protects them.                                                  *)
(***************************************************************************)
PollSection == {"startIoctl", "startFlag", "startFail", "stopIoctl", "stopFlag"}
ResetSection == {"resetClose", "resetFlag"}
CmdSection == ResetSection \union {"stopIoctl", "stopFlag", "edidIoctl", "edidFlag"}

\* History: two overlapping sections, or a STOP_DEC the driver refused, leave
\* the two flags unrelated until a whole reset runs alone.
SyncAfter(p, c, s) ==
    IF p \in PollSection /\ c \in CmdSection THEN "unknown" ELSE s

\* Is a step of the driver, the poll or the message thread part of a command?
Disturb == quiet' = FALSE

(***************************************************************************)
(* The vdin driver, as the comments of Tvin_ForceResetDecoder describe it: *)
(* START_DEC is refused (EBUSY) while started, STOP_DEC (EPERM) while not. *)
(* Nothing tells what START_DEC does to a closed port, or OPEN to a port   *)
(* already open: both outcomes are possible.                               *)
(***************************************************************************)
StartDecResults ==
    IF decStarted THEN {FALSE}
    ELSE IF port # SOURCE_INVALID /\ ~DriverMayFail THEN {TRUE} ELSE BOOLEAN

StopDecResults ==
    IF ~decStarted THEN {FALSE}
    ELSE IF DriverMayFail THEN BOOLEAN ELSE {TRUE}

\* decStarted and the history after STOP_DEC; the callers ignore the result.
VDIN_StopDec(s) ==
    \E ok \in StopDecResults :
        /\ decStarted' = (decStarted /\ ~ok)
        /\ sync' = IF decStarted /\ ~ok THEN "unknown" ELSE s

\* A port just opened has no status yet.
VDIN_OpenPort(s) ==
    \/ port' = s /\ sig' = "NULL"
    \/ /\ port # SOURCE_INVALID \/ DriverMayFail
       /\ UNCHANGED <<port, sig>>

VDIN_ClosePort ==
    port' \in IF DriverMayFail THEN {port, SOURCE_INVALID} ELSE {SOURCE_INVALID}

(***************************************************************************)
(* The VFM map.  Nothing tells what an addition does to a path that is     *)
(* still there: it stays or is replaced.                                   *)
(***************************************************************************)
MapResults == IF MapMayFail THEN BOOLEAN ELSE {TRUE}

Tvin_AddVideoPath(p, ok) ==
    path' \in IF ~ok THEN {path} ELSE IF path = "none" THEN {p} ELSE {p, path}

\* The callers ignore that a removal was refused, fifty times over.
Tvin_RemoveVideoPath ==
    \E ok \in MapResults :
        /\ path' = IF ok THEN "none" ELSE path
        /\ pathKnown' = (path' = "none")

\* The constructor adds the full path, to whatever a dead server left, and
\* ignores the result.
AddFullPath ==
    \E ok \in MapResults :
        /\ Tvin_AddVideoPath("full", ok)
        /\ pathKnown' = (path = "full" \/ (path = "none" /\ ok))

(***************************************************************************)
(* Init: a server just constructed on a machine where nothing ran before.  *)
(* The constructor gives mCurrentSource no value.                          *)
(***************************************************************************)
Construct ==
    /\ mDecoderStarted' = FALSE
    /\ mCurrentSource' \in Sources \union {SOURCE_INVALID}
    /\ mStatus' = "NULL"
    /\ mHeadlessMode' = FALSE
    /\ audioPatch' = FALSE
    /\ msgs' = 0

Init ==
    /\ port = SOURCE_INVALID
    /\ decStarted = FALSE
    /\ sig = "NULL"
    /\ event = FALSE
    /\ layer = FALSE
    /\ output = FALSE
    /\ up = "noQueue"
    /\ mDecoderStarted = FALSE
    /\ mCurrentSource \in Sources \union {SOURCE_INVALID}
    /\ mStatus = "NULL"
    /\ mHeadlessMode = FALSE
    /\ pathKnown \in MapResults
    /\ path = IF pathKnown THEN "full" ELSE "none"
    /\ audioPatch = FALSE
    /\ msgs = 0
    /\ cmdPc = "idle"
    /\ cmdSource = SOURCE_INVALID
    /\ pollPc = "wait"
    /\ handler = "none"
    /\ msgPc = "wait"
    /\ sync = "clean"
    /\ quiet = FALSE
    /\ told = "NULL"

\* The constructor's last lines, with the poll thread already running, and
\* the observer TvService sets afterwards.
CreateMsgQueue ==
    /\ up = "noQueue"
    /\ up' = "noObserver"
    /\ UNCHANGED <<driverVars, displayVars, fieldVars, mHeadlessMode, pathVars,
                   audioPatch, msgs, cmdVars, pollVars, msgPc, sync, quiet, told>>

SetTvObserver ==
    /\ up = "noObserver"
    /\ up' = "up"
    /\ UNCHANGED <<driverVars, displayVars, fieldVars, mHeadlessMode, pathVars,
                   audioPatch, msgs, cmdVars, pollVars, msgPc, sync, quiet, told>>

(***************************************************************************)
(* The process dies: its threads, fields and queued messages are gone, the *)
(* drivers keep their state.                                               *)
(***************************************************************************)
Die ==
    /\ up' = "down"
    /\ cmdPc' = "idle"
    /\ cmdSource' = SOURCE_INVALID
    /\ pollPc' = "wait"
    /\ handler' = "none"
    /\ msgPc' = "wait"
    /\ sync' = "unknown"
    /\ quiet' = FALSE
    /\ pathKnown' = FALSE
    /\ Construct
    /\ UNCHANGED <<driverVars, displayVars, path, told>>

Kill ==
    /\ ServerMayDie
    /\ up # "down"
    /\ Die

Restart ==
    /\ up = "down"
    /\ up' = "noQueue"
    /\ AddFullPath
    /\ UNCHANGED <<driverVars, displayVars, fieldVars, mHeadlessMode, audioPatch, msgs,
                    cmdVars, pollVars, msgPc, sync, quiet, told>>

(***************************************************************************)
(* The command thread                                                      *)
(***************************************************************************)
Begin(to, s) ==
    /\ up = "up"
    /\ cmdPc = "idle"
    /\ cmdPc' = to
    /\ cmdSource' = s
    /\ quiet' = (pollPc = "wait" /\ ~event /\ msgPc = "wait" /\ msgs = 0)

CmdGoto(from, to) ==
    /\ up = "up"
    /\ cmdPc = from
    /\ cmdPc' = to
    /\ cmdSource' = IF to = "idle" THEN SOURCE_INVALID ELSE cmdSource
    /\ quiet' = (quiet /\ to # "idle")

StartTv(s) ==
    /\ Begin("openPort", s)
    /\ UNCHANGED <<driverVars, displayVars, fieldVars, modeVars, msgs, pollVars,
                   msgPc, sync, told>>

StartTvOpenPort ==
    /\ CmdGoto("openPort", "setSource")
    /\ VDIN_OpenPort(cmdSource)
    /\ UNCHANGED <<decStarted, event, displayVars, fieldVars, modeVars, msgs,
                   pollVars, msgPc, sync, told>>

\* The source is recorded and the patch made whether or not the port opened.
StartTvSetSource ==
    /\ CmdGoto("setSource", "idle")
    /\ mCurrentSource' = cmdSource
    /\ audioPatch' = TRUE
    /\ UNCHANGED <<driverVars, displayVars, mDecoderStarted, mStatus, up,
                   mHeadlessMode, pathVars, msgs, pollVars, msgPc, sync,
                   told>>

\* VDIN_ClosePort closes whatever is open: the source named does not matter.
StopTv ==
    /\ Begin(IF mHeadlessMode THEN "resetStop" ELSE "layerOff", SOURCE_INVALID)
    /\ audioPatch' = FALSE
    /\ UNCHANGED <<driverVars, displayVars, fieldVars, up, mHeadlessMode, pathVars,
                   msgs, pollVars, msgPc, sync, told>>

StopTvLayerOff ==
    /\ CmdGoto("layerOff", "outputOff")
    /\ layer' = FALSE
    /\ UNCHANGED <<driverVars, output, fieldVars, modeVars, msgs,
                   pollVars, msgPc, sync, told>>

StopTvOutputOff ==
    /\ CmdGoto("outputOff", "resetStop")
    /\ output' = FALSE
    /\ UNCHANGED <<driverVars, layer, fieldVars, modeVars, msgs,
                   pollVars, msgPc, sync, told>>

\* Mutant: the reset trusts mDecoderStarted, as Tvin_StopDecoder does.
ForceResetStopIfFlagged ==
    /\ CmdGoto("resetStop", "resetClose")
    /\ IF mDecoderStarted THEN VDIN_StopDec(SyncAfter(pollPc, cmdPc', "resetting"))
       ELSE sync' = "resetting" /\ UNCHANGED decStarted
    /\ UNCHANGED <<port, sig, event, displayVars, fieldVars, modeVars, msgs,
                   pollVars, msgPc, told>>

\* Tvin_ForceResetDecoder: STOP_DEC, CLOSE and the flag, errors ignored.
ForceResetStop ==
    /\ CmdGoto("resetStop", "resetClose")
    /\ VDIN_StopDec(SyncAfter(pollPc, cmdPc', "resetting"))
    /\ UNCHANGED <<port, sig, event, displayVars, fieldVars, modeVars, msgs,
                   pollVars, msgPc, told>>

ForceResetClose ==
    /\ CmdGoto("resetClose", "resetFlag")
    /\ VDIN_ClosePort
    /\ UNCHANGED <<decStarted, sig, event, displayVars, fieldVars, modeVars, msgs,
                   pollVars, msgPc, sync, told>>

ForceResetFlag ==
    /\ CmdGoto("resetFlag", "stopCheck")
    /\ mDecoderStarted' = FALSE
    /\ sync' = IF sync = "resetting" THEN "clean" ELSE sync
    /\ UNCHANGED <<driverVars, displayVars, mCurrentSource, mStatus, modeVars,
                   msgs, pollVars, msgPc, told>>

\* Tvin_StopDecoder on the command thread: the flag is tested, the ioctl is
\* issued and the flag is cleared, in three steps.
StopDecoderCheck(from, ioctl, after) ==
    /\ CmdGoto(from, IF mDecoderStarted THEN ioctl ELSE after)
    /\ sync' = SyncAfter(pollPc, cmdPc', sync)
    /\ UNCHANGED <<driverVars, displayVars, fieldVars, modeVars, msgs,
                   pollVars, msgPc, told>>

StopDecoderIoctl(from, flag) ==
    /\ CmdGoto(from, flag)
    /\ VDIN_StopDec(SyncAfter(pollPc, cmdPc', sync))
    /\ UNCHANGED <<port, sig, event, displayVars, fieldVars, modeVars, msgs,
                   pollVars, msgPc, told>>

StopDecoderFlag(from, after) ==
    /\ CmdGoto(from, after)
    /\ mDecoderStarted' = FALSE
    /\ UNCHANGED <<driverVars, displayVars, mCurrentSource, mStatus, modeVars,
                   msgs, pollVars, msgPc, sync, told>>

StopTvStopCheck == StopDecoderCheck("stopCheck", "stopIoctl", "closePort")
StopTvStopIoctl == StopDecoderIoctl("stopIoctl", "stopFlag")
StopTvStopFlag  == StopDecoderFlag("stopFlag", "closePort")

StopTvClosePort ==
    /\ CmdGoto("closePort", "clear")
    /\ VDIN_ClosePort
    /\ UNCHANGED <<decStarted, sig, event, displayVars, fieldVars, modeVars, msgs,
                   pollVars, msgPc, sync, told>>

StopTvClear ==
    /\ CmdGoto("clear", "stopDone")
    /\ mCurrentSource' = SOURCE_INVALID
    /\ mStatus' = "NULL"
    /\ UNCHANGED <<driverVars, displayVars, mDecoderStarted, modeVars, msgs,
                   pollVars, msgPc, sync, told>>

StopTvReturn ==
    /\ CmdGoto("stopDone", "idle")
    /\ UNCHANGED <<driverVars, displayVars, fieldVars, modeVars, msgs,
                   pollVars, msgPc, sync, told>>

\* SetHeadlessMode: the flag changes first, the path after it.
SetHeadlessMode(headless) ==
    /\ headless # mHeadlessMode
    /\ Begin("addPath", SOURCE_INVALID)
    /\ mHeadlessMode' = headless
    /\ Tvin_RemoveVideoPath
    /\ UNCHANGED <<driverVars, displayVars, fieldVars, up, audioPatch, msgs,
                   pollVars, msgPc, sync, told>>

\* The capture-only path needs /dev/video_cap too.
ModePathResults == IF mHeadlessMode THEN BOOLEAN ELSE MapResults

\* Mutant: the failure leaves the flag set.
SetHeadlessModeKeepsFlag ==
    /\ \E ok \in ModePathResults :
          /\ CmdGoto("addPath", IF mHeadlessMode /\ ~ok THEN "restorePath" ELSE "idle")
          /\ Tvin_AddVideoPath(IF mHeadlessMode THEN "capture" ELSE "full", ok)
          /\ pathKnown' = (pathKnown /\ (ok \/ mHeadlessMode))
    /\ UNCHANGED <<driverVars, displayVars, fieldVars, up, mHeadlessMode, audioPatch,
                   msgs, pollVars, msgPc, sync, told>>

\* Only a refused capture path is noticed: the mode is given up.
SetHeadlessModeAddPath ==
    /\ \E ok \in ModePathResults :
          /\ CmdGoto("addPath", IF mHeadlessMode /\ ~ok THEN "restorePath" ELSE "idle")
          /\ Tvin_AddVideoPath(IF mHeadlessMode THEN "capture" ELSE "full", ok)
          /\ mHeadlessMode' = (mHeadlessMode /\ ok)
          /\ pathKnown' = (pathKnown /\ (ok \/ mHeadlessMode))
    /\ UNCHANGED <<driverVars, displayVars, fieldVars, up, audioPatch, msgs,
                   pollVars, msgPc, sync, told>>

SetHeadlessModeRestorePath ==
    /\ CmdGoto("restorePath", "idle")
    /\ \E ok \in MapResults :
          /\ Tvin_AddVideoPath("full", ok)
          /\ pathKnown' = (pathKnown /\ ok)
    /\ UNCHANGED <<driverVars, displayVars, fieldVars, up, mHeadlessMode, audioPatch,
                   msgs, pollVars, msgPc, sync, told>>

\* SetEdidVersion to a version the port does not have: the decoder is stopped
\* whatever input runs.  The versions themselves are in HdmiFeatures.
SetEdidVersion ==
    /\ Begin("edidCheck", SOURCE_INVALID)
    /\ UNCHANGED <<driverVars, displayVars, fieldVars, modeVars, msgs, pollVars,
                   msgPc, sync, told>>

EdidStopCheck == StopDecoderCheck("edidCheck", "edidIoctl", "idle")
EdidStopIoctl == StopDecoderIoctl("edidIoctl", "edidFlag")
EdidStopFlag  == StopDecoderFlag("edidFlag", "idle")

\* SetHdmiAllmEnabled and SetHdmiVrrEnabled darken a running HDMI input.
muteVideoOnHDMISource ==
    /\ up = "up"
    /\ cmdPc = "idle"
    /\ ~mHeadlessMode
    /\ mCurrentSource \in HdmiSources
    /\ layer' = FALSE
    /\ UNCHANGED <<driverVars, output, fieldVars, modeVars, msgs, cmdVars,
                   pollVars, msgPc, sync, quiet, told>>

CmdStep ==
    \/ StartTvOpenPort \/ StartTvSetSource
    \/ StopTvLayerOff \/ StopTvOutputOff
    \/ ForceResetStop \/ ForceResetClose \/ ForceResetFlag
    \/ StopTvStopCheck \/ StopTvStopIoctl \/ StopTvStopFlag
    \/ StopTvClosePort \/ StopTvClear \/ StopTvReturn
    \/ SetHeadlessModeAddPath \/ SetHeadlessModeRestorePath
    \/ EdidStopCheck \/ EdidStopIoctl \/ EdidStopFlag

Command ==
    \/ \E s \in Sources : StartTv(s)
    \/ StopTv
    \/ "headless" \in Requests /\ \E h \in BOOLEAN : SetHeadlessMode(h)
    \/ "edidVersion" \in Requests /\ SetEdidVersion
    \/ "feature" \in Requests /\ muteVideoOnHDMISource

(***************************************************************************)
(* The poll thread: onVdinSignalChange for TVIN_SIG_CHG_STS                *)
(***************************************************************************)
PollGoto(from, to) ==
    /\ up # "down"
    /\ pollPc = from
    /\ pollPc' = to
    /\ handler' = IF to = "wait" THEN "none" ELSE handler
    /\ Disturb

\* Mutant: the event is acknowledged only when it has been handled.
PollSendEventThenAck ==
    /\ PollGoto("sendEvent", "wait")
    /\ told' = IF up = "up" THEN mStatus ELSE "missed"
    /\ event' = FALSE
    /\ UNCHANGED <<port, decStarted, sig, displayVars, fieldVars, modeVars, msgs,
                   cmdVars, msgPc, sync>>

\* epoll_wait returns and the event is read.
PollTakeEvent ==
    /\ event
    /\ PollGoto("wait", "setInfo")
    /\ event' = FALSE
    /\ UNCHANGED <<port, decStarted, sig, displayVars, fieldVars, modeVars, msgs,
                   cmdVars, msgPc, sync, told>>

\* Tvin_GetSignalInfo and SetCurrenSourceInfo, or the ioctl fails.
PollSetInfo ==
    /\ \/ /\ PollGoto("setInfo", "branch")
          /\ mStatus' = sig
       \/ /\ DriverMayFail
          /\ PollGoto("setInfo", "wait")
          /\ UNCHANGED mStatus
    /\ UNCHANGED <<driverVars, displayVars, mDecoderStarted, mCurrentSource,
                   modeVars, msgs, cmdVars, msgPc, sync, told>>

\* The stored status is read again: StopTv may have cleared it meanwhile.
HandlerFor ==
    CASE mStatus = "STABLE"   -> "stable"
      [] mStatus = "UNSTABLE" -> "unstable"
      [] mStatus = "NOTSUP"   -> "unsupport"
      [] mStatus = "NOSIG"    ->
            IF ~mHeadlessMode /\ mCurrentSource = SOURCE_TV /\ ATVDisplaySnow
            THEN "snow" ELSE "nosig"
      [] OTHER                -> "none"

PollBranch ==
    /\ up # "down"
    /\ pollPc = "branch"
    /\ pollPc' =
           CASE HandlerFor \in {"stable", "snow"} -> "startCheck"
             [] HandlerFor = "none"               -> "wait"
             [] OTHER -> IF mHeadlessMode THEN "stopCheck" ELSE "layerOff"
    /\ handler' = HandlerFor
    /\ Disturb
    /\ UNCHANGED <<driverVars, displayVars, fieldVars, modeVars, msgs, cmdVars,
                   msgPc, sync, told>>

\* Where a handler goes on when Tvin_StartDecoder has returned.
AfterStart == IF handler = "snow" THEN "layerOn" ELSE "sendMsg"

\* Mutant: the flag is not tested.
PollStartUnchecked ==
    /\ PollGoto("startCheck", "startIoctl")
    /\ sync' = SyncAfter(pollPc', cmdPc, sync)
    /\ UNCHANGED <<driverVars, displayVars, fieldVars, modeVars, msgs, cmdVars,
                   msgPc, told>>

\* Tvin_StartDecoder, in three steps as Tvin_StopDecoder.
PollStartCheck ==
    /\ PollGoto("startCheck", IF mDecoderStarted THEN AfterStart ELSE "startIoctl")
    /\ sync' = SyncAfter(pollPc', cmdPc, sync)
    /\ UNCHANGED <<driverVars, displayVars, fieldVars, modeVars, msgs, cmdVars,
                   msgPc, told>>

PollStartIoctl ==
    /\ \E ok \in StartDecResults :
          /\ PollGoto("startIoctl", IF ok THEN "startFlag" ELSE "startFail")
          /\ decStarted' = (decStarted \/ ok)
    /\ UNCHANGED <<port, sig, event, displayVars, fieldVars, modeVars, msgs,
                   cmdVars, msgPc, sync, told>>

\* Mutant: the flag is set whatever the ioctl returned.
PollStartFlagAlways ==
    /\ PollGoto("startFlag", AfterStart) \/ PollGoto("startFail", AfterStart)
    /\ mDecoderStarted' = TRUE
    /\ UNCHANGED <<driverVars, displayVars, mCurrentSource, mStatus, modeVars,
                   msgs, cmdVars, msgPc, sync, told>>

PollStartFlag ==
    /\ \/ /\ PollGoto("startFlag", AfterStart)
          /\ mDecoderStarted' = TRUE
       \/ /\ PollGoto("startFail", AfterStart)
          /\ mDecoderStarted' = FALSE
    /\ UNCHANGED <<driverVars, displayVars, mCurrentSource, mStatus, modeVars,
                   msgs, cmdVars, msgPc, sync, told>>

\* onSigToStable queues the late enable.
PollSendMsg ==
    /\ PollGoto("sendMsg", "sendEvent")
    /\ up # "noQueue" \/ mHeadlessMode
    /\ msgs' = IF mHeadlessMode THEN msgs ELSE msgs + 1
    /\ UNCHANGED <<driverVars, displayVars, fieldVars, modeVars, cmdVars,
                   msgPc, sync, told>>

\* A call through the pointer before the constructor sets it ends the process.
PollSendMsgUnset ==
    /\ up = "noQueue"
    /\ pollPc = "sendMsg"
    /\ ~mHeadlessMode
    /\ Die

\* onSigToNoSig showing snow.
PollLayerOn ==
    /\ PollGoto("layerOn", "sendEvent")
    /\ layer' = TRUE
    /\ UNCHANGED <<driverVars, output, fieldVars, modeVars, msgs, cmdVars,
                   msgPc, sync, told>>

\* onSigToUnstable, onSigToUnSupport, onSigToNoSig.
PollLayerOff ==
    /\ PollGoto("layerOff", "stopCheck")
    /\ layer' = FALSE
    /\ UNCHANGED <<driverVars, output, fieldVars, modeVars, msgs, cmdVars,
                   msgPc, sync, told>>

\* Mutant: onSigToUnSupport sends no event either.
AfterStopSilent == IF handler \in {"unstable", "unsupport"} THEN "wait" ELSE "sendEvent"

\* onSigToUnstable sends no event.
AfterStop == IF handler = "unstable" THEN "wait" ELSE "sendEvent"

PollStopCheck ==
    /\ PollGoto("stopCheck", IF mDecoderStarted THEN "stopIoctl" ELSE AfterStop)
    /\ sync' = SyncAfter(pollPc', cmdPc, sync)
    /\ UNCHANGED <<driverVars, displayVars, fieldVars, modeVars, msgs, cmdVars,
                   msgPc, told>>

PollStopIoctl ==
    /\ PollGoto("stopIoctl", "stopFlag")
    /\ VDIN_StopDec(SyncAfter(pollPc', cmdPc, sync))
    /\ UNCHANGED <<port, sig, event, displayVars, fieldVars, modeVars, msgs,
                   cmdVars, msgPc, told>>

PollStopFlag ==
    /\ PollGoto("stopFlag", AfterStop)
    /\ mDecoderStarted' = FALSE
    /\ UNCHANGED <<driverVars, displayVars, mCurrentSource, mStatus, modeVars,
                   msgs, cmdVars, msgPc, sync, told>>

\* sendTvEvent: the event carries the status stored at this moment.
PollSendEvent ==
    /\ PollGoto("sendEvent", "wait")
    /\ told' = IF up = "up" THEN mStatus ELSE "missed"
    /\ UNCHANGED <<driverVars, displayVars, fieldVars, modeVars, msgs, cmdVars,
                   msgPc, sync>>

PollStep ==
    \/ PollTakeEvent \/ PollSetInfo \/ PollBranch
    \/ PollStartCheck \/ PollStartIoctl \/ PollStartFlag
    \/ PollSendMsg \/ PollSendMsgUnset \/ PollLayerOn \/ PollLayerOff
    \/ PollStopCheck \/ PollStopIoctl \/ PollStopFlag \/ PollSendEvent

(***************************************************************************)
(* The message thread: isVideoFrameAvailable.  After five frames or the    *)
(* timeout, whichever comes first, it enables the layer and the output.    *)
(***************************************************************************)
MsgGoto(from, to) ==
    /\ up \in {"noObserver", "up"}
    /\ msgPc = from
    /\ msgPc' = to
    /\ Disturb

\* Mutant: a wake-up is taken for a message.
MsgTakeUnchecked ==
    /\ MsgGoto("wait", IF mHeadlessMode THEN "wait" ELSE "layerOn")
    /\ msgs' = msgs - 1
    /\ UNCHANGED <<driverVars, displayVars, fieldVars, modeVars, cmdVars, pollVars,
                   sync, told>>

\* Mutant: the timeout returns instead of leaving the loop.
MsgTakeTimesOut ==
    /\ msgs > 0
    /\ MsgGoto("wait", "wait") \/ MsgGoto("wait", IF mHeadlessMode THEN "wait" ELSE "layerOn")
    /\ msgs' = msgs - 1
    /\ UNCHANGED <<driverVars, displayVars, fieldVars, modeVars, cmdVars, pollVars,
                   sync, told>>

MsgTake ==
    /\ msgs > 0
    /\ MsgGoto("wait", IF mHeadlessMode THEN "wait" ELSE "layerOn")
    /\ msgs' = msgs - 1
    /\ UNCHANGED <<driverVars, displayVars, fieldVars, modeVars, cmdVars, pollVars,
                   sync, told>>

MsgLayerOn ==
    /\ MsgGoto("layerOn", "outputOn")
    /\ layer' = TRUE
    /\ UNCHANGED <<driverVars, output, fieldVars, modeVars, msgs, cmdVars, pollVars,
                   sync, told>>

MsgOutputOn ==
    /\ MsgGoto("outputOn", "wait")
    /\ output' = TRUE
    /\ UNCHANGED <<driverVars, layer, fieldVars, modeVars, msgs, cmdVars, pollVars,
                   sync, told>>

MsgStep == MsgTake \/ MsgLayerOn \/ MsgOutputOn

(***************************************************************************)
(* The signal on the opened port changes and the driver raises an event.   *)
(***************************************************************************)
SignalChange ==
    /\ port # SOURCE_INVALID
    /\ msgs < MaxMsgs
    /\ \E s \in Shown \ {sig} : sig' = s
    /\ event' = TRUE
    /\ Disturb
    /\ UNCHANGED <<port, decStarted, displayVars, fieldVars, modeVars, msgs,
                   cmdVars, pollVars, msgPc, sync, told>>

Next ==
    \/ CreateMsgQueue \/ SetTvObserver \/ Kill \/ Restart
    \/ Command \/ CmdStep \/ PollStep \/ MsgStep
    \/ SignalChange

Spec == Init /\ [][Next]_vars

\* The kernel runs a runnable thread; clients, signals, kills and restarts
\* come when they please.
Fairness ==
    /\ WF_vars(CreateMsgQueue)
    /\ WF_vars(SetTvObserver)
    /\ WF_vars(CmdStep)
    /\ WF_vars(PollStep)
    /\ WF_vars(MsgStep)

FairSpec == Spec /\ Fairness

(***************************************************************************)
(* Safety                                                                  *)
(***************************************************************************)
\* While no thread is between its test of mDecoderStarted and its last write,
\* the flag says what the driver's flag says, whatever the order of signal
\* changes, starts and stops and whatever the driver refuses.  Only two
\* overlapping sections, a refused STOP_DEC or a new process break the tie,
\* and one StopTv that runs alone mends it (Tvin_StartDecoder,
\* Tvin_StopDecoder and Tvin_ForceResetDecoder share the flag with no lock).
DecoderAgreement ==
    sync = "clean" /\ pollPc \notin PollSection /\ cmdPc \notin CmdSection
        => mDecoderStarted = decStarted

\* With the flags tied, START_DEC never meets EBUSY: Tvin_StartDecoder issues
\* it only when the driver has not started.
StartNeverBusy ==
    sync = "clean" /\ pollPc = "startIoctl" => ~decStarted

\* A StopTv that nothing disturbed undoes all that a start did, whichever
\* process did it: a server started after a SIGKILL stops the decoder, closes
\* the port and darkens the display its predecessor left behind.
StopTvComplete ==
    cmdPc = "stopDone" /\ quiet =>
        /\ ~mDecoderStarted /\ ~audioPatch
        /\ mCurrentSource = SOURCE_INVALID /\ mStatus = "NULL"
        /\ ~DriverMayFail => port = SOURCE_INVALID /\ ~decStarted
        /\ ~mHeadlessMode => ~layer /\ ~output

\* The VFM path fits the mode once SetHeadlessMode has returned, also when the
\* capture-only path could not be added and the mode was given up, and when the
\* server before died between the removal and the addition.  Three things may
\* part them, for the code looks at no other result: a full path the kernel
\* refuses, a path it does not let go, and the capture-only path of a dead
\* server, which the next one adds its own to.  The next switch whose writes are
\* taken brings them together again.
HeadlessPathConsistent ==
    cmdPc = "idle" /\ pathKnown => path = IF mHeadlessMode THEN "capture" ELSE "full"

\* Between two events the last status sent to the clients is the status CTv
\* holds, although StopTv rewrites it at any point of a handler; a status
\* handled before TvService became the observer is missed.
ToldMatchesStatus ==
    pollPc = "wait" /\ mStatus \in Detected \ {"UNSTABLE"}
        => told \in {mStatus, "missed"}

(***************************************************************************)
(* Liveness                                                                *)
(***************************************************************************)
Calm(s) ==
    /\ up = "up" /\ cmdPc = "idle" /\ ~mHeadlessMode
    /\ port # SOURCE_INVALID /\ port = mCurrentSource
    /\ sig = s

\* Once a started input keeps a stable signal and no command comes, the
\* picture is shown for good: decoder, layer and output, with the late enable
\* still to pass through the message thread.  (Where the two decoder flags
\* were torn apart only the display is promised.)
StableShown ==
    <>[]Calm("STABLE") => <>[](layer /\ output /\ (sync = "clean" => decStarted))

\* The last status a calm input takes is the one CTv stores and the one its
\* clients were told, however fast the statuses before it came and went and
\* whatever StopTv wiped meanwhile: no change is lost.  (Nobody is told of
\* UNSTABLE.)
StatusSettles ==
    \A s \in Detected \ {"UNSTABLE"} :
        <>[]Calm(s) => <>[](mStatus = s /\ told = s)
=============================================================================
