# TLA+ models of tvserver and its clients

This project models the Amlogic TV server for StreamBox
devices: `tvserver` (`src/service`, `src/libtv`) and what its clients see of it
(`src/client`, `src/test`). The modules state what the code must keep true
while its threads interleave, the process is killed, drivers refuse calls and
displays are exchanged. TLC checks them on small instances and TLAPS proves the
most important safety properties for every instance.

## 1. The system

| Component | State it keeps | Operations | Talks to |
|---|---|---|---|
| **CTv** (`libtv/CTv.cpp`, `CTvin.cpp`, `CAmVideo.cpp`, `CTvAudio.cpp`) | `mDecoderStarted`, `mCurrentSource`, `mCurrentSignalInfo`, `mHeadlessMode`, audio patch | StartTv, StopTv, SetHeadlessMode, EDID and feature settings, onVdinSignalChange and its handlers, isVideoFrameAvailable | vdin and amvideo drivers (ioctl), TvService (observer) |
| **CTvDevicesPollDetect** (`libtv/CTvDevicesPollDetect.cpp`) | last AV and HDMI plug status | one epoll thread: plug changes, vdin events | CTv (callbacks on the poll thread) |
| **CMsgQueue** (`libtv/tvutils/CMsgQueue.cpp`) | messages ordered by due time | sendMsg, removeMsg, clearMsg, stop, one thread | CTv::handleMessage |
| **HDMI receiver settings** (`CTv.cpp`, `CHDMIRxManager.cpp`, `tvutils.cpp`) | two u-boot variables, the driver's EDID versions and feature switches | LoadEdidData, SetEdidVersion, SetHdmiAllmEnabled, SetHdmiVrrEnabled, SetEdidBoostOn | hdmirx driver (sysfs, ioctl), ubootenv |
| **Automatic VRR** (`CTv.cpp`) | VRR sysfs switches | CheckAndApplyAutoVrr, SetForceVrrFrameLock | vdin, HDMI TX |
| **EDID patching** (`CHDMIRxManager.cpp`) | the buffers of one load | PatchEdidFor120Hz, PatchEdidMonitorName, FilterEdidByTxCapabilities, PassthroughEdidFromTxToRx | EDID files, HDMI TX, hdmirx driver |
| **Configuration file reader** (`tvutils/ConfigFile.cpp`, `CTvin.cpp`) | the lines of one file | GetString, the map from sources to ports | CTvDevicesPollDetect, CTv |
| **TvService** (`service/TvService.cpp`) | map from cookies to client binders, `tvservice_mutex` | ParserTvCommand, HandleDataRequest, Set/RemoveTvServiceCallBack, SendSignalFor... | clients (binder), CTv |
| **TvClient** (`client/`) | service proxy, observers, cookie | SendMethodCall, observers, reconnect on binder death | TvService, applications |
| **streambox-tv** (`test/streambox-tv.c`) | no-signal screen, alsaloop pid, TX mode | event callback, hotplug thread, start/stop processing | TvClient, HDMI TX, configuration |
| **Configuration** (`test/config.c`) | current and previous configuration | load, reload (watcher thread, SIGHUP), callbacks | streambox-tv, Cockpit plugin |
| **Cockpit plugin** (`doc/cockpit`) | none | rewrites the configuration file, sends SIGHUP | Configuration |

Three threads work on one CTv object without a lock of its own. Binder threads
bring commands, which `tvservice_mutex` serialises. The poll thread runs the
signal handlers. The message thread enables the display some time after a
signal became stable. Events go back from the poll thread to the clients by
synchronous binder calls, through a registry that binder threads change at the
same time. The drivers outlive the process: whatever a killed server left there
is what its successor finds.

### What is hard here

`PROJECT.json` lists each hazard at its line. In short:

- the decoder flag `mDecoderStarted` mirrors a flag of the driver, and two
  threads test it, call the driver and write it in separate steps;
- a killed process leaves driver state that the fields of the next one contradict;
- handlers re-read the stored status after slow calls, while StopTv clears it;
- the late enable is handled by a thread that does not know what happened since;
- the client registry is walked by index although it is a map with gaps;
- the service waits for each client it sends an event to, and a client may be
  waiting for the service, for its own lock or for one of its own threads;
- the client library destroys its object when the service dies, while another
  thread may be making the next one, and the wrappers point to the old one;
- a plug is known from events that compare words and from questions that read
  the driver on another thread, and an answer may arrive after a younger event;
- EDID blocks are changed in place: every length and offset has to follow;
- the application and the server write the same VRR switch, and the server
  writes it when the application's callback has returned;
- the u-boot environment and the driver are two copies of one setting, and
  writes to either may be refused, mostly without anybody looking at the result,
  or be cut off by a crash;
- the VFM path is the kernel's: a killed server leaves one behind, and the next
  adds its own without removing it;
- every save of the configuration is reloaded by two threads, and the callback
  compares globals that the other thread may overwrite.

### What makes each component correct

- **CTv**: the decoder flags agree; no START_DEC on a started decoder; StopTv undoes
  everything; the VFM path fits the headless mode; a stable signal is shown in the
  end; clients know the stored status.
- **TvService**: a cookie has one owner; an event reaches everybody once, and
  nobody who left.
- **HDMI settings**: what was acknowledged is what the port shows, over
  restarts; no feature is advertised that the user or the display rules out.
- **EDID patching**: blocks stay valid; what is offered is what file and display
  have in common, and nothing else is lost.
- **Inputs**: a source sits on the port its configuration names; events and
  answers agree about plugs once things are at rest.
- **Command parsing**: a call becomes the operation it is there for, with its
  own arguments, and its result comes back to it.
- **TvClient**: every wrapper hears every event, no thread meets a freed object
  after the set-up, the process registers again when the service comes back.
- **CMsgQueue**: messages are handled once, in due order, and none is left.
- **Configuration**: the last file written is the configuration used, and what
  runs (alsaloop, VRR mode, game mode) follows it.
- **streambox-tv**: the screen is drawn as last requested, by one thread; events
  are answered; screen, audio and the started input come to match the input
  and the display.

## 2. The modules

| Module | Models | Used by |
|---|---|---|
| `CTv` | the controller with its three threads and the vdin and amvideo drivers | runs `ctv_*` |
| `CTv_proofs` | TLAPS proofs about `CTv` | |
| `EventBus` | what a client may rely on: an abstract notification service | `TvService` |
| `TvService` | the callback registry and the event walks | run `tvservice` |
| `TvService_proofs` | TLAPS proofs about `TvService` | |
| `HdmiFeatures` | EDID versions, ALLM and VRR: environment, driver, display, crashes | runs `hdmi_*` |
| `Config` | the configuration file, its writers, the two reloads, OnConfigChange | runs `config*` |
| `Config_proofs` | TLAPS proofs about `Config` | |
| `Commands`, `MCCommands` | a call from its text to its result: client library, transaction, parsers, reply | run `commands` |
| `Commands_proofs` | TLAPS proofs about `Commands` | |
| `TvClient` | the client library in one process: instance, observers, events, death of the service | run `client` |
| `TvClient_proofs` | TLAPS proofs about `TvClient` | |
| `Inputs`, `MCInputs` | configuration file, source-port map, plug events, plug questions | run `inputs` |
| `Inputs_proofs` | TLAPS proofs about `Inputs` | |
| `Edid`, `MCEdid` | patching, naming and filtering of the EDID, byte by byte | run `edid` |
| `HdmiRx_proofs` | TLAPS proofs about `HdmiFeatures` and `Edid` | |
| `StreamboxTv` | the application composed with the part of the server it works against | run `streambox` |
| `StreamboxTv_proofs` | TLAPS proofs about `StreamboxTv` | |

Who composes what: `TvService` is checked against `EventBus`; `StreamboxTv` puts
the application's threads next to the server's poll thread, plug detection and
automatic VRR; `Commands` puts the two ends of one call together. The server's
own detail (`CTv`), the registry (`TvService`) and the library's objects
(`TvClient`) are checked each against what the others promise, for their
product is out of TLC's reach.

### CTv

Variables carry the names of the fields where there is one. Three program
counters (`cmdPc`, `pollPc`, `msgPc`) say which line of which function each
thread has reached. A step is one ioctl, or reads and writes of fields that lie
side by side. `Tvin_StartDecoder` and `Tvin_StopDecoder` take three steps each
(test the flag, call the driver, write the flag), because that is where two
threads meet. `Tvin_ForceResetDecoder` takes three as well.

| Code | Actions |
|---|---|
| `StartTv` | `StartTv`, `StartTvOpenPort`, `StartTvSetSource` |
| `StopTv` | `StopTv`, `StopTvLayerOff`, `StopTvOutputOff`, `ForceReset...`, `StopTvStop...`, `StopTvClosePort`, `StopTvClear`, `StopTvReturn` |
| `SetHeadlessMode` | `SetHeadlessMode`, `SetHeadlessModeAddPath`, `SetHeadlessModeRestorePath` |
| `SetEdidVersion` (its effect on the decoder) | `SetEdidVersion`, `EdidStop...` |
| `SetHdmi...Enabled` (its effect on the display) | `muteVideoOnHDMISource` |
| poll thread, `onSigStatusChange` | `PollTakeEvent`, `PollSetInfo`, `PollBranch` |
| `onSigToStable` | `PollStart...`, `PollSendMsg`, `PollSendEvent` |
| `onSigToUnstable`, `onSigToUnSupport`, `onSigToNoSig` | `PollLayerOff`, `PollStop...`, `PollSendEvent` |
| `onSigToNoSig` with snow | `PollStart...`, `PollLayerOn`, `PollSendEvent` |
| `isVideoFrameAvailable` | `MsgTake`, `MsgLayerOn`, `MsgOutputOn` |
| constructor, observer, death, restart | `Init`, `CreateMsgQueue`, `SetTvObserver`, `Kill`, `Restart` |

The VFM path (`/sys/class/vfm/map`) is the kernel's: `path` outlives the
process. The constructor adds the full path to whatever it finds and ignores the
result (`AddFullPath`); `SetHeadlessMode` removes, up to fifty times, and adds,
and only a refused capture path changes what it does. With `MapMayFail` any of
these writes may be refused. Nothing in the repository says what an addition does
to a path that is still there, so it stays or is replaced (`Tvin_AddVideoPath`).
`pathKnown`, history, says that the last path was added to an empty map, or the
full one to itself, and no write since was refused but that of a capture path.

The `VDIN_...` operators and `...Results` are the driver, as the comments of
`Tvin_ForceResetDecoder` describe it; where nothing describes it, both outcomes
are possible. Three more history variables are read by no guard: `sync` (what is
known about the two decoder flags), `quiet` (no other actor has moved during
the command) and `told` (the last status sent to the clients).

The constructor starts the poll thread before it creates the message queue and
before TvService becomes the observer. Both gaps are in the model: a stable
signal in the first ends the process (`PollSendMsgUnset`), an event in the
second is "missed".

### TvService and EventBus

A step is one access to `mTvServiceCallBack`. `operator[]` inserts a NULL entry
when it finds none (`Touched`), `size()` is read before the loop, and the entry
is looked up twice, for the NULL test and for the call (`SendSignalCheck`,
`SendSignalTransact`; an erase between the two is `SendSignalCrash`). SignalDetect
and SourceConnect skip a NULL entry, ALLM and VRR return on it (`Kinds`).
Concurrent accesses to a `std::map` are undefined behaviour; the model takes
each access as atomic and says nothing about a corrupted tree.

`EventBus` is the abstract specification: members, and how often the current
event has reached each of them. `BusSpec` says TvService implements it.

### HdmiFeatures

The two u-boot variables and the driver's copies are separate, and every write
to one of them is a step. `saved` says which variables exist. EDID versions are
kept per port, features as a set. Every write of the environment may be refused
(`EnvMayFail`, `Refused`), and the code goes on as if it had not been: the driver
gets the feature, the client its acknowledgement. Every write of the driver may
fail (`DriverMayFail`), for each feature by itself (`Taken`). History says what a
refusal leaves behind: `unsaved` the ports whose version is in the driver only,
`apart` the features whose last driver write was refused, `gated` those the
present display was asked about. A build without ubootenv (`Ubootenv = FALSE`,
the Makefile's default through `DISABLE_UBOOTENV`) finds and writes no variable.
`LoadsEdid` holds what the configuration file may say when a process starts;
with more than one value it may change between two processes.

### Config

`files` holds the texts of the inodes the path has named, so that a replaced
file (`Replace`) leaves the old inode to whoever has it open or watches it. The
plugin's save is `save_config` (truncate), `SaveClose` (write and close) and
`reload_service` (SIGHUP). Writing and closing are one step: between them the
text is the same, and the two events still stand in the queue one by one. The
watcher is `WatchRead` and `WatchEvent`, the handler `config_sighup_handler`;
both enter `config_reload`, whose locals are in `frame`:

| Code | Actions |
|---|---|
| `read_file_contents`: size, then text | `ReadSize`, `ReadText` |
| `config_parse_json` | `ReadText` |
| the two copies under the mutex | `SavePrev`, `CopyNew` |
| `OnConfigChange`: audio | `StopAudioPassthrough`, `StartAudioPassthrough` |
| `OnConfigChange`: video | `ApplyVrrMode`, `SetGameMode` |

A configuration is its audio section, `vrr_mode` and `game_mode`; HDMI source,
HDCP and debug have no action in `OnConfigChange`. `Length` is there because a
text that grows between the two reads is cut off and does not parse. The history
variable `overlap` records that a reload began to copy during another's
callback, `skipped` that a new `vrr_mode` met another `game_mode` than 2. The
model begins with the TV started (`g_tv_started`). The handler runs on the main
thread and a signal that comes meanwhile stays pending; the kernel may also give
it to another thread, which is left out: if that thread is the watcher and holds
the mutex, its handler waits for itself.

### Commands

A text is the sequence of its words; joining with dots and cutting at them is
what the code does to it. `Text` is what `TvClient.cpp` sends for a call,
`Parse` what `ParserTvCommand`, `ParserTvDataCommand` and `HandleDataRequest`
make of the words (`ControlOps`, `EdidOps`, `HdmiOps`), `Reply` and `FromReply`
what goes back. Each `strtok` call is a step (`FirstWord`, `NextWord`) on the one
static position, under `tvservice_mutex`. What an operation answers is any of
`Values`. `Meant`, written from the interface (`TvClient.h`), is the reference.
`Calls` gives each thread its calls. `CallsAssumption` says what they are: the
methods of `TvClient.h` with as many arguments as they take (`Arities`), taken
from `Data`, of which nothing is known except that `NULL` is not in it.

### TvClient

`mInstance` is the number of an object; the object lives while the static
pointer or the kernel (for the service) refers to it. The wrappers' plain pointer
`mpTvClient` may therefore name an object in `gone`, and a use of it is a
`crash`. The constructor is `CtorLock`, `CtorGetService`, `CtorSetCallback`,
`CtorAssign` (it holds `tvclient_mutex` while it waits for the service), an event
`onTransact`, `HandEvent`, `onTvClientEvent`, `CallbackReturns`,
`OnTransactReturns`, a death `ServerDies`, `binderDied`, `Construct("death")`.
When the binder driver lets go of a reference is not up to the code:
`KernelReleases` may come at any time after the service has forgotten the object.

### Inputs

A line of the configuration file is a record of its text before `=` (as words,
because the reader compares prefixes), its value and the special characters it
has. `getSection`, `getKeyLineAtSec`, `GetString` and the constructor's loop over
`Sources` are functions of the file. The poll thread reads each word, waits,
takes a batch of ready devices (`Wait`), reads one (`ReadStatus`, which may fail)
and tells the clients (`TellHdmi`, `TellAvin`). A question takes two steps, on a
binder thread and in the client: `Ask` reads the device (or fails to, and answers
with what a failed read leaves) and `Use` takes the answer, any number of plugs
and events later. `sound` and `following` are history: the answers under way that
were read while the thread had nothing to tell and that no event of their source
has overtaken, and the sources whose client has used such an answer, or heard an
event, last.

### Edid

An EDID is a sequence of blocks of 128 bytes and the functions are those of
`CHDMIRxManager.cpp` on them: `Patched`, `Named`, `Filtered` and the parsers they
use. A data block is the sequence of its bytes (`DataBlock`). The loops over the
data blocks of an extension are one walk (`Walk`, from offset 4 `Chain`); those
that take bytes out share the loop `EditBlocks`, which is given what is left of
each data block (`FilterVics`, `FilterHfScdbCapabilities`, nothing), and the shift
`Splice`. The recursion is in functions, not in RECURSIVE operators, so that the
module can be proved about. What a source reads in an EDID (`Offers`, `Others`,
`Advertises`) is defined on its own, below the specification. The display on
HDMI TX may be exchanged between any two reads.

`FilesAssumption` and `DisplaysAssumption` say that files and displays hand out
blocks whose checksums are right: tvserver does not test them and passes a
display's EDID through as it is. `WellLaid` is what CTA-861 says of an extension
and the parsers take for granted: the data blocks go up to the timings, or to a
zero byte when there are no timings. It is a hypothesis of the theorems that need
it, and `MCEdid` assumes it of its files and displays.

### StreamboxTv

Four threads have a position in `pc` (main, uevent, event, and the server's poll
thread) and each drawing thread a state in `ui`. The poll thread takes an event,
hands it to the application (`SendEvent`) and waits for the callback's return, as
`transact` does; only then it goes on to `CheckAndApplyAutoVrr`. A step of a thread
takes with it what no other thread can tell from it, such as a flag that the
hotplug thread alone reads.

The calls and writes of the application may fail, and it looks at few of the
results. `Faults` names the kinds, the comments at the actions the place:

| Fault | What fails | What the code does |
|---|---|---|
| `"start"`, `"stop"` | StartTv, StopTv | sets or clears `g_tv_started` all the same |
| `"signal"` | the read of the signal info after a vdin event | the change is lost |
| `"vrr"` | the reads of VRR and FreeSync, the write of the mode | no check, or no mode and no switch |
| `"switch"` | the write of the switch | nothing |
| `"shown"` | the mode of HDMI TX, its write, alsaloop, a drawing thread, a question at startup | the rest of the callback is left out |

`amiss` is history: the kinds that went wrong last and that no later step has made
up for. The callback does not compare the source of a plug event with its own, so
the unplug of any other source does what that of its own does
(`onOtherSourceConnect`); it counts as `"shown"` until the next event of the own
source.

| Code | Actions |
|---|---|
| `main`, `UpdateNoSignalUiFromCurrentSource` | `MainSocket`, `MainReadHpd`, `MainStopTv`, `MainStartTv`, `MainSpawn`, `CheckPlug`, `CheckSize` |
| `TvEventCallback` | the positions of `EventThread` from `SendEvent` to `CallbackReturns` |
| `SynchronizeHdmitxToHdmirx` | `SynchronizeHdmitxToHdmirx`, `ApplyVrrMode`, `StartAudioPassthrough` |
| `StartNoSignalUi`, `StopNoSignalUi`, `NoSignalUiThread` | the actions of these names; Stop is three steps: flag, handle, join |
| `UeventMonitorThread`, `StartTvProcessing`, `StopTvProcessing` | the actions of these names |
| the server | `StartTv`, `StopTv`, `onSigStatusChange`, `onSigVrrChange`, `onSourceConnect`, `CheckAndApplyAutoVrr`, `SetForceVrrFrameLock` |

## 3. The runs

| Run | Question | Instance |
|---|---|---|
| `ctv_faults` | Do the decoder flags and the reported status stay right whatever fails? | the tuner (snow screen), all four statuses, EDID commands, any vdin ioctl may fail, kills |
| `ctv_stop` | Does a StopTv undo everything, and does the path fit the mode? | one HDMI input, headless and feature commands, refused writes of the VFM map, kills |
| `ctv_live` | Is a stable signal shown, and are clients told the last status? | one HDMI input, fair threads |
| `tvservice` | Are cookies owned, events delivered once, gaps healed, and is EventBus implemented? | two clients, four entries |
| `hdmi_features` | Is what was acknowledged kept, and nothing forbidden advertised? | two ports, two displays, refusals of driver and environment, kills |
| `config` | Does the last file win, and does what runs follow the configuration? | eight configurations, two writes |
| `config_lost` | Is every new game mode applied? No: finding 1 | one write |
| `client` | Does every wrapper hear every event, are events answered, and does the process register again? | two wrappers, three objects, one death of the service |
| `commands` | Does every call become its operation and get its result back, with two callers and a service that may die? | every call of the library against four |
| `inputs` | Do sources sit where the file says, and do events and answers agree? | four files, two wires that move, two sources followed, one answer on its way |
| `edid` | Are patched and filtered EDIDs valid, and exact? | four files, three displays, exchanged at any time |
| `streambox` | One screen as requested, events answered, everything matching in the end, VRR as the server decides? | one input and the plugs of others, one display, two drawing threads, failed calls |

### Bounds, and why they suffice

- `Sources`: one input. The code never compares two inputs except with
  SOURCE_TV and the HDMI range, and both are covered by separate runs.
- `MaxMsgs = 1`: the signal rests while a late enable waits. A second message
  in the queue repeats the first: all messages are alike.
- `Shown`: `ctv_stop` and `ctv_live` leave out statuses whose handlers take the
  same steps as one they keep; `ctv_faults` has all.
- `Clients` two, `MaxEntries` four: a gap needs two clients, a NULL entry and a
  dead one; a new client then meets every kind of entry.
- `Ports` two: setting one port can disturb one other. `Displays` two: one with
  both features, one with VRR only.
- `Versions` of `hdmi_features` leaves out 1.4, for which `EdidVersionKept`
  does not hold (section 5).

- `MaxWrites` two: a reload of the first write can then store its text after
  one of the second. Audio has a section that is off and one that is on and
  longer; VRR and game mode have two values each. Every run starts from the
  defaults, from which one save reaches any configuration.
- `client`: `Wrappers` two, because what one does to the shared object shows in
  the other. `MaxInstances` three: the first, the one made after a death, and one
  that a late death handler makes on top. `MaxDeaths` one: the next death meets
  the same states. `Kinds` has an event the wrapper shows and the one it drops.
- `commands`: `main` makes every call with arguments that are told apart,
  `callback` one call of each transaction: what a thread's parser can suffer from
  another is that words of its text are taken, whichever text the other has.
- `inputs`: files without the section, with exchanged ports, a port used twice,
  an unknown port, a remark behind a value, keys and sections that extend one
  another, and a section that comes twice. `Moving` has one HDMI wire and one AV
  wire: no code relates two wires of a kind but the comparison of the word, which
  each bit of it enters alike. `MaxAsked` one: the answer of one source touches no
  other, and the one answer may be older than any number of events. The proof has
  no such bounds.
- `edid`: between them the files have data blocks of every kind the code looks
  for, an extension that is full and one with just too little room, none, one and
  several timings, one of which the patch pushes over the end; the displays have
  both features, none, and no mode list. The blocks have their real size, so every
  offset is a real one.
- `streambox`: `MaxUevents` one: a second hotplug event in the socket repeats or
  cancels the first, and events that cancel are dropped. `UiThreads` two: an old
  thread that still ends and a new one. `GameMode` 2 is the one mode in which the
  application touches VRR. `MaxAmiss` one: kinds of faults that last do not pile up,
  though one may follow the other once it is made up for. `"switch"` is left out,
  because a switch that was not written leaves `AutoVrrStands` with nothing to say;
  the proofs have every fault and no bound. The constraint `NotRaced` cuts
  behaviours where the startup check (main, before the hotplug thread starts) meets
  an event callback: there the screen may end up with the wrong thread joined
  (section 5), and nothing holds afterwards. The state in which they meet is still
  checked, and the liveness properties say `raced \/ ...`.

### Fairness

`CTv` assumes weak fairness of each thread and of the constructor's thread: a
runnable thread is run. Signals, clients and kills are not fair. `TvService`
assumes the same of a thread inside the service, and for `GapsHeal` that events
keep coming (`WF` of `SendSignal("skip")`), which is an assumption about the
inputs: gaps are mended by walks, and without events there are none. `Config`
assumes that a save that has begun ends and that both threads run; nobody has
to write, and an editor that replaces the file is not fair.

`StreamboxTv` and `Inputs` assume weak fairness of the program's threads only;
signals, cables, displays and questions come or do not. `Commands` assumes strong
fairness of each caller's steps, `TvClient` of the two that take
`tvclient_mutex`: a mutex that is free again and again is got in the end. The
pthread mutex promises no order, but with two or three threads that work outside
the lock between two uses the scheduler lets each of them in. In `StreamboxTv` threads that
never can both run share one condition: the poll thread and the callback it waits
for, main and the hotplug thread it starts last. The plugs of other sources are in
none of them. The service that
waits in `getService` for tvserver is served once tvserver is up, hence
`<>[](server = "up")` in the properties. `client` has `CHECK_DEADLOCK FALSE`: a
process that a null pointer has ended takes no step.

### Finding

1. `config_lost`: the watcher thread and SIGHUP reload the same save. While the
   first callback restarts alsaloop the second reload copies `g_config` to
   `g_config_prev`; the first callback then compares equal configurations and
   does not apply the new game mode. `doc/config_design.md:93` says it is
   applied. `AudioFollows` shows why audio does not suffer: the restart reads
   the configuration in force and compares nothing.

## 4. The proofs

`CTv_proofs` proves, for all constants that satisfy `ConstantsAssumption`:

- `TypeCorrect`: `Spec => []TypeOK`.
- `SyncInvCorrect`, and from it `DecoderAgreementCorrect` and
  `StartNeverBusyCorrect`. `DecoderAgreement` is not inductive: it says nothing
  while a section is open. `SyncInv` adds what the flags are inside each
  section (`SectionFlags`), that a reset in progress is the only section
  (`ResetAlone`) and that no two sections overlap while the tie is known
  (`NoOverlap`).
- `ToldMatchesStatusCorrect` through `ToldInv`, which follows the status
  through the handlers until the event is sent.
- `HeadlessPathCorrect` through `PathInv`, with the path while it is rebuilt, as long
  as `pathKnown`. It covers a server that died in the middle of a switch.
- `StopTvCompleteCorrect` through `StopInv`, which lists for each point of
  StopTv what has been undone so far while `quiet` holds.

`HdmiRx_proofs` proves about `HdmiFeatures`, for any number of ports and displays,
`TypeCorrect`, `FeatureGatedCorrect` (through `FeatureInv`, which says what a
process has established between the load and its first command, with the features
that are `apart`) and, for requests of any versions but 1.4,
`EdidVersionKeptCorrect` (through `VersionInv`, which ties `requested`, environment
and driver at every point of SetEdidVersion and LoadEdidData for the ports that are
not `unsaved`). Both hold whatever is refused, and with or without ubootenv.

About `Edid` it proves all six invariants of the run, for every family of files and
displays with right checksums:

- `ChecksumsValidCorrect` through `LoadTyped` (`LoadTypeCorrect`), which says how many
  blocks each buffer has at each stage and that all are valid. The lemmas under it
  follow one function each: `ChecksumRight`, `BaseModesBytes`,
  `SecondExtensionValid`, `InsertBytes`, `EditTyped`, `FilteredTyped`.
- `NameShownCorrect` through `Begun` and `NameTold`: the buffer is the file, patched
  if it is the 2.0 one, until the name is written, and then has the name in the
  first slot that had one; `FilterShows` says the filter does not touch it.
- `BlocksEndAtTimingsCorrect` through `LaidOut`. That data blocks end at the timings
  is not inductive, because a walk that stops early would see other data blocks
  once something moves. `LaidOut` keeps the whole layout (`WellLaid`). `InsertLaid`
  and `EditLaid` show that the insertion and the loop preserve it.
- `FeaturesAgreeCorrect` and `FilterExactCorrect` through `FilterReads`: in a calm load
  the filter has worked with one display. `EditLoop` is the heart of them, an
  invariant of the loop in `EditBlocks` (`LoopInv`): the data blocks before the
  offset are the edited ones, those behind it are still to come, moved to the left
  with the timings by what was cut. So the loop turns the set of data blocks
  into its image under the edit, and the timings stay what they were. `Editors`
  says what each of the three edits does to one data block, `EditedOut` what the
  three loops leave together, `TimingsFiltered` what the last step leaves of the
  timings.
- `PatchExactCorrect` through `FileInv`: `TimingShows` reads back each timing that
  `WriteDetailedTiming` wrote, `InsertMoves` and `InsertTimings` say what the insertion
  moves and what it pushes over the end.

The first two hold for any layout. The others need `FilesLaid`, and
`BlocksEndAtTimings` also `DisplaysLaid`, for the passthrough. With other files a
loop that has moved bytes may come to data blocks the walk before it did not see.

These proofs need induction over recursive functions. `SetInduction` gets induction
over the numbers from `WFMin` of the library, with the set of the numbers for which
a fact holds in place of an operator. `Recursion` shows that a recursive function
whose calls go down in rank exists and is the only one that obeys its equation
(`Solves`). `SumStep`, `WalkStep`, `RestExists` and `KeptVics` unfold the four recursive
functions of the module with it.

`Config_proofs` proves for every set of configurations and any number of writes
`TypeCorrect`, `AudioFollowed` and `VideoFollowed`. `CopyInv` says what
`g_config_prev` and the changes are while the mutex is held. `AudioFollows` is
not inductive because two restarts may be under way; `AudioInv` says alsaloop is
off or up to date as soon as nobody is about to stop it. `VideoInv` says that
without overlap one thread at most is between the copies and the end of its
callback, and which of the two globals has been applied at each of its points.
`Steps` sorts the steps first, so that each invariant looks at six actions only.

`TvService_proofs` proves for any number of clients, entries and gaps
`TypeCorrect` and, with what follows, every safety property of the run:

- `ImplementsEventBus`: `Spec => BusSpec`, also when registrations overlap. `OwnInv`
  says a binder stands under its client's own cookie and nowhere else, so a walk,
  which goes upwards, meets it once; `GotInv` says whom the walk has served so far
  (`DeliveryInvCorrect`). Each step is then a step of `EventBus` or changes
  nothing there.
- `CookieOwnedCorrect`. The search stops at the size the map had at its start,
  although keys may be higher. It always finds a free entry, for from the entry
  it looks at upwards there are never more occupied keys than entries left to
  look at (`Searches`): each key passed is one less of both, and while no other
  registration is under way (`Alone`) nobody occupies a key.
- `ReachesAllCorrect`. `WalkInv` says an undisturbed walk has left every key below
  `i` in the map and the event with every member there. At the end `i` is the
  number of keys, so the keys are exactly those below `i`.

`StreamboxTv_proofs` proves for any finite set of drawing threads that has one, any
signals and any modes `TypeCorrect` and, with what follows, both safety properties
of the run. `OrderInv` says which threads have anything to do before the
callback is registered and while no event is on its way, and that a server that
has not started the input has neither a status nor events.

- `AutoVrrStandsCorrect`. `VrrInv` says that whatever makes the mode differ from the
  source's (the source itself, or the application's callback) leaves something
  behind that ends in another check of the server: an event that is raised, a
  callback for "stable", a check that is under way, or a check that failed.
- `ScreenAsRequestedCorrect`. `ScreenInv` says that, without a race, the startup check
  and the callback are never both between flag and join, and that a drawing
  thread that is not free is the one in the handle. From there each position of
  either fixes flag, handle and state of that thread.

`TvClient_proofs` proves for any number of wrappers, objects and deaths
`TypeCorrect`, `SafeOnceSetUpCorrect` and the action property
`EveryWrapperHearsCorrect`. The invariant, `CalmInv`, speaks of the time before
tvserver dies and the process stops its binder threads. It follows the first object
through its constructor (`OneObject`): until it is assigned `mInstance` is 0, and
afterwards it is the only object the service may know. A wrapper points to it or
nowhere, and is on its list as soon as it points to it (`Observed`). `SafeOnceSetUp`
alone is not inductive, for it says nothing of the setup.

`Commands_proofs` proves for any number of threads and any calls that meet
`CallsAssumption`:

- `TextsWhole`: the words a parser has taken and those `strtok` has left are its own
  text, and nobody else parses. That is why `tvservice_mutex` matters: `FirstWord`
  and `NextWord` move words from the one static position to their owner only.
- `ServedAsCalledCorrect`, with the lemma `ParseText`: the parser of each call makes
  of its text the operation meant. `ControlTable`, `HdmiTable` and `EdidTable`
  compare client and service, id by id; `TextRead` says the arguments behind a
  prefix are read as written, whatever they are.
- `ResultKeptCorrect`, since a served call carries its operation to the reply.

`Inputs_proofs` proves for every configuration file, any wires that move and any
watched sources of those the server answers for (`Detected`):

- `MapAsConfiguredCorrect`: in a file where neither the section nor the key is
  extended and the section comes once at most, the section and the key found are
  the only ones that fit.
- `SettledAgreesCorrect`. `Fresh` says a kept word is the hardware's, unless an edge
  of the device is pending, in the batch or in hand, and `InHand` the same of the
  word just read; `Heard` says a client that follows knows what the kept word says
  of its wire, and `Answered` that a sound answer on its way says the same.
  `OwnWire` is why that is its own wire: no other is told under its name if the
  source is `Named`.

Each proof has one step per action and cites the conjuncts the action can
disturb. Temporal steps combine `Init => Inv`, `Inv /\ [Next]_vars => Inv'` and
`Inv => Property`.

Model-checked only: liveness (`StableShown`, `StatusSettles`, `GapsHeal`, `FileWins`,
`EventsAnswered` and `Reregistered`, `CallsReturn`,
`ToldInTheEnd`, `CallbackEnds`, `ComesToMatch`), which TLAPS does not reach. Every
invariant and every action property of a passing run is stated by a theorem.

Three properties got more exact on the way. `Named` now leaves out an AV source that
the file puts on an HDMI port, whose events mix two wires, and `MapAsConfigured` a
second `SourceInputMap` section, which the program does not read; `MCFiles` has such a
file. `FilterExact` first said that the filter adds nothing. A timing that the patch
pushed over the end of an extension leaves its first bytes there; when the filter
then takes bytes out, it moves to the left, zeros follow, and a source may read it
as a timing again (`Remains`). `FilesMC` has a file where this happens. In
`StreamboxTv` the first text of `SendEvent` was a CASE whose guards overlapped for an
unplugged cable; it is now decided in the order of the code.

## 5. What the models do not promise

Behaviour of the code that a property excepts or a bound leaves out. It was met
while modelling; none of it is hidden by the runs, but no run asks for the
opposite.

**CTv.** `onSigToUnstable` sends no event, although `doc/client_api.md:108` lists
the status among those of the Signal Detect Event; its numbers (104-108) are not
those of `tvin_sig_status_e` (`include/amlogic/tvin.h:248-260`). The poll thread's
START_DEC and the reset in StopTv may overlap; a later START_DEC then meets EBUSY
in a process that follows no killed one, where the comments at
`CTvin.cpp:662-675` give the killed process as the cause. A late enable may light
the layer of an input that has stopped. The VRR case of `onVdinSignalChange`
falls through to the "invalid event" log. A capture-only path that a killed server
left stays in the VFM map next to the full path of its successor, and a refused
removal or a refused full path leaves the map as it was: nobody looks at the
result (`CTv.cpp:59`, `:150-170`), and the next switch that succeeds puts it
right (`pathKnown`).

**HDMI settings.** EDID 1.4 and "not set" are the same nibble, read as 2.0: after
1.4 a request for 2.0 is answered "same EDID version" and does nothing, and
setting another port undoes the 1.4. `hdmi_features` is run without 1.4 for that
reason. A write of the driver that failed is not retried
(`apart`). The result of `SetUenv` is ignored: a version that the environment
refused is acknowledged, shown until the process ends, and undone by the next
load (`unsaved`); a feature it refused to switch on is advertised while the
environment says off (`apart`).

**Configuration.** A file that is replaced by rename is not seen, against
`test/streambox-tv.c:2659`; `FileWins` speaks of files rewritten in place.

**Commands.** The getters of the frame ignore the result of `GetFrontendInfo` and
answer 0 after a failure; the boolean getters turn -1 into true; `GetEdidData` and
`GetCurrentSourceAllmInfo` return no result of the operation; a failed transaction
returns what an empty reply reads as. `Loses` lists them. `GetCurrentSourceAllmInfo`
is served without `tvservice_mutex`.

**TvClient.** After "reconnect success" (`TvClient.cpp:676`) the wrappers still point
to the old object and the new one has no observers; events that come between
CMD_SET_TV_CB and the assignment of `mInstance` meet a null pointer; a
destructor that runs late clears the next object's `mInstance` and
`mDeathNotifier`; an application that calls `SendDataRequest` from its callback
waits for itself. `SettingUp`, `raced` and the guard of `deaths` name these windows.
The wrapper drops VRR events.

**Inputs.** A failed read of the HDMI word counts as "all unplugged" and is not
retried (`failed`); a failed read of the AV word uses what the stack held. Of two
sources on one port the first is told only, and an AV source on an HDMI port is told
of two wires (`Named`). Keys and sections are compared as prefixes, of two
`SourceInputMap` sections the first is read only, and a remark behind a value drops
the line (`PlainFile`, `MapAsConfigured`). A source on an unknown port gets the
answer of port A. An answer that was read before an edge and used after the event
for it is wrong until the next edge of its wire, and so is one whose read failed,
for the result of `readFile` is ignored (`CTvDevicesPollDetect.cpp:167`, `:191`); a
client has nothing to tell it by (`sound`).

**Edid.** Interlaced timings never match the interlaced modes of `disp_cap`.
PatchEdidFor120Hz overwrites three of the four slots of the base block, so a name
survives in the fourth only (`NameShown`). The 4:2:0 capability map is not
realigned when video data blocks get shorter. A timing that ends at the
last byte is pushed out when VIC 63 is inserted (`PatchExact`). An EDID
prepared for one display stays on the port when another one is connected, until
the next load: `FilterExact` and `FeaturesAgree` speak of a calm load.

**streambox-tv.** If the startup check meets a callback, both may stop the screen
and join the same thread, or the one that joins finds a new thread in
the handle and waits for it for good, and the server's poll thread with it
(`raced`). A frame buffer that cannot be opened leaves
`g_no_signal_thread_created` set: no screen is drawn again. The callback may start
audio or set VRR after `StopTvProcessing` has stopped both; the next event puts
it right, which is why `ComesToMatch` speaks of the end (`doc/streambox-tv.md:72`
promises it of the call). A `vrr_mode` of the application lasts until the server's
next `CheckAndApplyAutoVrr` (`AutoVrrStands`). Headless mode, once chosen, is for
good. The signal handler raises the default action, so main's cleanup never
runs: alsaloop and the started input outlive the process; `MainStopTv` of the
next one stops the input only. An alsaloop that ends by itself is taken for one
that runs. The unplug of another source draws the no-signal screen over a running
picture and stops audio, until the next event (`streambox-tv.c:2627`). After a mode
of HDMI TX that cannot be written, audio stays off (`:2383`, `:2523`); after a
StartTv that failed, `g_tv_started` is set and nobody tries again (`:2042`); a vdin
event whose info cannot be read is lost; VRR that cannot be read, or a mode that
is refused, leaves the mode of an earlier source in force (`CTv.cpp:1362`, `:1397`).
`amiss` names these cases, in which `ComesToMatch` and `AutoVrrStands` promise
nothing until they are made up for.

## 6. Not modelled

- Drawing, the framebuffer, the choice and attributes of the TX mode in
  streambox-tv, its test modes: no other thread reads what they write. Its calls of
  ALLM, VRR and game mode before StartTv: they are the settings `HdmiFeatures` has. A
  start-up without a hotplug socket or a monitor thread: the process then runs
  without hotplug.
- The serial port, logging, `CIniFile::SetString` and `SaveToFile`: no state that
  threads share, or no caller.
- CMsgQueue's due times and `stop()`: CTv sends one kind of message, without a
  delay, and never stops the queue; in `CTv` the queue is a number of messages.
- Picture settings (colour range, game mode, PC mode, HDCP): each passes a value
  through to one sysfs file. HDR, AFD and colour events store a field nothing
  else reads.
- The Cockpit front end and its HTTP routes: `Config` has what they do to the
  file. The demo and test programs drive the client library interactively.
- `SwitchSource` is not reachable from the service; audio muting is compiled out
  (`STREAM_BOX_LEGACY`). A second StartTv without a StopTv is in `CTv`, but not
  the audio patch handle it leaks.
- Undefined behaviour of concurrent `std::map` accesses (`TvService`) and nested
  signal handlers in the configuration's threads: any such step may end the
  process.

## 7. What may come next

1. Properties for the hazards of `PROJECT.json` that have none yet, such as the late
   enable that lights the layer of a stopped input, or an exit flag that an empty
   message queue does not look at.
2. The liveness properties on larger instances: more inputs, clients and saves.
3. `MsgQueue`: the timed queue refines a FIFO queue while the clock is
   monotone, as soon as a caller uses delays.
