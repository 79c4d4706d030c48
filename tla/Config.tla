------------------------------ MODULE Config ------------------------------
(***************************************************************************)
(* The configuration of streambox-tv (test/config.c) and the callback that *)
(* puts a new one into effect (OnConfigChange, test/streambox-tv.c), from  *)
(* the moment the TV has been started.  The Cockpit plugin rewrites the    *)
(* file and sends SIGHUP; the watcher thread is told of the same change by *)
(* inotify; both run config_reload.  g_config_mutex covers the two copies  *)
(* in config_reload and nothing else: the callback runs outside it and     *)
(* compares the globals g_config_prev and g_config.                        *)
(*                                                                         *)
(* The handler runs on the main thread; a signal that arrives while it     *)
(* runs stays pending.  (The kernel may also hand it to another thread.)   *)
(* A configuration is reduced to what OnConfigChange acts on.              *)
(***************************************************************************)
EXTENDS Integers, Sequences, FiniteSets

CONSTANTS
    Audio,          \* audio sections; Off is one with "enabled": false
    Off,            \* also: alsaloop is not running
    LongAudio,      \* sections whose text is longer than the others'
    DefaultAudio,
    Vrr, Game,      \* values of vrr_mode and game_mode used by the writers
    Empty,          \* the text of a truncated file
    NONE,
    MaxWrites       \* bound: how often the file is saved or replaced

ASSUME ConstantsAssumption ==
    /\ {Off, DefaultAudio} \subseteq Audio /\ LongAudio \subseteq Audio
    /\ Vrr \subseteq 0..2 /\ 2 \in Vrr
    /\ Game \subseteq 0..2 /\ 2 \in Game
    /\ NONE \notin {"main", "watch"}
    /\ MaxWrites \in Nat

Threads == {"main", "watch"}

Configs == [audio : Audio, vrr : Vrr, game : Game]

Defaults == [audio |-> DefaultAudio, vrr |-> 2, game |-> 2]

Length(text) ==
    IF text = Empty THEN 0 ELSE IF text.audio \in LongAudio THEN 2 ELSE 1

\* The sections that differ (CONFIG_CHANGE_AUDIO, CONFIG_CHANGE_VIDEO).
config_compare(old, new) ==
    {s \in {"audio", "video"} :
        IF s = "audio" THEN old.audio # new.audio
                       ELSE <<old.vrr, old.game>> # <<new.vrr, new.game>>}

VARIABLES
    files,      \* the inodes the path has named, the last one now: their texts
    writer,     \* the plugin: where it is in a save, and what it saves
    writes,     \* how many saves and replacements there have been
    events,     \* unread inotify events for the first inode
    batch,      \* events read by the watcher and not handled yet
    pending,    \* SIGHUP is pending
    frame,      \* config_reload on each thread: pc and locals
    mutex,      \* holder of g_config_mutex
    g_config, g_config_prev,
    applied,    \* what runs: alsaloop's parameters, VRR mode, game mode
    overlap,    \* history: a reload has begun to copy during another's callback
    skipped     \* history: the last change of vrr_mode met game_mode # 2

fileVars   == <<files, writer, writes>>
configVars == <<mutex, g_config, g_config_prev>>
history    == <<overlap, skipped>>
vars == <<fileVars, events, batch, pending, frame, configVars, applied, history>>

Idle == [pc |-> "idle", inode |-> 0, size |-> 0, new |-> NONE, changes |-> {}]
Reading(inode, size) ==
    [pc |-> "read", inode |-> inode, size |-> size, new |-> NONE, changes |-> {}]
Parsed(c) == [pc |-> "lock", inode |-> 0, size |-> 0, new |-> c, changes |-> {}]

Current == files[Len(files)]

CallbackPcs == {"stop", "start", "vrr", "game"}

Texts == Configs \union {Empty}

Frames ==
    [pc : {"idle", "size", "read", "lock", "copy"} \union CallbackPcs,
     inode : Nat, size : 0..2, new : Configs \union {NONE},
     changes : SUBSET {"audio", "video"}]

\* The type invariant: also says that a thread knows an inode from fopen to
\* fread and a configuration from the mutex on.
TypeOK ==
    /\ files \in Seq(Texts) /\ Len(files) \in 1..(writes + 1)
    /\ writer \in [pc : {"idle", "open", "closed"}, new : Configs \union {NONE}]
    /\ writer.pc = "open" => writer.new \in Configs
    /\ writes \in 0..MaxWrites
    /\ events \in Seq({"modify", "close"})
    /\ batch \in Nat
    /\ pending \in BOOLEAN
    /\ frame \in [Threads -> Frames]
    /\ \A t \in Threads :
          /\ frame[t].pc = "read" => frame[t].inode \in 1..Len(files)
          /\ frame[t].pc \in {"lock", "copy"} => frame[t].new \in Configs
          /\ frame[t].pc = "copy" <=> mutex = t
    /\ mutex \in Threads \union {NONE}
    /\ g_config \in Configs /\ g_config_prev \in Configs
    /\ applied \in Configs
    /\ overlap \in BOOLEAN /\ skipped \in BOOLEAN

\* config_load has read a file that says what the defaults say (a save brings
\* any other), the TV runs with it.
Init ==
    /\ files = <<Defaults>>
    /\ writer = [pc |-> "idle", new |-> NONE]
    /\ writes = 0
    /\ events = <<>>
    /\ batch = 0
    /\ pending = FALSE
    /\ frame = [t \in Threads |-> Idle]
    /\ mutex = NONE
    /\ g_config = Defaults
    /\ g_config_prev = Defaults
    /\ applied = Defaults
    /\ overlap = FALSE
    /\ skipped = FALSE

(***************************************************************************)
(* The writers                                                             *)
(***************************************************************************)
\* events with e unread as well: an event equal to the last unread one is
\* dropped, and the watch is on the first inode only.
Queued(q, e) ==
    IF Len(files) > 1 \/ (q # <<>> /\ q[Len(q)] = e) THEN q ELSE Append(q, e)

SetText(text) == files' = [files EXCEPT ![Len(files)] = text]

\* open(CONFIG_PATH, 'w') truncates, ...
save_config(c) ==
    /\ writer.pc = "idle"
    /\ writes < MaxWrites
    /\ writer' = [pc |-> "open", new |-> c]
    /\ writes' = writes + 1
    /\ SetText(Empty)
    /\ events' = Queued(events, "modify")
    /\ UNCHANGED <<batch, pending, frame, configVars, applied, history>>

\* ... leaving the with block writes Python's buffer and closes the file, ...
SaveClose ==
    /\ writer.pc = "open"
    /\ writer' = [pc |-> "closed", new |-> NONE]
    /\ SetText(writer.new)
    /\ events' = Queued(Queued(events, "modify"), "close")
    /\ UNCHANGED <<writes, batch, pending, frame, configVars, applied, history>>

\* ... and the signal is sent.
reload_service ==
    /\ writer.pc = "closed"
    /\ writer' = [pc |-> "idle", new |-> NONE]
    /\ pending' = TRUE
    /\ UNCHANGED <<files, writes, events, batch, frame, configVars, applied, history>>

\* sed -i, or an editor that renames: the path names a new inode.  The
\* directory's IN_MOVED_TO is read by the watcher and ignored.
Replace(c) ==
    /\ writer.pc = "idle"
    /\ writes < MaxWrites
    /\ writes' = writes + 1
    /\ files' = Append(files, c)
    /\ UNCHANGED <<writer, events, batch, pending, frame, configVars, applied, history>>

(***************************************************************************)
(* config_reload                                                           *)
(***************************************************************************)
Goto(t, from, to) ==
    /\ frame[t].pc = from
    /\ IF to = "idle" THEN frame' = [frame EXCEPT ![t] = Idle]
                      ELSE frame' = [frame EXCEPT ![t].pc = to]

Unread == UNCHANGED <<fileVars, events, batch, pending>>

\* config_sighup_handler, on the main thread.
config_sighup_handler ==
    /\ pending
    /\ pending' = FALSE
    /\ Goto("main", "idle", "size")
    /\ UNCHANGED <<fileVars, events, batch, configVars, applied, history>>

\* config_watch_thread reads what there is, ...
WatchRead ==
    /\ frame["watch"].pc = "idle" /\ batch = 0 /\ events # <<>>
    /\ batch' = Len(events)
    /\ events' = <<>>
    /\ UNCHANGED <<fileVars, pending, frame, configVars, applied, history>>

\* ... and reloads once per event.
WatchEvent ==
    /\ batch > 0
    /\ batch' = batch - 1
    /\ Goto("watch", "idle", "size")
    /\ UNCHANGED <<fileVars, events, pending, configVars, applied, history>>

\* Mutant: a buffer of one size, which the longer texts do not fit.
ReadSizeFixed(t) ==
    /\ \/ Current = Empty /\ Goto(t, "size", "idle")
       \/ /\ Current # Empty
          /\ frame[t].pc = "size"
          /\ frame' = [frame EXCEPT ![t] = Reading(Len(files), 1)]
    /\ Unread
    /\ UNCHANGED <<configVars, applied, history>>

\* read_file_contents: fopen, ftell; an empty file counts as none.
ReadSize(t) ==
    /\ \/ Current = Empty /\ Goto(t, "size", "idle")
       \/ /\ Current # Empty
          /\ frame[t].pc = "size"
          /\ frame' = [frame EXCEPT ![t] = Reading(Len(files), Length(Current))]
    /\ Unread
    /\ UNCHANGED <<configVars, applied, history>>

\* fread and config_parse_json: nothing read means the defaults, a text cut off
\* at the old size does not parse.
ReadText(t) ==
    LET text == files[frame[t].inode] IN
    /\ frame[t].pc = "read"
    /\ \/ Length(text) > frame[t].size /\ Goto(t, "read", "idle")
       \/ /\ Length(text) <= frame[t].size
          /\ frame' = [frame EXCEPT ![t] =
                Parsed(IF text = Empty THEN Defaults ELSE text)]
    /\ Unread
    /\ UNCHANGED <<configVars, applied, history>>

\* Mutant: the mutex is not waited for.
SavePrevUnlocked(t) ==
    /\ frame[t].pc = "lock"
    /\ mutex' = t
    /\ g_config_prev' = g_config
    /\ frame' = [frame EXCEPT ![t].pc = "copy",
                              ![t].changes = config_compare(g_config, frame[t].new)]
    /\ overlap' = (overlap \/ \E u \in Threads \ {t} : frame[u].pc \in CallbackPcs)
    /\ Unread
    /\ UNCHANGED <<g_config, applied, skipped>>

\* The mutex is taken, g_config saved, the changes found, ...
SavePrev(t) ==
    /\ frame[t].pc = "lock"
    /\ mutex = NONE
    /\ mutex' = t
    /\ g_config_prev' = g_config
    /\ frame' = [frame EXCEPT ![t].pc = "copy",
                              ![t].changes = config_compare(g_config, frame[t].new)]
    /\ overlap' = (overlap \/ \E u \in Threads \ {t} : frame[u].pc \in CallbackPcs)
    /\ Unread
    /\ UNCHANGED <<g_config, applied, skipped>>

\* ... g_config replaced, the mutex released.
CopyNew(t) ==
    /\ Goto(t, "copy", CASE frame[t].changes = {} -> "idle"
                         [] "audio" \in frame[t].changes -> "stop"
                         [] OTHER -> "vrr")
    /\ g_config' = frame[t].new
    /\ mutex' = NONE
    /\ Unread
    /\ UNCHANGED <<g_config_prev, applied, history>>

(***************************************************************************)
(* OnConfigChange                                                          *)
(***************************************************************************)
\* RestartAudioPassthrough: stop, 100 ms, ...
StopAudioPassthrough(t) ==
    /\ Goto(t, "stop", "start")
    /\ applied' = [applied EXCEPT !.audio = Off]
    /\ Unread
    /\ UNCHANGED <<configVars, history>>

\* Mutant: alsaloop gets what this reload has parsed.
StartAudioOwnCopy(t) ==
    /\ Goto(t, "start", IF "video" \in frame[t].changes THEN "vrr" ELSE "idle")
    /\ applied' = [applied EXCEPT !.audio = IF @ = Off THEN frame[t].new.audio ELSE @]
    /\ Unread
    /\ UNCHANGED <<configVars, history>>

\* ... start, unless disabled or already running, with what config_get() says.
StartAudioPassthrough(t) ==
    /\ Goto(t, "start", IF "video" \in frame[t].changes THEN "vrr" ELSE "idle")
    /\ applied' = [applied EXCEPT !.audio = IF @ = Off THEN g_config.audio ELSE @]
    /\ Unread
    /\ UNCHANGED <<configVars, history>>

\* A changed vrr_mode is applied, if game_mode is 2.
ApplyVrrMode(t) ==
    LET changed == g_config_prev.vrr # g_config.vrr IN
    /\ Goto(t, "vrr", "game")
    /\ applied' = IF changed /\ g_config.game = 2
                  THEN [applied EXCEPT !.vrr = g_config.vrr] ELSE applied
    /\ skipped' = IF changed THEN g_config.game # 2 ELSE skipped
    /\ Unread
    /\ UNCHANGED <<configVars, overlap>>

\* Mutant: only a game mode that is on is passed on.
SetGameModeOn(t) ==
    /\ Goto(t, "game", "idle")
    /\ applied' = IF g_config.game # 0 THEN [applied EXCEPT !.game = g_config.game] ELSE applied
    /\ Unread
    /\ UNCHANGED <<configVars, history>>

\* A changed game_mode is applied.
SetGameMode(t) ==
    /\ Goto(t, "game", "idle")
    /\ applied' = IF g_config_prev.game # g_config.game
                  THEN [applied EXCEPT !.game = g_config.game] ELSE applied
    /\ Unread
    /\ UNCHANGED <<configVars, history>>

config_reload(t) ==
    \/ ReadSize(t) \/ ReadText(t) \/ SavePrev(t) \/ CopyNew(t)
    \/ StopAudioPassthrough(t) \/ StartAudioPassthrough(t)
    \/ ApplyVrrMode(t) \/ SetGameMode(t)

Main  == config_sighup_handler \/ config_reload("main")
Watch == WatchRead \/ WatchEvent \/ config_reload("watch")
Save  == SaveClose \/ reload_service

Next ==
    \/ \E c \in Configs : save_config(c) \/ Replace(c)
    \/ Save
    \/ Main
    \/ Watch

Spec == Init /\ [][Next]_vars

\* A save that has begun ends; both threads run.
FairSpec == Spec /\ WF_vars(Save) /\ WF_vars(Main) /\ WF_vars(Watch)

(***************************************************************************)
(* Properties                                                              *)
(***************************************************************************)
NoReload == \A t \in Threads : frame[t].pc = "idle"

\* Whenever no reload is under way, alsaloop runs with the audio section in
\* g_config, however the two threads' restarts have interleaved:
\* StartAudioPassthrough reads the configuration in force, whoever calls it.
AudioFollows == NoReload => applied.audio = g_config.audio

\* The same for the game mode and the VRR mode, which OnConfigChange applies
\* only where g_config_prev and g_config differ, as long as no reload has begun
\* while a callback ran, and for a vrr_mode that was not changed while
\* game_mode was not 2.
VideoFollows ==
    NoReload /\ ~overlap =>
        /\ applied.game = g_config.game
        /\ skipped \/ applied.vrr = g_config.vrr

FileInForce == <>[](g_config = Current)

\* Once no more is written, the configuration in force is the one in the file,
\* however the two reloads of each save have overlapped with the writing, as
\* long as the file has been rewritten in place.
FileWins == [](Len(files) = 1) => FileInForce

\* doc/config_design.md: a changed video.game_mode is applied.
GameModeApplied == NoReload => applied.game = g_config.game
=============================================================================
