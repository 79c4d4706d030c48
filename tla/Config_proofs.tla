--------------------------- MODULE Config_proofs ---------------------------
(***************************************************************************)
(* Theorems about Config, for every set of configurations and any number   *)
(* of writes.                                                              *)
(***************************************************************************)
EXTENDS Config, TLAPS

\* What the reloads find and leave in the globals: prev is what was in force
\* when a reload took the mutex, and changes is how it differs.
CopyInv ==
    \A t \in Threads : frame[t].pc = "copy" =>
        /\ g_config_prev = g_config
        /\ frame[t].changes = config_compare(g_config, frame[t].new)

(***************************************************************************)
(* AudioFollows.  alsaloop can run with an old section only until a thread *)
(* that is about to stop it has done so; after that it is off, or was      *)
(* started with the section in force.                                      *)
(***************************************************************************)
AudioInv ==
    /\ (\A t \in Threads : frame[t].pc # "stop") => applied.audio \in {Off, g_config.audio}
    /\ (\A t \in Threads : frame[t].pc \notin {"stop", "start"}) =>
          applied.audio = g_config.audio

(***************************************************************************)
(* VideoFollows.  Without overlap one thread at most is between the copies *)
(* and the end of its callback, and what has been applied is g_config_prev *)
(* until that thread has applied g_config.                                 *)
(***************************************************************************)
Applied(c) == applied.game = c.game /\ (skipped \/ applied.vrr = c.vrr)

Changing == {t \in Threads : frame[t].pc \in {"copy"} \union CallbackPcs}

VideoInv ==
    ~overlap =>
        /\ \A t, u \in Changing : t = u
        /\ Changing = {} => Applied(g_config)
        /\ \A t \in Changing :
              /\ frame[t].pc \in {"copy", "stop", "start", "vrr"} => Applied(g_config_prev)
              /\ frame[t].pc \in {"stop", "start"} /\ "video" \notin frame[t].changes =>
                    Applied(g_config)
              /\ frame[t].pc = "game" =>
                    /\ applied.game = g_config_prev.game
                    /\ skipped \/ applied.vrr = g_config.vrr

Pcs == {"idle", "size", "read", "lock", "copy"} \union CallbackPcs

\* What a thread that goes on changes in the frames.
LEMMA GotoFrames ==
    ASSUME frame \in [Threads -> Frames], NEW t \in Threads, NEW from, NEW to \in Pcs,
           Goto(t, from, to)
    PROVE  /\ frame[t].pc = from
           /\ frame' \in [Threads -> Frames]
           /\ frame'[t].pc = to
           /\ to # "idle" => /\ frame'[t].inode = frame[t].inode
                             /\ frame'[t].new = frame[t].new
                             /\ frame'[t].changes = frame[t].changes
           /\ \A u \in Threads \ {t} : frame'[u] = frame[u]
<1>1. CASE to = "idle"
  BY <1>1 DEF Goto, Frames, Idle, Pcs
<1>2. CASE to # "idle"
  BY <1>2 DEF Goto, Frames, Pcs
<1>. QED
  BY <1>1, <1>2

\* A step of the callback touches nothing but the frame and what is applied.
LEMMA Callback ==
    ASSUME TypeOK, NEW t \in Threads, NEW from \in CallbackPcs,
           NEW to \in CallbackPcs \union {"idle"}, Goto(t, from, to), Unread,
           UNCHANGED <<mutex, g_config, g_config_prev, overlap>>,
           applied' \in Configs, skipped' \in BOOLEAN
    PROVE  TypeOK'
<1>1. /\ frame' \in [Threads -> Frames]
      /\ frame[t].pc = from /\ frame'[t].pc = to
      /\ \A u \in Threads \ {t} : frame'[u] = frame[u]
  BY GotoFrames DEF Pcs, CallbackPcs, TypeOK
<1>. QED
  BY <1>1 DEF TypeOK, CallbackPcs, Unread, fileVars, Texts

\* Every step keeps the type invariant.
LEMMA TypeInvariant ==
    ASSUME TypeOK, [Next]_vars
    PROVE  TypeOK'
<1>. USE ConstantsAssumption DEF TypeOK, Texts, CallbackPcs, Threads, fileVars,
         configVars, history
<1>1. ASSUME NEW c \in Configs, save_config(c) PROVE TypeOK'
  BY <1>1 DEF save_config, SetText, Queued
<1>2. ASSUME NEW c \in Configs, Replace(c) PROVE TypeOK'
  BY <1>2 DEF Replace
<1>3. CASE SaveClose
  BY <1>3 DEF SaveClose, SetText, Queued
<1>4. CASE reload_service
  BY <1>4 DEF reload_service
<1>5. CASE config_sighup_handler
  <2>1. Goto("main", "idle", "size")
    BY <1>5 DEF config_sighup_handler
  <2>2. /\ frame' \in [Threads -> Frames]
        /\ frame'["main"].pc = "size" /\ frame["main"].pc = "idle"
        /\ \A u \in Threads \ {"main"} : frame'[u] = frame[u]
    BY <2>1, GotoFrames DEF Pcs
  <2>. QED
    BY <1>5, <2>2 DEF config_sighup_handler
<1>6. CASE WatchRead
  BY <1>6 DEF WatchRead
<1>7. CASE WatchEvent
  BY <1>7, GotoFrames DEF WatchEvent, Pcs
<1>8. ASSUME NEW t \in Threads, config_reload(t) PROVE TypeOK'
  <2>. USE DEF Unread
  <2>1. CASE ReadSize(t)
    <3>1. CASE Goto(t, "size", "idle")
      BY <2>1, <3>1, GotoFrames DEF ReadSize, Pcs
    <3>2. CASE ~Goto(t, "size", "idle")
      <4>1. Length(Current) \in 0..2
        BY DEF Length
      <4>2. frame' = [frame EXCEPT ![t] = Reading(Len(files), Length(Current))]
            /\ frame[t].pc = "size"
        BY <2>1, <3>2 DEF ReadSize
      <4>3. Reading(Len(files), Length(Current)) \in Frames
        BY <4>1 DEF Frames, Reading
      <4>4. /\ frame' \in [Threads -> Frames]
            /\ frame'[t].pc = "read" /\ frame'[t].inode = Len(files)
            /\ \A u \in Threads \ {t} : frame'[u] = frame[u]
        BY <4>2, <4>3 DEF Reading
      <4>. QED
        BY <2>1, <4>2, <4>4 DEF ReadSize
    <3>. QED
      BY <3>1, <3>2
  <2>2. CASE ReadText(t)
    <3>1. CASE Goto(t, "read", "idle")
      BY <2>2, <3>1, GotoFrames DEF ReadText, Pcs
    <3>2. CASE ~Goto(t, "read", "idle")
      <4>. DEFINE text == files[frame[t].inode]
                  c == IF text = Empty THEN Defaults ELSE text
      <4>1. frame[t].pc = "read" /\ frame' = [frame EXCEPT ![t] = Parsed(c)]
        BY <2>2, <3>2 DEF ReadText
      <4>2. text \in Texts
        BY <4>1
      <4>3. c \in Configs
        BY <4>2 DEF Defaults, Configs
      <4>4. Parsed(c) \in Frames
        BY <4>3 DEF Frames, Parsed
      <4>5. /\ frame' \in [Threads -> Frames]
            /\ frame'[t].pc = "lock" /\ frame'[t].new = c
            /\ \A u \in Threads \ {t} : frame'[u] = frame[u]
        BY <4>1, <4>4 DEF Parsed
      <4>. QED
        BY <2>2, <4>1, <4>3, <4>5 DEF ReadText
    <3>. QED
      BY <3>1, <3>2
  <2>3. CASE SavePrev(t)
    BY <2>3 DEF SavePrev, config_compare, Frames
  <2>4. CASE CopyNew(t)
    <3>1. PICK to \in {"idle", "stop", "vrr"} : Goto(t, "copy", to)
      BY <2>4 DEF CopyNew
    <3>. QED
      BY <2>4, <3>1, GotoFrames DEF CopyNew, Pcs
  <2>5. CASE StopAudioPassthrough(t)
    <3>1. applied' \in Configs
      BY <2>5 DEF StopAudioPassthrough, Configs
    <3>2. PICK to \in {"start"} : Goto(t, "stop", to)
      BY <2>5 DEF StopAudioPassthrough
    <3>3. skipped' \in BOOLEAN
      BY <2>5 DEF StopAudioPassthrough
    <3>. QED
      BY <2>5, <3>1, <3>2, <3>3, Callback DEF StopAudioPassthrough
  <2>6. CASE StartAudioPassthrough(t)
    <3>1. applied' \in Configs
      BY <2>6 DEF StartAudioPassthrough, Configs
    <3>2. PICK to \in {"vrr", "idle"} : Goto(t, "start", to)
      BY <2>6 DEF StartAudioPassthrough
    <3>3. skipped' \in BOOLEAN
      BY <2>6 DEF StartAudioPassthrough
    <3>. QED
      BY <2>6, <3>1, <3>2, <3>3, Callback DEF StartAudioPassthrough
  <2>7. CASE ApplyVrrMode(t)
    <3>1. applied' \in Configs
      BY <2>7 DEF ApplyVrrMode, Configs
    <3>2. PICK to \in {"game"} : Goto(t, "vrr", to)
      BY <2>7 DEF ApplyVrrMode
    <3>3. skipped' \in BOOLEAN
      BY <2>7 DEF ApplyVrrMode
    <3>. QED
      BY <2>7, <3>1, <3>2, <3>3, Callback DEF ApplyVrrMode
  <2>8. CASE SetGameMode(t)
    <3>1. applied' \in Configs
      BY <2>8 DEF SetGameMode, Configs
    <3>2. PICK to \in {"idle"} : Goto(t, "game", to)
      BY <2>8 DEF SetGameMode
    <3>3. skipped' \in BOOLEAN
      BY <2>8 DEF SetGameMode
    <3>. QED
      BY <2>8, <3>1, <3>2, <3>3, Callback DEF SetGameMode
  <2>. QED
    BY <1>8, <2>1, <2>2, <2>3, <2>4, <2>5, <2>6, <2>7, <2>8 DEF config_reload
<1>9. CASE UNCHANGED vars
  BY <1>9 DEF vars
<1>. QED
  BY <1>1, <1>2, <1>3, <1>4, <1>5, <1>6, <1>7, <1>8, <1>9 DEF Next, Save, Main, Watch

Outside == {"idle", "size", "read", "lock"}

\* A step that neither copies a configuration nor belongs to a callback.
QuietStep ==
    /\ UNCHANGED <<g_config, g_config_prev, applied, overlap, skipped>>
    /\ \A t \in Threads :
          \/ frame'[t] = frame[t]
          \/ frame[t].pc \in Outside /\ frame'[t].pc \in Outside

\* What a thread that copies or calls back changes in the frames.
Moved(t, from, to) ==
    /\ frame[t].pc = from /\ frame'[t].pc = to
    /\ to # "idle" => frame'[t].new = frame[t].new /\ frame'[t].changes = frame[t].changes
    /\ \A u \in Threads \ {t} : frame'[u] = frame[u]

\* Every step is quiet or one of the six that touch the configuration.
LEMMA Steps ==
    ASSUME TypeOK, [Next]_vars
    PROVE  \/ QuietStep
           \/ \E t \in Threads :
                 \/ SavePrev(t) \/ CopyNew(t) \/ StopAudioPassthrough(t)
                 \/ StartAudioPassthrough(t) \/ ApplyVrrMode(t) \/ SetGameMode(t)
<1>. USE DEF TypeOK, QuietStep, Outside, configVars, history, fileVars
<1>1. CASE \/ \E c \in Configs : save_config(c) \/ Replace(c)
           \/ SaveClose \/ reload_service \/ WatchRead \/ UNCHANGED vars
  BY <1>1 DEF save_config, Replace, SaveClose, reload_service, WatchRead, vars
<1>2. CASE config_sighup_handler
  <2>1. Goto("main", "idle", "size")
    BY <1>2 DEF config_sighup_handler
  <2>2. /\ frame["main"].pc = "idle" /\ frame'["main"].pc = "size"
        /\ \A u \in Threads \ {"main"} : frame'[u] = frame[u]
    BY <2>1, GotoFrames DEF Pcs, Threads
  <2>. QED
    BY <1>2, <2>2 DEF config_sighup_handler
<1>3. CASE WatchEvent
  <2>1. Goto("watch", "idle", "size")
    BY <1>3 DEF WatchEvent
  <2>2. /\ frame["watch"].pc = "idle" /\ frame'["watch"].pc = "size"
        /\ \A u \in Threads \ {"watch"} : frame'[u] = frame[u]
    BY <2>1, GotoFrames DEF Pcs, Threads
  <2>. QED
    BY <1>3, <2>2 DEF WatchEvent
<1>4. ASSUME NEW t \in Threads, ReadSize(t) \/ ReadText(t) PROVE QuietStep
  <2>1. frame[t].pc \in Outside
    BY <1>4 DEF ReadSize, ReadText, Goto
  <2>2. frame'[t].pc \in Outside /\ \A u \in Threads \ {t} : frame'[u] = frame[u]
    BY <1>4 DEF ReadSize, ReadText, Goto, Idle, Reading, Parsed
  <2>. QED
    BY <1>4, <2>1, <2>2 DEF ReadSize, ReadText
<1>. QED
  BY <1>1, <1>2, <1>3, <1>4 DEF Next, Save, Main, Watch, config_reload, Threads

\* SavePrev takes the mutex, so no other thread is between the copies.
LEMMA SavePrevMoves ==
    ASSUME TypeOK, NEW t \in Threads, SavePrev(t)
    PROVE  /\ frame[t].pc = "lock" /\ frame'[t].pc = "copy"
           /\ frame'[t].new = frame[t].new
           /\ frame'[t].changes = config_compare(g_config, frame[t].new)
           /\ \A u \in Threads \ {t} : frame'[u] = frame[u]
           /\ \A u \in Threads : frame[u].pc # "copy"
BY ConstantsAssumption DEF TypeOK, SavePrev, Frames, Threads

\* CopyNew's thread is the only one between the copies.
LEMMA CopyNewMoves ==
    ASSUME TypeOK, NEW t \in Threads, CopyNew(t)
    PROVE  /\ Moved(t, "copy", CASE frame[t].changes = {} -> "idle"
                                 [] "audio" \in frame[t].changes -> "stop"
                                 [] OTHER -> "vrr")
           /\ \A u \in Threads \ {t} : frame[u].pc # "copy"
<1>. DEFINE to == CASE frame[t].changes = {} -> "idle"
                    [] "audio" \in frame[t].changes -> "stop"
                    [] OTHER -> "vrr"
<1>1. Goto(t, "copy", to)
  BY DEF CopyNew
<1>2. to \in Pcs
  BY DEF Pcs, CallbackPcs
<1>. HIDE DEF to
<1>3. Moved(t, "copy", to)
  BY <1>1, <1>2, GotoFrames DEF Moved, TypeOK
<1>4. \A u \in Threads \ {t} : frame[u].pc # "copy"
  BY <1>1 DEF TypeOK, Goto
<1>. QED
  BY <1>3, <1>4 DEF to

\* The steps of the callback move their thread on.
LEMMA CallbackMoves ==
    ASSUME TypeOK, NEW t \in Threads
    PROVE  /\ StopAudioPassthrough(t) => Moved(t, "stop", "start")
           /\ StartAudioPassthrough(t) =>
                 Moved(t, "start", IF "video" \in frame[t].changes THEN "vrr" ELSE "idle")
           /\ ApplyVrrMode(t) => Moved(t, "vrr", "game")
           /\ SetGameMode(t) => Moved(t, "game", "idle")
<1>. USE DEF TypeOK, Moved, Pcs, CallbackPcs
<1>1. ASSUME StopAudioPassthrough(t) PROVE Moved(t, "stop", "start")
  <2>1. Goto(t, "stop", "start")
    BY <1>1 DEF StopAudioPassthrough
  <2>. QED
    BY <2>1, GotoFrames
<1>2. ASSUME StartAudioPassthrough(t)
      PROVE  Moved(t, "start", IF "video" \in frame[t].changes THEN "vrr" ELSE "idle")
  <2>1. CASE "video" \in frame[t].changes
    <3>1. Goto(t, "start", "vrr")
      BY <1>2, <2>1 DEF StartAudioPassthrough
    <3>. QED
      BY <2>1, <3>1, GotoFrames
  <2>2. CASE "video" \notin frame[t].changes
    <3>1. Goto(t, "start", "idle")
      BY <1>2, <2>2 DEF StartAudioPassthrough
    <3>. QED
      BY <2>2, <3>1, GotoFrames
  <2>. QED
    BY <2>1, <2>2
<1>3. ASSUME ApplyVrrMode(t) PROVE Moved(t, "vrr", "game")
  <2>1. Goto(t, "vrr", "game")
    BY <1>3 DEF ApplyVrrMode
  <2>. QED
    BY <2>1, GotoFrames
<1>4. ASSUME SetGameMode(t) PROVE Moved(t, "game", "idle")
  <2>1. Goto(t, "game", "idle")
    BY <1>4 DEF SetGameMode
  <2>. QED
    BY <2>1, GotoFrames
<1>. QED
  BY <1>1, <1>2, <1>3, <1>4

\* Every step keeps CopyInv.
LEMMA CopyInvariant ==
    ASSUME TypeOK, CopyInv, [Next]_vars
    PROVE  CopyInv'
<1>. USE DEF CopyInv, configVars
<1>1. CASE QuietStep
  BY <1>1 DEF QuietStep, Outside
<1>2. ASSUME NEW t \in Threads, SavePrev(t) PROVE CopyInv'
  <2>1. g_config_prev' = g_config /\ g_config' = g_config
    BY <1>2 DEF SavePrev
  <2>2. frame'[t].changes = config_compare(g_config', frame'[t].new)
    BY <1>2, <2>1, SavePrevMoves
  <2>3. \A u \in Threads \ {t} : frame'[u].pc # "copy"
    BY <1>2, SavePrevMoves
  <2>. QED
    BY <2>1, <2>2, <2>3
<1>3. ASSUME NEW t \in Threads, CopyNew(t) PROVE CopyInv'
  <2>1. frame'[t].pc # "copy"
    BY <1>3, CopyNewMoves DEF Moved
  <2>2. \A u \in Threads : frame'[u].pc # "copy"
    BY <1>3, <2>1, CopyNewMoves DEF Moved
  <2>. QED
    BY <2>2
<1>4. ASSUME NEW t \in Threads,
             \/ StopAudioPassthrough(t) \/ StartAudioPassthrough(t)
             \/ ApplyVrrMode(t) \/ SetGameMode(t)
      PROVE  CopyInv'
  <2>1. UNCHANGED <<g_config, g_config_prev>>
    BY <1>4 DEF StopAudioPassthrough, StartAudioPassthrough, ApplyVrrMode, SetGameMode
  <2>2. frame'[t].pc # "copy" /\ \A u \in Threads \ {t} : frame'[u] = frame[u]
    BY <1>4, CallbackMoves DEF Moved
  <2>. QED
    BY <2>1, <2>2
<1>. QED
  BY <1>1, <1>2, <1>3, <1>4, Steps

\* Every step keeps AudioInv.
LEMMA AudioInvariant ==
    ASSUME TypeOK, CopyInv, AudioInv, [Next]_vars
    PROVE  AudioInv'
<1>. USE DEF AudioInv, configVars
<1>1. CASE QuietStep
  BY <1>1 DEF QuietStep, Outside
<1>2. ASSUME NEW t \in Threads, SavePrev(t) PROVE AudioInv'
  BY <1>2, SavePrevMoves DEF SavePrev
<1>3. ASSUME NEW t \in Threads, CopyNew(t) PROVE AudioInv'
  <2>1. g_config' = frame[t].new /\ UNCHANGED applied
    BY <1>3 DEF CopyNew
  <2>2. CASE "audio" \in frame[t].changes
    BY <1>3, <2>2, CopyNewMoves DEF Moved
  <2>3. CASE "audio" \notin frame[t].changes
    <3>1. g_config'.audio = g_config.audio
      BY <1>3, <2>1, <2>3, CopyNewMoves DEF CopyInv, Moved, config_compare
    <3>2. frame[t].pc = "copy" /\ frame'[t].pc \in {"idle", "vrr"}
          /\ \A u \in Threads \ {t} : frame'[u] = frame[u]
      BY <1>3, <2>3, CopyNewMoves DEF Moved
    <3>. QED
      BY <2>1, <3>1, <3>2
  <2>. QED
    BY <2>2, <2>3
<1>4. ASSUME NEW t \in Threads, StopAudioPassthrough(t) PROVE AudioInv'
  <2>1. applied'.audio = Off /\ UNCHANGED g_config
    BY <1>4 DEF StopAudioPassthrough, TypeOK, Configs
  <2>. QED
    BY <1>4, <2>1, CallbackMoves DEF Moved
<1>5. ASSUME NEW t \in Threads, StartAudioPassthrough(t) PROVE AudioInv'
  <2>1. /\ applied'.audio = IF applied.audio = Off THEN g_config.audio ELSE applied.audio
        /\ UNCHANGED g_config
    BY <1>5 DEF StartAudioPassthrough, TypeOK, Configs
  <2>2. /\ frame[t].pc = "start" /\ frame'[t].pc \in {"vrr", "idle"}
        /\ \A u \in Threads \ {t} : frame'[u] = frame[u]
    BY <1>5, CallbackMoves DEF Moved
  <2>. QED
    BY <2>1, <2>2
<1>6. ASSUME NEW t \in Threads, ApplyVrrMode(t) \/ SetGameMode(t) PROVE AudioInv'
  <2>1. applied'.audio = applied.audio /\ UNCHANGED g_config
    BY <1>6 DEF ApplyVrrMode, SetGameMode, TypeOK, Configs
  <2>2. /\ frame[t].pc \in {"vrr", "game"} /\ frame'[t].pc \in {"game", "idle"}
        /\ \A u \in Threads \ {t} : frame'[u] = frame[u]
    BY <1>6, CallbackMoves DEF Moved
  <2>. QED
    BY <2>1, <2>2
<1>. QED
  BY <1>1, <1>2, <1>3, <1>4, <1>5, <1>6, Steps

\* Every step keeps VideoInv.
LEMMA VideoInvariant ==
    ASSUME TypeOK, CopyInv, VideoInv, [Next]_vars
    PROVE  VideoInv'
<1>. SUFFICES ASSUME ~overlap'
              PROVE  /\ (\A t, u \in Changing : t = u)'
                     /\ (Changing = {} => Applied(g_config))'
                     /\ (\A t \in Changing :
                          /\ frame[t].pc \in {"copy", "stop", "start", "vrr"} =>
                                Applied(g_config_prev)
                          /\ frame[t].pc \in {"stop", "start"} /\ "video" \notin frame[t].changes =>
                                Applied(g_config)
                          /\ frame[t].pc = "game" =>
                                /\ applied.game = g_config_prev.game
                                /\ skipped \/ applied.vrr = g_config.vrr)'
  BY DEF VideoInv
<1>. USE DEF VideoInv, configVars, history, Changing, CallbackPcs
<1>1. CASE QuietStep
  <2>1. ~overlap
    BY <1>1 DEF QuietStep
  <2>2. Changing' = Changing /\ \A t \in Changing : frame'[t] = frame[t]
    BY <1>1 DEF QuietStep, Outside
  <2>. QED
    BY <1>1, <2>1, <2>2 DEF QuietStep, Applied
<1>2. ASSUME NEW t \in Threads, SavePrev(t) PROVE VideoInv'
  <2>1. ~overlap /\ Changing = {}
    BY <1>2, SavePrevMoves DEF SavePrev
  <2>2. Changing' = {t} /\ frame'[t].pc = "copy"
    BY <1>2, <2>1, SavePrevMoves
  <2>3. Applied(g_config_prev)'
    BY <1>2, <2>1 DEF SavePrev, Applied
  <2>. QED
    BY <2>2, <2>3
<1>3. ASSUME NEW t \in Threads, CopyNew(t) PROVE VideoInv'
  <2>1. /\ ~overlap /\ g_config' = frame[t].new
        /\ UNCHANGED <<g_config_prev, applied, skipped>>
    BY <1>3 DEF CopyNew
  <2>2. frame[t].pc = "copy" /\ Changing = {t}
    BY <1>3, <2>1, CopyNewMoves DEF Moved
  <2>3. Applied(g_config_prev)'
    BY <2>1, <2>2 DEF Applied
  <2>4. "video" \notin frame[t].changes => Applied(g_config)'
    <3>1. "video" \notin frame[t].changes =>
             frame[t].new.vrr = g_config.vrr /\ frame[t].new.game = g_config.game
      BY <2>2 DEF CopyInv, config_compare
    <3>2. g_config_prev = g_config
      BY <2>2 DEF CopyInv
    <3>. QED
      BY <2>1, <2>3, <3>1, <3>2 DEF Applied
  <2>5. frame[t].changes = {} => frame'[t].pc = "idle"
    BY <1>3, CopyNewMoves DEF Moved
  <2>6. frame[t].changes # {} => frame'[t].pc \in {"stop", "vrr"}
                                 /\ frame'[t].changes = frame[t].changes
    BY <1>3, CopyNewMoves DEF Moved
  <2>7. \A u \in Threads \ {t} : frame'[u] = frame[u]
    BY <1>3, CopyNewMoves DEF Moved
  <2>8. CASE frame[t].changes = {}
    BY <2>2, <2>4, <2>5, <2>7, <2>8
  <2>9. CASE frame[t].changes # {}
    <3>1. Changing' = {t}
      BY <2>2, <2>6, <2>7, <2>9
    <3>. QED
      BY <2>3, <2>4, <2>6, <2>9, <3>1
  <2>. QED
    BY <2>8, <2>9
<1>4. ASSUME NEW t \in Threads, StopAudioPassthrough(t) \/ StartAudioPassthrough(t)
      PROVE  VideoInv'
  <2>1. /\ ~overlap /\ UNCHANGED <<g_config, g_config_prev, skipped>>
        /\ applied'.vrr = applied.vrr /\ applied'.game = applied.game
    BY <1>4 DEF StopAudioPassthrough, StartAudioPassthrough, TypeOK, Configs
  <2>2. /\ frame[t].pc \in {"stop", "start"} /\ Changing = {t}
        /\ \A u \in Threads \ {t} : frame'[u] = frame[u]
    BY <1>4, <2>1, CallbackMoves DEF Moved
  <2>3. /\ frame'[t].pc \in {"start", "vrr", "idle"}
        /\ frame'[t].pc # "idle" => frame'[t].changes = frame[t].changes
        /\ frame'[t].pc = "idle" => "video" \notin frame[t].changes
    BY <1>4, CallbackMoves DEF Moved
  <2>4. Applied(g_config_prev)'
    BY <2>1, <2>2 DEF Applied
  <2>5. "video" \notin frame[t].changes => Applied(g_config)'
    BY <2>1, <2>2 DEF Applied
  <2>6. CASE frame'[t].pc = "idle"
    <3>1. Changing' = {}
      BY <2>2, <2>6
    <3>. QED
      BY <2>3, <2>5, <2>6, <3>1
  <2>7. CASE frame'[t].pc # "idle"
    <3>1. Changing' = {t}
      BY <2>2, <2>3, <2>7
    <3>. QED
      BY <2>3, <2>4, <2>5, <2>7, <3>1
  <2>. QED
    BY <2>6, <2>7
<1>5. ASSUME NEW t \in Threads, ApplyVrrMode(t) PROVE VideoInv'
  <2>1. /\ ~overlap /\ UNCHANGED <<g_config, g_config_prev>>
        /\ applied'.game = applied.game
    BY <1>5 DEF ApplyVrrMode, TypeOK, Configs
  <2>2. /\ frame[t].pc = "vrr" /\ frame'[t].pc = "game" /\ Changing = {t}
        /\ \A u \in Threads \ {t} : frame'[u] = frame[u]
    BY <1>5, <2>1, CallbackMoves DEF Moved
  <2>3. Applied(g_config_prev)
    BY <2>1, <2>2
  <2>4. (skipped \/ applied.vrr = g_config.vrr)'
    BY <1>5, <2>1, <2>3 DEF ApplyVrrMode, Applied, TypeOK, Configs
  <2>5. Changing' = {t}
    BY <2>2
  <2>. QED
    BY <2>1, <2>2, <2>3, <2>4, <2>5 DEF Applied
<1>6. ASSUME NEW t \in Threads, SetGameMode(t) PROVE VideoInv'
  <2>1. /\ ~overlap /\ UNCHANGED <<g_config, g_config_prev, skipped>>
        /\ applied'.vrr = applied.vrr
    BY <1>6 DEF SetGameMode, TypeOK, Configs
  <2>2. /\ frame[t].pc = "game" /\ frame'[t].pc = "idle" /\ Changing = {t}
        /\ \A u \in Threads \ {t} : frame'[u] = frame[u]
    BY <1>6, <2>1, CallbackMoves DEF Moved
  <2>3. applied.game = g_config_prev.game /\ (skipped \/ applied.vrr = g_config.vrr)
    BY <2>1, <2>2
  <2>4. applied'.game = g_config.game
    BY <1>6, <2>3 DEF SetGameMode, TypeOK, Configs
  <2>5. Changing' = {}
    BY <2>2
  <2>. QED
    BY <2>1, <2>3, <2>4, <2>5 DEF Applied
<1>. QED
  BY <1>1, <1>2, <1>3, <1>4, <1>5, <1>6, Steps

Inv == TypeOK /\ CopyInv /\ AudioInv /\ VideoInv

\* The inductive invariant holds of every state the program reaches.
THEOREM Invariance == Spec => []Inv
<1>1. Init => Inv
  <2>. SUFFICES ASSUME Init PROVE Inv
    OBVIOUS
  <2>1. Defaults \in Configs
    BY ConstantsAssumption DEF Defaults, Configs
  <2>2. TypeOK
    <3>1. Idle \in Frames
      BY DEF Idle, Frames
    <3>2. frame \in [Threads -> Frames] /\ \A t \in Threads : frame[t].pc = "idle"
      BY <3>1 DEF Init, Idle
    <3>3. files \in Seq(Texts) /\ Len(files) = 1
      BY <2>1 DEF Init, Texts
    <3>4. events \in Seq({"modify", "close"})
      BY DEF Init
    <3>5. /\ writer \in [pc : {"idle", "open", "closed"}, new : Configs \union {NONE}]
          /\ writer.pc = "idle"
      BY DEF Init
    <3>6. \A t \in Threads : mutex # t
      BY ConstantsAssumption DEF Init, Threads
    <3>7. writes = 0 /\ batch = 0 /\ mutex = NONE
      BY DEF Init
    <3>8. Len(files) \in 1..(writes + 1) /\ writes \in 0..MaxWrites /\ batch \in Nat
      BY <3>3, <3>7, ConstantsAssumption
    <3>9. /\ pending \in BOOLEAN /\ overlap \in BOOLEAN /\ skipped \in BOOLEAN
          /\ g_config \in Configs /\ g_config_prev \in Configs /\ applied \in Configs
      BY <2>1 DEF Init
    <3>. QED
      BY <3>2, <3>3, <3>4, <3>5, <3>6, <3>7, <3>8, <3>9, Zenon DEF TypeOK
  <2>3. \A t \in Threads : frame[t].pc = "idle"
    BY DEF Init, Idle
  <2>4. Changing = {}
    BY <2>3 DEF Changing, CallbackPcs
  <2>. QED
    BY <2>2, <2>3, <2>4 DEF Init, Inv, CopyInv, AudioInv, VideoInv, Applied
<1>2. Inv /\ [Next]_vars => Inv'
  BY TypeInvariant, CopyInvariant, AudioInvariant, VideoInvariant DEF Inv
<1>. QED
  BY <1>1, <1>2, PTL DEF Spec

\* The variables keep their types, and one thread at most is between the copies.
THEOREM TypeCorrect == Spec => []TypeOK
<1>1. Inv => TypeOK
  BY DEF Inv
<1>. QED
  BY <1>1, Invariance, PTL

\* Between reloads alsaloop runs with the audio section in force, whatever the
\* two threads' restarts did to each other.
THEOREM AudioFollowed == Spec => []AudioFollows
<1>1. Inv => AudioFollows
  BY DEF Inv, AudioInv, AudioFollows, NoReload
<1>. QED
  BY <1>1, Invariance, PTL

\* Between reloads that have not overlapped, the game mode and an unskipped VRR
\* mode are those in force.
THEOREM VideoFollowed == Spec => []VideoFollows
<1>1. Inv => VideoFollows
  BY DEF Inv, VideoInv, Changing, CallbackPcs, Applied, VideoFollows, NoReload
<1>. QED
  BY <1>1, Invariance, PTL
=============================================================================
