----------------------------- MODULE CTv_proofs -----------------------------
(***************************************************************************)
(* Theorems about CTv, for every set of sources and every choice of the    *)
(* other constants.                                                        *)
(***************************************************************************)
EXTENDS CTv, TLAPS

(***************************************************************************)
(* The strengthening of DecoderAgreement and StartNeverBusy: what the two  *)
(* flags are at each point of the two sections, and why no two sections    *)
(* overlap while the history says "clean" or "resetting".                  *)
(***************************************************************************)
\* Inside a section the flags differ in the way the code between the ioctl and
\* the assignment leaves them.
SectionFlags ==
    sync = "clean" =>
        /\ pollPc \in {"startIoctl", "startFail"} => ~mDecoderStarted /\ ~decStarted
        /\ pollPc = "startFlag" => ~mDecoderStarted /\ decStarted
        /\ pollPc = "stopIoctl" \/ cmdPc \in {"stopIoctl", "edidIoctl"}
              => mDecoderStarted /\ decStarted
        /\ pollPc = "stopFlag" \/ cmdPc \in {"stopFlag", "edidFlag"}
              => mDecoderStarted /\ ~decStarted

\* A reset that runs alone has stopped the decoder and keeps the poll thread's
\* sections out, or the history says "unknown".
ResetAlone ==
    /\ sync = "resetting" => cmdPc \in ResetSection /\ ~decStarted
    /\ sync = "clean" => cmdPc \notin ResetSection

NoOverlap == sync # "unknown" => pollPc \notin PollSection \/ cmdPc \notin CmdSection

SyncInv == DecoderAgreement /\ SectionFlags /\ ResetAlone /\ NoOverlap

(***************************************************************************)
(* Every step keeps the types.                                             *)
(***************************************************************************)
\* TypeOK in two parts: the Booleans go to Zenon, the rest to SMT.
FlagsOK ==
    /\ decStarted \in BOOLEAN
    /\ event \in BOOLEAN
    /\ layer \in BOOLEAN
    /\ output \in BOOLEAN
    /\ mDecoderStarted \in BOOLEAN
    /\ mHeadlessMode \in BOOLEAN
    /\ audioPatch \in BOOLEAN
    /\ quiet \in BOOLEAN
    /\ pathKnown \in BOOLEAN

ValuesOK ==
    /\ port \in Sources \union {SOURCE_INVALID}
    /\ sig \in Status
    /\ up \in Phases
    /\ mCurrentSource \in Sources \union {SOURCE_INVALID}
    /\ mStatus \in Status
    /\ path \in {"none", "full", "capture"}
    /\ msgs \in Nat
    /\ cmdPc \in CmdPcs
    /\ cmdSource \in Sources \union {SOURCE_INVALID}
    /\ pollPc \in PollPcs
    /\ handler \in Handlers
    /\ msgPc \in {"wait", "layerOn", "outputOn"}
    /\ sync \in {"unknown", "resetting", "clean"}
    /\ told \in Status \union {"missed"}

\* Every step keeps the Boolean variables Boolean.
LEMMA FlagsTyped ==
    ASSUME TypeOK, [Next]_vars
    PROVE  FlagsOK'
<1>. USE ConstantsAssumption DEF TypeOK, FlagsOK,
         driverVars, displayVars, fieldVars, modeVars, pathVars, cmdVars, pollVars
<1>1. CASE CreateMsgQueue
  BY <1>1 DEF CreateMsgQueue
<1>2. CASE SetTvObserver
  BY <1>2 DEF SetTvObserver
<1>3. CASE Kill
  BY <1>3 DEF Kill, Die, Construct
<1>4. CASE Restart
  BY <1>4 DEF Restart, AddFullPath, Tvin_AddVideoPath, MapResults
<1>5. ASSUME NEW s \in Sources, StartTv(s) PROVE FlagsOK'
  BY <1>5 DEF StartTv, Begin
<1>6. CASE StopTv
  BY <1>6 DEF StopTv, Begin
<1>7. ASSUME NEW h \in BOOLEAN, SetHeadlessMode(h) PROVE FlagsOK'
  BY <1>7 DEF SetHeadlessMode, Begin, Tvin_RemoveVideoPath, MapResults
<1>8. CASE StartTvOpenPort
  BY <1>8 DEF StartTvOpenPort, CmdGoto, VDIN_OpenPort
<1>9. CASE StartTvSetSource
  BY <1>9 DEF StartTvSetSource, CmdGoto
<1>10. CASE StopTvLayerOff
  BY <1>10 DEF StopTvLayerOff, CmdGoto
<1>11. CASE StopTvOutputOff
  BY <1>11 DEF StopTvOutputOff, CmdGoto
<1>12. CASE ForceResetStop
  BY <1>12 DEF ForceResetStop, CmdGoto, VDIN_StopDec, StopDecResults, SyncAfter
<1>13. CASE ForceResetClose
  BY <1>13 DEF ForceResetClose, CmdGoto, VDIN_ClosePort
<1>14. CASE ForceResetFlag
  BY <1>14 DEF ForceResetFlag, CmdGoto
<1>15. CASE StopTvStopCheck
  BY <1>15 DEF StopTvStopCheck, StopDecoderCheck, CmdGoto, SyncAfter
<1>16. CASE StopTvStopIoctl
  BY <1>16 DEF StopTvStopIoctl, StopDecoderIoctl, CmdGoto, VDIN_StopDec, StopDecResults, SyncAfter
<1>17. CASE StopTvStopFlag
  BY <1>17 DEF StopTvStopFlag, StopDecoderFlag, CmdGoto
<1>18. CASE StopTvClosePort
  BY <1>18 DEF StopTvClosePort, CmdGoto, VDIN_ClosePort
<1>19. CASE StopTvClear
  BY <1>19 DEF StopTvClear, CmdGoto
<1>20. CASE StopTvReturn
  BY <1>20 DEF StopTvReturn, CmdGoto
<1>21. CASE SetHeadlessModeAddPath
  BY <1>21 DEF SetHeadlessModeAddPath, CmdGoto, Tvin_AddVideoPath, ModePathResults, MapResults
<1>22. CASE PollTakeEvent
  BY <1>22 DEF PollTakeEvent, PollGoto, Disturb
<1>23. CASE PollSetInfo
  BY <1>23 DEF PollSetInfo, PollGoto, Disturb
<1>24. CASE PollBranch
  BY <1>24 DEF PollBranch, Disturb, HandlerFor
<1>25. CASE PollStartCheck
  BY <1>25 DEF PollStartCheck, PollGoto, Disturb, SyncAfter, AfterStart
<1>26. CASE PollStartIoctl
  BY <1>26 DEF PollStartIoctl, PollGoto, Disturb, StartDecResults
<1>27. CASE PollStartFlag
  BY <1>27 DEF PollStartFlag, PollGoto, Disturb, AfterStart
<1>28. CASE PollSendMsg
  BY <1>28 DEF PollSendMsg, PollGoto, Disturb
<1>29. CASE PollSendMsgUnset
  BY <1>29 DEF PollSendMsgUnset, Die, Construct
<1>30. CASE PollLayerOn
  BY <1>30 DEF PollLayerOn, PollGoto, Disturb
<1>31. CASE PollLayerOff
  BY <1>31 DEF PollLayerOff, PollGoto, Disturb
<1>32. CASE PollStopCheck
  BY <1>32 DEF PollStopCheck, PollGoto, Disturb, SyncAfter, AfterStop
<1>33. CASE PollStopIoctl
  BY <1>33 DEF PollStopIoctl, PollGoto, Disturb, VDIN_StopDec, StopDecResults, SyncAfter
<1>34. CASE PollStopFlag
  BY <1>34 DEF PollStopFlag, PollGoto, Disturb, AfterStop
<1>35. CASE PollSendEvent
  BY <1>35 DEF PollSendEvent, PollGoto, Disturb
<1>36. CASE MsgTake
  BY <1>36 DEF MsgTake, MsgGoto, Disturb
<1>37. CASE MsgLayerOn
  BY <1>37 DEF MsgLayerOn, MsgGoto, Disturb
<1>38. CASE MsgOutputOn
  BY <1>38 DEF MsgOutputOn, MsgGoto, Disturb
<1>39. CASE SignalChange
  BY <1>39 DEF SignalChange, Disturb
<1>40. CASE UNCHANGED vars
  BY <1>40 DEF vars
<1>41. CASE SetEdidVersion
  BY <1>41 DEF SetEdidVersion, Begin
<1>42. CASE muteVideoOnHDMISource
  BY <1>42 DEF muteVideoOnHDMISource
<1>43. CASE EdidStopCheck
  BY <1>43 DEF EdidStopCheck, StopDecoderCheck, CmdGoto, SyncAfter
<1>44. CASE EdidStopIoctl
  BY <1>44 DEF EdidStopIoctl, StopDecoderIoctl, CmdGoto, VDIN_StopDec, StopDecResults, SyncAfter
<1>45. CASE EdidStopFlag
  BY <1>45 DEF EdidStopFlag, StopDecoderFlag, CmdGoto
<1>46. CASE SetHeadlessModeRestorePath
  BY <1>46 DEF SetHeadlessModeRestorePath, CmdGoto, Tvin_AddVideoPath, MapResults
<1>. QED
  BY <1>1, <1>2, <1>3, <1>4, <1>5, <1>6, <1>7, <1>8, <1>9, <1>10, <1>11,
     <1>12, <1>13, <1>14, <1>15, <1>16, <1>17, <1>18, <1>19, <1>20, <1>21,
     <1>22, <1>23, <1>24, <1>25, <1>26, <1>27, <1>28, <1>29, <1>30, <1>31,
     <1>32, <1>33, <1>34, <1>35, <1>36, <1>37, <1>38, <1>39, <1>40,
     <1>41, <1>42, <1>43, <1>44, <1>45, <1>46
  DEF Next, Command, CmdStep, PollStep, MsgStep

\* Every step keeps the other variables in their types.
LEMMA ValuesTyped ==
    ASSUME TypeOK, [Next]_vars
    PROVE  ValuesOK'
<1>. USE ConstantsAssumption DEF TypeOK, ValuesOK,
         driverVars, displayVars, fieldVars, modeVars, pathVars, cmdVars, pollVars,
         Status, Detected, CmdPcs, PollPcs, Handlers, Phases
<1>1. CASE CreateMsgQueue
  BY <1>1 DEF CreateMsgQueue
<1>2. CASE SetTvObserver
  BY <1>2 DEF SetTvObserver
<1>3. CASE Kill
  BY <1>3 DEF Kill, Die, Construct
<1>4. CASE Restart
  BY <1>4 DEF Restart, AddFullPath, Tvin_AddVideoPath, MapResults
<1>5. ASSUME NEW s \in Sources, StartTv(s) PROVE ValuesOK'
  BY <1>5 DEF StartTv, Begin
<1>6. CASE StopTv
  BY <1>6 DEF StopTv, Begin
<1>7. ASSUME NEW h \in BOOLEAN, SetHeadlessMode(h) PROVE ValuesOK'
  BY <1>7 DEF SetHeadlessMode, Begin, Tvin_RemoveVideoPath, MapResults
<1>8. CASE StartTvOpenPort
  BY <1>8 DEF StartTvOpenPort, CmdGoto, VDIN_OpenPort
<1>9. CASE StartTvSetSource
  BY <1>9 DEF StartTvSetSource, CmdGoto
<1>10. CASE StopTvLayerOff
  BY <1>10 DEF StopTvLayerOff, CmdGoto
<1>11. CASE StopTvOutputOff
  BY <1>11 DEF StopTvOutputOff, CmdGoto
<1>12. CASE ForceResetStop
  BY <1>12 DEF ForceResetStop, CmdGoto, VDIN_StopDec, StopDecResults, SyncAfter
<1>13. CASE ForceResetClose
  BY <1>13 DEF ForceResetClose, CmdGoto, VDIN_ClosePort
<1>14. CASE ForceResetFlag
  BY <1>14 DEF ForceResetFlag, CmdGoto
<1>15. CASE StopTvStopCheck
  BY <1>15 DEF StopTvStopCheck, StopDecoderCheck, CmdGoto, SyncAfter
<1>16. CASE StopTvStopIoctl
  BY <1>16 DEF StopTvStopIoctl, StopDecoderIoctl, CmdGoto, VDIN_StopDec, StopDecResults, SyncAfter
<1>17. CASE StopTvStopFlag
  BY <1>17 DEF StopTvStopFlag, StopDecoderFlag, CmdGoto
<1>18. CASE StopTvClosePort
  BY <1>18 DEF StopTvClosePort, CmdGoto, VDIN_ClosePort
<1>19. CASE StopTvClear
  BY <1>19 DEF StopTvClear, CmdGoto
<1>20. CASE StopTvReturn
  BY <1>20 DEF StopTvReturn, CmdGoto
<1>21. CASE SetHeadlessModeAddPath
  BY <1>21 DEF SetHeadlessModeAddPath, CmdGoto, Tvin_AddVideoPath, ModePathResults, MapResults
<1>22. CASE PollTakeEvent
  BY <1>22 DEF PollTakeEvent, PollGoto, Disturb
<1>23. CASE PollSetInfo
  BY <1>23 DEF PollSetInfo, PollGoto, Disturb
<1>24. CASE PollBranch
  BY <1>24 DEF PollBranch, Disturb, HandlerFor
<1>25. CASE PollStartCheck
  BY <1>25 DEF PollStartCheck, PollGoto, Disturb, SyncAfter, AfterStart
<1>26. CASE PollStartIoctl
  BY <1>26 DEF PollStartIoctl, PollGoto, Disturb, StartDecResults
<1>27. CASE PollStartFlag
  BY <1>27 DEF PollStartFlag, PollGoto, Disturb, AfterStart
<1>28. CASE PollSendMsg
  BY <1>28 DEF PollSendMsg, PollGoto, Disturb
<1>29. CASE PollSendMsgUnset
  BY <1>29 DEF PollSendMsgUnset, Die, Construct
<1>30. CASE PollLayerOn
  BY <1>30 DEF PollLayerOn, PollGoto, Disturb
<1>31. CASE PollLayerOff
  BY <1>31 DEF PollLayerOff, PollGoto, Disturb
<1>32. CASE PollStopCheck
  BY <1>32 DEF PollStopCheck, PollGoto, Disturb, SyncAfter, AfterStop
<1>33. CASE PollStopIoctl
  BY <1>33 DEF PollStopIoctl, PollGoto, Disturb, VDIN_StopDec, StopDecResults, SyncAfter
<1>34. CASE PollStopFlag
  BY <1>34 DEF PollStopFlag, PollGoto, Disturb, AfterStop
<1>35. CASE PollSendEvent
  BY <1>35 DEF PollSendEvent, PollGoto, Disturb
<1>36. CASE MsgTake
  BY <1>36 DEF MsgTake, MsgGoto, Disturb
<1>37. CASE MsgLayerOn
  BY <1>37 DEF MsgLayerOn, MsgGoto, Disturb
<1>38. CASE MsgOutputOn
  BY <1>38 DEF MsgOutputOn, MsgGoto, Disturb
<1>39. CASE SignalChange
  BY <1>39 DEF SignalChange, Disturb
<1>40. CASE UNCHANGED vars
  BY <1>40 DEF vars
<1>41. CASE SetEdidVersion
  BY <1>41 DEF SetEdidVersion, Begin
<1>42. CASE muteVideoOnHDMISource
  BY <1>42 DEF muteVideoOnHDMISource
<1>43. CASE EdidStopCheck
  BY <1>43 DEF EdidStopCheck, StopDecoderCheck, CmdGoto, SyncAfter
<1>44. CASE EdidStopIoctl
  BY <1>44 DEF EdidStopIoctl, StopDecoderIoctl, CmdGoto, VDIN_StopDec, StopDecResults, SyncAfter
<1>45. CASE EdidStopFlag
  BY <1>45 DEF EdidStopFlag, StopDecoderFlag, CmdGoto
<1>46. CASE SetHeadlessModeRestorePath
  BY <1>46 DEF SetHeadlessModeRestorePath, CmdGoto, Tvin_AddVideoPath, MapResults
<1>. QED
  BY <1>1, <1>2, <1>3, <1>4, <1>5, <1>6, <1>7, <1>8, <1>9, <1>10, <1>11,
     <1>12, <1>13, <1>14, <1>15, <1>16, <1>17, <1>18, <1>19, <1>20, <1>21,
     <1>22, <1>23, <1>24, <1>25, <1>26, <1>27, <1>28, <1>29, <1>30, <1>31,
     <1>32, <1>33, <1>34, <1>35, <1>36, <1>37, <1>38, <1>39, <1>40,
     <1>41, <1>42, <1>43, <1>44, <1>45, <1>46
  DEF Next, Command, CmdStep, PollStep, MsgStep

\* Both halves together: every step keeps the type invariant.
LEMMA TypeInvariant ==
    ASSUME TypeOK, [Next]_vars
    PROVE  TypeOK'
<1>. FlagsOK' /\ ValuesOK'
  BY FlagsTyped, ValuesTyped
<1>. QED
  BY DEF TypeOK, FlagsOK, ValuesOK

(***************************************************************************)
(* Every step keeps the strengthening.                                     *)
(***************************************************************************)
\* Every step keeps SyncInv.
LEMMA SyncInvariant ==
    ASSUME TypeOK, SyncInv, [Next]_vars
    PROVE  SyncInv'
<1>. USE ConstantsAssumption DEF TypeOK, SyncInv, DecoderAgreement, SectionFlags,
         ResetAlone, NoOverlap, PollSection, ResetSection, CmdSection,
         driverVars, displayVars, fieldVars, modeVars, pathVars, cmdVars, pollVars
<1>1. CASE CreateMsgQueue
  BY <1>1 DEF CreateMsgQueue
<1>2. CASE SetTvObserver
  BY <1>2 DEF SetTvObserver
<1>3. CASE Kill
  BY <1>3 DEF Kill, Die, Construct
<1>4. CASE Restart
  BY <1>4 DEF Restart, AddFullPath, Tvin_AddVideoPath, MapResults
<1>5. ASSUME NEW s \in Sources, StartTv(s) PROVE SyncInv'
  BY <1>5 DEF StartTv, Begin
<1>6. CASE StopTv
  BY <1>6 DEF StopTv, Begin
<1>7. ASSUME NEW h \in BOOLEAN, SetHeadlessMode(h) PROVE SyncInv'
  BY <1>7 DEF SetHeadlessMode, Begin, Tvin_RemoveVideoPath, MapResults
<1>8. CASE StartTvOpenPort
  BY <1>8 DEF StartTvOpenPort, CmdGoto, VDIN_OpenPort
<1>9. CASE StartTvSetSource
  BY <1>9 DEF StartTvSetSource, CmdGoto
<1>10. CASE StopTvLayerOff
  BY <1>10 DEF StopTvLayerOff, CmdGoto
<1>11. CASE StopTvOutputOff
  BY <1>11 DEF StopTvOutputOff, CmdGoto
<1>12. CASE ForceResetStop
  BY <1>12 DEF ForceResetStop, CmdGoto, VDIN_StopDec, StopDecResults, SyncAfter
<1>13. CASE ForceResetClose
  BY <1>13 DEF ForceResetClose, CmdGoto, VDIN_ClosePort
<1>14. CASE ForceResetFlag
  BY <1>14 DEF ForceResetFlag, CmdGoto
<1>15. CASE StopTvStopCheck
  BY <1>15 DEF StopTvStopCheck, StopDecoderCheck, CmdGoto, SyncAfter
<1>16. CASE StopTvStopIoctl
  BY <1>16 DEF StopTvStopIoctl, StopDecoderIoctl, CmdGoto, VDIN_StopDec, StopDecResults, SyncAfter
<1>17. CASE StopTvStopFlag
  BY <1>17 DEF StopTvStopFlag, StopDecoderFlag, CmdGoto
<1>18. CASE StopTvClosePort
  BY <1>18 DEF StopTvClosePort, CmdGoto, VDIN_ClosePort
<1>19. CASE StopTvClear
  BY <1>19 DEF StopTvClear, CmdGoto
<1>20. CASE StopTvReturn
  BY <1>20 DEF StopTvReturn, CmdGoto
<1>21. CASE SetHeadlessModeAddPath
  BY <1>21 DEF SetHeadlessModeAddPath, CmdGoto, Tvin_AddVideoPath, ModePathResults, MapResults
<1>22. CASE PollTakeEvent
  BY <1>22 DEF PollTakeEvent, PollGoto, Disturb
<1>23. CASE PollSetInfo
  BY <1>23 DEF PollSetInfo, PollGoto, Disturb
<1>24. CASE PollBranch
  BY <1>24 DEF PollBranch, Disturb, HandlerFor
<1>25. CASE PollStartCheck
  BY <1>25 DEF PollStartCheck, PollGoto, Disturb, SyncAfter, AfterStart
<1>26. CASE PollStartIoctl
  BY <1>26 DEF PollStartIoctl, PollGoto, Disturb, StartDecResults
<1>27. CASE PollStartFlag
  BY <1>27 DEF PollStartFlag, PollGoto, Disturb, AfterStart
<1>28. CASE PollSendMsg
  BY <1>28 DEF PollSendMsg, PollGoto, Disturb
<1>29. CASE PollSendMsgUnset
  BY <1>29 DEF PollSendMsgUnset, Die, Construct
<1>30. CASE PollLayerOn
  BY <1>30 DEF PollLayerOn, PollGoto, Disturb
<1>31. CASE PollLayerOff
  BY <1>31 DEF PollLayerOff, PollGoto, Disturb
<1>32. CASE PollStopCheck
  BY <1>32 DEF PollStopCheck, PollGoto, Disturb, SyncAfter, AfterStop
<1>33. CASE PollStopIoctl
  BY <1>33 DEF PollStopIoctl, PollGoto, Disturb, VDIN_StopDec, StopDecResults, SyncAfter
<1>34. CASE PollStopFlag
  BY <1>34 DEF PollStopFlag, PollGoto, Disturb, AfterStop
<1>35. CASE PollSendEvent
  BY <1>35 DEF PollSendEvent, PollGoto, Disturb
<1>36. CASE MsgTake
  BY <1>36 DEF MsgTake, MsgGoto, Disturb
<1>37. CASE MsgLayerOn
  BY <1>37 DEF MsgLayerOn, MsgGoto, Disturb
<1>38. CASE MsgOutputOn
  BY <1>38 DEF MsgOutputOn, MsgGoto, Disturb
<1>39. CASE SignalChange
  BY <1>39 DEF SignalChange, Disturb
<1>40. CASE UNCHANGED vars
  BY <1>40 DEF vars
<1>41. CASE SetEdidVersion
  BY <1>41 DEF SetEdidVersion, Begin
<1>42. CASE muteVideoOnHDMISource
  BY <1>42 DEF muteVideoOnHDMISource
<1>43. CASE EdidStopCheck
  BY <1>43 DEF EdidStopCheck, StopDecoderCheck, CmdGoto, SyncAfter
<1>44. CASE EdidStopIoctl
  BY <1>44 DEF EdidStopIoctl, StopDecoderIoctl, CmdGoto, VDIN_StopDec, StopDecResults, SyncAfter
<1>45. CASE EdidStopFlag
  BY <1>45 DEF EdidStopFlag, StopDecoderFlag, CmdGoto
<1>46. CASE SetHeadlessModeRestorePath
  BY <1>46 DEF SetHeadlessModeRestorePath, CmdGoto, Tvin_AddVideoPath, MapResults
<1>. QED
  BY <1>1, <1>2, <1>3, <1>4, <1>5, <1>6, <1>7, <1>8, <1>9, <1>10, <1>11,
     <1>12, <1>13, <1>14, <1>15, <1>16, <1>17, <1>18, <1>19, <1>20, <1>21,
     <1>22, <1>23, <1>24, <1>25, <1>26, <1>27, <1>28, <1>29, <1>30, <1>31,
     <1>32, <1>33, <1>34, <1>35, <1>36, <1>37, <1>38, <1>39, <1>40,
     <1>41, <1>42, <1>43, <1>44, <1>45, <1>46
  DEF Next, Command, CmdStep, PollStep, MsgStep

(***************************************************************************)
(* ToldMatchesStatus: the stored status is unreported only between         *)
(* SetCurrenSourceInfo and sendTvEvent, and the one handler that sends     *)
(* nothing runs on a status nobody is told of.                             *)
(***************************************************************************)
Reported == mStatus \in Detected \ {"UNSTABLE"} => told \in {mStatus, "missed"}

ToldInv ==
    /\ pollPc \in {"wait", "setInfo"} => Reported
    /\ pollPc \in {"wait", "setInfo", "branch"} => handler = "none"
    /\ handler = "unstable" => mStatus \in {"NULL", "UNSTABLE"}

\* Every step of every thread keeps ToldInv.
LEMMA ToldInvariant ==
    ASSUME TypeOK, ToldInv, [Next]_vars
    PROVE  ToldInv'
<1>. USE ConstantsAssumption DEF TypeOK, ToldInv, Reported, Status, Detected,
         driverVars, displayVars, fieldVars, modeVars, pathVars, cmdVars, pollVars
<1>1. CASE CreateMsgQueue
  BY <1>1 DEF CreateMsgQueue
<1>2. CASE SetTvObserver
  BY <1>2 DEF SetTvObserver
<1>3. CASE Kill
  BY <1>3 DEF Kill, Die, Construct
<1>4. CASE Restart
  BY <1>4 DEF Restart, AddFullPath, Tvin_AddVideoPath, MapResults
<1>5. ASSUME NEW s \in Sources, StartTv(s) PROVE ToldInv'
  BY <1>5 DEF StartTv, Begin
<1>6. CASE StopTv
  BY <1>6 DEF StopTv, Begin
<1>7. ASSUME NEW h \in BOOLEAN, SetHeadlessMode(h) PROVE ToldInv'
  BY <1>7 DEF SetHeadlessMode, Begin, Tvin_RemoveVideoPath, MapResults
<1>8. CASE StartTvOpenPort
  BY <1>8 DEF StartTvOpenPort, CmdGoto, VDIN_OpenPort
<1>9. CASE StartTvSetSource
  BY <1>9 DEF StartTvSetSource, CmdGoto
<1>10. CASE StopTvLayerOff
  BY <1>10 DEF StopTvLayerOff, CmdGoto
<1>11. CASE StopTvOutputOff
  BY <1>11 DEF StopTvOutputOff, CmdGoto
<1>12. CASE ForceResetStop
  BY <1>12 DEF ForceResetStop, CmdGoto, VDIN_StopDec, StopDecResults, SyncAfter
<1>13. CASE ForceResetClose
  BY <1>13 DEF ForceResetClose, CmdGoto, VDIN_ClosePort
<1>14. CASE ForceResetFlag
  BY <1>14 DEF ForceResetFlag, CmdGoto
<1>15. CASE StopTvStopCheck
  BY <1>15 DEF StopTvStopCheck, StopDecoderCheck, CmdGoto, SyncAfter
<1>16. CASE StopTvStopIoctl
  BY <1>16 DEF StopTvStopIoctl, StopDecoderIoctl, CmdGoto, VDIN_StopDec, StopDecResults, SyncAfter
<1>17. CASE StopTvStopFlag
  BY <1>17 DEF StopTvStopFlag, StopDecoderFlag, CmdGoto
<1>18. CASE StopTvClosePort
  BY <1>18 DEF StopTvClosePort, CmdGoto, VDIN_ClosePort
<1>19. CASE StopTvClear
  BY <1>19 DEF StopTvClear, CmdGoto
<1>20. CASE StopTvReturn
  BY <1>20 DEF StopTvReturn, CmdGoto
<1>21. CASE SetHeadlessModeAddPath
  BY <1>21 DEF SetHeadlessModeAddPath, CmdGoto, Tvin_AddVideoPath, ModePathResults, MapResults
<1>22. CASE PollTakeEvent
  BY <1>22 DEF PollTakeEvent, PollGoto, Disturb
<1>23. CASE PollSetInfo
  BY <1>23 DEF PollSetInfo, PollGoto, Disturb
<1>24. CASE PollBranch
  BY <1>24 DEF PollBranch, Disturb, HandlerFor
<1>25. CASE PollStartCheck
  BY <1>25 DEF PollStartCheck, PollGoto, Disturb, SyncAfter, AfterStart
<1>26. CASE PollStartIoctl
  BY <1>26 DEF PollStartIoctl, PollGoto, Disturb, StartDecResults
<1>27. CASE PollStartFlag
  BY <1>27 DEF PollStartFlag, PollGoto, Disturb, AfterStart
<1>28. CASE PollSendMsg
  BY <1>28 DEF PollSendMsg, PollGoto, Disturb
<1>29. CASE PollSendMsgUnset
  BY <1>29 DEF PollSendMsgUnset, Die, Construct
<1>30. CASE PollLayerOn
  BY <1>30 DEF PollLayerOn, PollGoto, Disturb
<1>31. CASE PollLayerOff
  BY <1>31 DEF PollLayerOff, PollGoto, Disturb
<1>32. CASE PollStopCheck
  BY <1>32 DEF PollStopCheck, PollGoto, Disturb, SyncAfter, AfterStop
<1>33. CASE PollStopIoctl
  BY <1>33 DEF PollStopIoctl, PollGoto, Disturb, VDIN_StopDec, StopDecResults, SyncAfter
<1>34. CASE PollStopFlag
  BY <1>34 DEF PollStopFlag, PollGoto, Disturb, AfterStop
<1>35. CASE PollSendEvent
  BY <1>35 DEF PollSendEvent, PollGoto, Disturb
<1>36. CASE MsgTake
  BY <1>36 DEF MsgTake, MsgGoto, Disturb
<1>37. CASE MsgLayerOn
  BY <1>37 DEF MsgLayerOn, MsgGoto, Disturb
<1>38. CASE MsgOutputOn
  BY <1>38 DEF MsgOutputOn, MsgGoto, Disturb
<1>39. CASE SignalChange
  BY <1>39 DEF SignalChange, Disturb
<1>40. CASE UNCHANGED vars
  BY <1>40 DEF vars
<1>41. CASE SetEdidVersion
  BY <1>41 DEF SetEdidVersion, Begin
<1>42. CASE muteVideoOnHDMISource
  BY <1>42 DEF muteVideoOnHDMISource
<1>43. CASE EdidStopCheck
  BY <1>43 DEF EdidStopCheck, StopDecoderCheck, CmdGoto, SyncAfter
<1>44. CASE EdidStopIoctl
  BY <1>44 DEF EdidStopIoctl, StopDecoderIoctl, CmdGoto, VDIN_StopDec, StopDecResults, SyncAfter
<1>45. CASE EdidStopFlag
  BY <1>45 DEF EdidStopFlag, StopDecoderFlag, CmdGoto
<1>46. CASE SetHeadlessModeRestorePath
  BY <1>46 DEF SetHeadlessModeRestorePath, CmdGoto, Tvin_AddVideoPath, MapResults
<1>. QED
  BY <1>1, <1>2, <1>3, <1>4, <1>5, <1>6, <1>7, <1>8, <1>9, <1>10, <1>11,
     <1>12, <1>13, <1>14, <1>15, <1>16, <1>17, <1>18, <1>19, <1>20, <1>21,
     <1>22, <1>23, <1>24, <1>25, <1>26, <1>27, <1>28, <1>29, <1>30, <1>31,
     <1>32, <1>33, <1>34, <1>35, <1>36, <1>37, <1>38, <1>39, <1>40,
     <1>41, <1>42, <1>43, <1>44, <1>45, <1>46
  DEF Next, Command, CmdStep, PollStep, MsgStep

(***************************************************************************)
(* HeadlessPathConsistent: while the map is known the path is gone inside  *)
(* SetHeadlessMode and only there.                                         *)
(***************************************************************************)
PathInv ==
    /\ pathKnown => up # "down"
    /\ pathKnown /\ cmdPc \in {"addPath", "restorePath"} => path = "none"
    /\ pathKnown /\ cmdPc \notin {"addPath", "restorePath"} =>
          path = IF mHeadlessMode THEN "capture" ELSE "full"
    /\ up = "down" => ~mHeadlessMode /\ cmdPc = "idle"
    /\ cmdPc = "restorePath" => ~mHeadlessMode

\* Every step keeps PathInv: only SetHeadlessMode touches the path.
LEMMA PathInvariant ==
    ASSUME TypeOK, PathInv, [Next]_vars
    PROVE  PathInv'
<1>. USE ConstantsAssumption DEF TypeOK, PathInv,
         driverVars, displayVars, fieldVars, modeVars, pathVars, cmdVars, pollVars
<1>1. CASE CreateMsgQueue
  BY <1>1 DEF CreateMsgQueue
<1>2. CASE SetTvObserver
  BY <1>2 DEF SetTvObserver
<1>3. CASE Kill
  BY <1>3 DEF Kill, Die, Construct
<1>4. CASE Restart
  BY <1>4 DEF Restart, AddFullPath, Tvin_AddVideoPath, MapResults
<1>5. ASSUME NEW s \in Sources, StartTv(s) PROVE PathInv'
  BY <1>5 DEF StartTv, Begin
<1>6. CASE StopTv
  BY <1>6 DEF StopTv, Begin
<1>7. ASSUME NEW h \in BOOLEAN, SetHeadlessMode(h) PROVE PathInv'
  BY <1>7 DEF SetHeadlessMode, Begin, Tvin_RemoveVideoPath, MapResults
<1>8. CASE StartTvOpenPort
  BY <1>8 DEF StartTvOpenPort, CmdGoto, VDIN_OpenPort
<1>9. CASE StartTvSetSource
  BY <1>9 DEF StartTvSetSource, CmdGoto
<1>10. CASE StopTvLayerOff
  BY <1>10 DEF StopTvLayerOff, CmdGoto
<1>11. CASE StopTvOutputOff
  BY <1>11 DEF StopTvOutputOff, CmdGoto
<1>12. CASE ForceResetStop
  BY <1>12 DEF ForceResetStop, CmdGoto, VDIN_StopDec, StopDecResults, SyncAfter
<1>13. CASE ForceResetClose
  BY <1>13 DEF ForceResetClose, CmdGoto, VDIN_ClosePort
<1>14. CASE ForceResetFlag
  BY <1>14 DEF ForceResetFlag, CmdGoto
<1>15. CASE StopTvStopCheck
  BY <1>15 DEF StopTvStopCheck, StopDecoderCheck, CmdGoto, SyncAfter
<1>16. CASE StopTvStopIoctl
  BY <1>16 DEF StopTvStopIoctl, StopDecoderIoctl, CmdGoto, VDIN_StopDec, StopDecResults, SyncAfter
<1>17. CASE StopTvStopFlag
  BY <1>17 DEF StopTvStopFlag, StopDecoderFlag, CmdGoto
<1>18. CASE StopTvClosePort
  BY <1>18 DEF StopTvClosePort, CmdGoto, VDIN_ClosePort
<1>19. CASE StopTvClear
  BY <1>19 DEF StopTvClear, CmdGoto
<1>20. CASE StopTvReturn
  BY <1>20 DEF StopTvReturn, CmdGoto
<1>21. CASE SetHeadlessModeAddPath
  BY <1>21 DEF SetHeadlessModeAddPath, CmdGoto, Tvin_AddVideoPath, ModePathResults, MapResults
<1>22. CASE PollTakeEvent
  BY <1>22 DEF PollTakeEvent, PollGoto, Disturb
<1>23. CASE PollSetInfo
  BY <1>23 DEF PollSetInfo, PollGoto, Disturb
<1>24. CASE PollBranch
  BY <1>24 DEF PollBranch, Disturb, HandlerFor
<1>25. CASE PollStartCheck
  BY <1>25 DEF PollStartCheck, PollGoto, Disturb, SyncAfter, AfterStart
<1>26. CASE PollStartIoctl
  BY <1>26 DEF PollStartIoctl, PollGoto, Disturb, StartDecResults
<1>27. CASE PollStartFlag
  BY <1>27 DEF PollStartFlag, PollGoto, Disturb, AfterStart
<1>28. CASE PollSendMsg
  BY <1>28 DEF PollSendMsg, PollGoto, Disturb
<1>29. CASE PollSendMsgUnset
  BY <1>29 DEF PollSendMsgUnset, Die, Construct
<1>30. CASE PollLayerOn
  BY <1>30 DEF PollLayerOn, PollGoto, Disturb
<1>31. CASE PollLayerOff
  BY <1>31 DEF PollLayerOff, PollGoto, Disturb
<1>32. CASE PollStopCheck
  BY <1>32 DEF PollStopCheck, PollGoto, Disturb, SyncAfter, AfterStop
<1>33. CASE PollStopIoctl
  BY <1>33 DEF PollStopIoctl, PollGoto, Disturb, VDIN_StopDec, StopDecResults, SyncAfter
<1>34. CASE PollStopFlag
  BY <1>34 DEF PollStopFlag, PollGoto, Disturb, AfterStop
<1>35. CASE PollSendEvent
  BY <1>35 DEF PollSendEvent, PollGoto, Disturb
<1>36. CASE MsgTake
  BY <1>36 DEF MsgTake, MsgGoto, Disturb
<1>37. CASE MsgLayerOn
  BY <1>37 DEF MsgLayerOn, MsgGoto, Disturb
<1>38. CASE MsgOutputOn
  BY <1>38 DEF MsgOutputOn, MsgGoto, Disturb
<1>39. CASE SignalChange
  BY <1>39 DEF SignalChange, Disturb
<1>40. CASE UNCHANGED vars
  BY <1>40 DEF vars
<1>41. CASE SetEdidVersion
  BY <1>41 DEF SetEdidVersion, Begin
<1>42. CASE muteVideoOnHDMISource
  BY <1>42 DEF muteVideoOnHDMISource
<1>43. CASE EdidStopCheck
  BY <1>43 DEF EdidStopCheck, StopDecoderCheck, CmdGoto, SyncAfter
<1>44. CASE EdidStopIoctl
  BY <1>44 DEF EdidStopIoctl, StopDecoderIoctl, CmdGoto, VDIN_StopDec, StopDecResults, SyncAfter
<1>45. CASE EdidStopFlag
  BY <1>45 DEF EdidStopFlag, StopDecoderFlag, CmdGoto
<1>46. CASE SetHeadlessModeRestorePath
  BY <1>46 DEF SetHeadlessModeRestorePath, CmdGoto, Tvin_AddVideoPath, MapResults
<1>. QED
  BY <1>1, <1>2, <1>3, <1>4, <1>5, <1>6, <1>7, <1>8, <1>9, <1>10, <1>11,
     <1>12, <1>13, <1>14, <1>15, <1>16, <1>17, <1>18, <1>19, <1>20, <1>21,
     <1>22, <1>23, <1>24, <1>25, <1>26, <1>27, <1>28, <1>29, <1>30, <1>31,
     <1>32, <1>33, <1>34, <1>35, <1>36, <1>37, <1>38, <1>39, <1>40,
     <1>41, <1>42, <1>43, <1>44, <1>45, <1>46
  DEF Next, Command, CmdStep, PollStep, MsgStep

(***************************************************************************)
(* StopTvComplete: what an undisturbed StopTv has achieved at each point.  *)
(***************************************************************************)
\* The points of StopTv after its port, flag, decoder, output, layer and
\* patch are dealt with.
AfterClose  == {"clear", "stopDone"}
AfterFlag   == {"stopCheck", "stopIoctl", "stopFlag", "closePort"} \union AfterClose
AfterReset  == {"resetClose", "resetFlag"} \union AfterFlag
AfterOutput == {"resetStop"} \union AfterReset
AfterLayer  == {"outputOff"} \union AfterOutput
AfterPatch  == {"layerOff"} \union AfterLayer

StopInv ==
    quiet =>
        /\ cmdPc \in AfterPatch => ~audioPatch
        /\ cmdPc \in AfterLayer /\ ~mHeadlessMode => ~layer
        /\ cmdPc \in AfterOutput /\ ~mHeadlessMode => ~output
        /\ cmdPc \in AfterReset /\ ~DriverMayFail => ~decStarted
        /\ cmdPc \in AfterFlag => ~mDecoderStarted
        /\ cmdPc \in AfterClose /\ ~DriverMayFail => port = SOURCE_INVALID
        /\ cmdPc = "stopDone" => mCurrentSource = SOURCE_INVALID /\ mStatus = "NULL"

\* Every step keeps StopInv: any step but the command's own ends quiet.
LEMMA StopInvariant ==
    ASSUME TypeOK, StopInv, [Next]_vars
    PROVE  StopInv'
<1>. USE ConstantsAssumption DEF TypeOK, StopInv, AfterClose, AfterFlag, AfterReset,
         AfterOutput, AfterLayer, AfterPatch,
         driverVars, displayVars, fieldVars, modeVars, pathVars, cmdVars, pollVars
<1>1. CASE CreateMsgQueue
  BY <1>1 DEF CreateMsgQueue
<1>2. CASE SetTvObserver
  BY <1>2 DEF SetTvObserver
<1>3. CASE Kill
  BY <1>3 DEF Kill, Die, Construct
<1>4. CASE Restart
  BY <1>4 DEF Restart, AddFullPath, Tvin_AddVideoPath, MapResults
<1>5. ASSUME NEW s \in Sources, StartTv(s) PROVE StopInv'
  BY <1>5 DEF StartTv, Begin
<1>6. CASE StopTv
  BY <1>6 DEF StopTv, Begin
<1>7. ASSUME NEW h \in BOOLEAN, SetHeadlessMode(h) PROVE StopInv'
  BY <1>7 DEF SetHeadlessMode, Begin, Tvin_RemoveVideoPath, MapResults
<1>8. CASE StartTvOpenPort
  BY <1>8 DEF StartTvOpenPort, CmdGoto, VDIN_OpenPort
<1>9. CASE StartTvSetSource
  BY <1>9 DEF StartTvSetSource, CmdGoto
<1>10. CASE StopTvLayerOff
  BY <1>10 DEF StopTvLayerOff, CmdGoto
<1>11. CASE StopTvOutputOff
  BY <1>11 DEF StopTvOutputOff, CmdGoto
<1>12. CASE ForceResetStop
  BY <1>12 DEF ForceResetStop, CmdGoto, VDIN_StopDec, StopDecResults, SyncAfter
<1>13. CASE ForceResetClose
  BY <1>13 DEF ForceResetClose, CmdGoto, VDIN_ClosePort
<1>14. CASE ForceResetFlag
  BY <1>14 DEF ForceResetFlag, CmdGoto
<1>15. CASE StopTvStopCheck
  BY <1>15 DEF StopTvStopCheck, StopDecoderCheck, CmdGoto, SyncAfter
<1>16. CASE StopTvStopIoctl
  BY <1>16 DEF StopTvStopIoctl, StopDecoderIoctl, CmdGoto, VDIN_StopDec, StopDecResults, SyncAfter
<1>17. CASE StopTvStopFlag
  BY <1>17 DEF StopTvStopFlag, StopDecoderFlag, CmdGoto
<1>18. CASE StopTvClosePort
  BY <1>18 DEF StopTvClosePort, CmdGoto, VDIN_ClosePort
<1>19. CASE StopTvClear
  BY <1>19 DEF StopTvClear, CmdGoto
<1>20. CASE StopTvReturn
  BY <1>20 DEF StopTvReturn, CmdGoto
<1>21. CASE SetHeadlessModeAddPath
  BY <1>21 DEF SetHeadlessModeAddPath, CmdGoto, Tvin_AddVideoPath, ModePathResults, MapResults
<1>22. CASE PollTakeEvent
  BY <1>22 DEF PollTakeEvent, PollGoto, Disturb
<1>23. CASE PollSetInfo
  BY <1>23 DEF PollSetInfo, PollGoto, Disturb
<1>24. CASE PollBranch
  BY <1>24 DEF PollBranch, Disturb, HandlerFor
<1>25. CASE PollStartCheck
  BY <1>25 DEF PollStartCheck, PollGoto, Disturb, SyncAfter, AfterStart
<1>26. CASE PollStartIoctl
  BY <1>26 DEF PollStartIoctl, PollGoto, Disturb, StartDecResults
<1>27. CASE PollStartFlag
  BY <1>27 DEF PollStartFlag, PollGoto, Disturb, AfterStart
<1>28. CASE PollSendMsg
  BY <1>28 DEF PollSendMsg, PollGoto, Disturb
<1>29. CASE PollSendMsgUnset
  BY <1>29 DEF PollSendMsgUnset, Die, Construct
<1>30. CASE PollLayerOn
  BY <1>30 DEF PollLayerOn, PollGoto, Disturb
<1>31. CASE PollLayerOff
  BY <1>31 DEF PollLayerOff, PollGoto, Disturb
<1>32. CASE PollStopCheck
  BY <1>32 DEF PollStopCheck, PollGoto, Disturb, SyncAfter, AfterStop
<1>33. CASE PollStopIoctl
  BY <1>33 DEF PollStopIoctl, PollGoto, Disturb, VDIN_StopDec, StopDecResults, SyncAfter
<1>34. CASE PollStopFlag
  BY <1>34 DEF PollStopFlag, PollGoto, Disturb, AfterStop
<1>35. CASE PollSendEvent
  BY <1>35 DEF PollSendEvent, PollGoto, Disturb
<1>36. CASE MsgTake
  BY <1>36 DEF MsgTake, MsgGoto, Disturb
<1>37. CASE MsgLayerOn
  BY <1>37 DEF MsgLayerOn, MsgGoto, Disturb
<1>38. CASE MsgOutputOn
  BY <1>38 DEF MsgOutputOn, MsgGoto, Disturb
<1>39. CASE SignalChange
  BY <1>39 DEF SignalChange, Disturb
<1>40. CASE UNCHANGED vars
  BY <1>40 DEF vars
<1>41. CASE SetEdidVersion
  BY <1>41 DEF SetEdidVersion, Begin
<1>42. CASE muteVideoOnHDMISource
  BY <1>42 DEF muteVideoOnHDMISource
<1>43. CASE EdidStopCheck
  BY <1>43 DEF EdidStopCheck, StopDecoderCheck, CmdGoto, SyncAfter
<1>44. CASE EdidStopIoctl
  BY <1>44 DEF EdidStopIoctl, StopDecoderIoctl, CmdGoto, VDIN_StopDec, StopDecResults, SyncAfter
<1>45. CASE EdidStopFlag
  BY <1>45 DEF EdidStopFlag, StopDecoderFlag, CmdGoto
<1>46. CASE SetHeadlessModeRestorePath
  BY <1>46 DEF SetHeadlessModeRestorePath, CmdGoto, Tvin_AddVideoPath, MapResults
<1>. QED
  BY <1>1, <1>2, <1>3, <1>4, <1>5, <1>6, <1>7, <1>8, <1>9, <1>10, <1>11,
     <1>12, <1>13, <1>14, <1>15, <1>16, <1>17, <1>18, <1>19, <1>20, <1>21,
     <1>22, <1>23, <1>24, <1>25, <1>26, <1>27, <1>28, <1>29, <1>30, <1>31,
     <1>32, <1>33, <1>34, <1>35, <1>36, <1>37, <1>38, <1>39, <1>40,
     <1>41, <1>42, <1>43, <1>44, <1>45, <1>46
  DEF Next, Command, CmdStep, PollStep, MsgStep

(***************************************************************************)
(* The theorems                                                            *)
(***************************************************************************)
\* Whatever the threads, clients, inputs and drivers do, every variable keeps
\* its type (in particular the message thread never takes a message from an
\* empty queue).
THEOREM TypeCorrect == Spec => []TypeOK
<1>1. Init => TypeOK
  <2>. SUFFICES ASSUME Init PROVE TypeOK
    OBVIOUS
  <2>1. FlagsOK
    BY DEF Init, FlagsOK, MapResults
  <2>2. ValuesOK
    BY DEF Init, ValuesOK, Status, CmdPcs, PollPcs, Handlers, Phases
  <2>. QED
    BY <2>1, <2>2 DEF TypeOK, FlagsOK, ValuesOK
<1>2. TypeOK /\ [Next]_vars => TypeOK'
  BY TypeInvariant
<1>. QED
  BY <1>1, <1>2, PTL DEF Spec

\* The strengthening that DecoderAgreement needs is itself an invariant: the
\* thread inside a section knows what the driver's flag is.
THEOREM SyncInvCorrect == Spec => []SyncInv
<1>1. Init => SyncInv
  BY DEF Init, SyncInv, DecoderAgreement, SectionFlags, ResetAlone, NoOverlap,
         PollSection, CmdSection, ResetSection
<1>2. TypeOK /\ SyncInv /\ [Next]_vars => SyncInv'
  BY SyncInvariant
<1>. QED
  BY <1>1, <1>2, TypeCorrect, PTL DEF Spec

\* mDecoderStarted and the driver agree outside the sections, for every number
\* of inputs, messages, kills and restarts.
THEOREM DecoderAgreementCorrect == Spec => []DecoderAgreement
<1>1. SyncInv => DecoderAgreement
  BY DEF SyncInv
<1>. QED
  BY <1>1, SyncInvCorrect, PTL

\* START_DEC never meets EBUSY while the two flags are tied.
THEOREM StartNeverBusyCorrect == Spec => []StartNeverBusy
<1>1. SyncInv => StartNeverBusy
  BY DEF SyncInv, SectionFlags, StartNeverBusy
<1>. QED
  BY <1>1, SyncInvCorrect, PTL

\* Between two events the clients' last status is the stored one, wherever
\* StopTv cuts into a handler.
THEOREM ToldMatchesStatusCorrect == Spec => []ToldMatchesStatus
<1>1. Init => ToldInv
  BY DEF Init, ToldInv, Reported, Detected
<1>2. TypeOK /\ ToldInv /\ [Next]_vars => ToldInv'
  BY ToldInvariant
<1>3. ToldInv => ToldMatchesStatus
  BY DEF ToldInv, Reported, ToldMatchesStatus
<1>. QED
  BY <1>1, <1>2, <1>3, TypeCorrect, PTL DEF Spec

\* The VFM path fits the mode whenever no SetHeadlessMode runs, also after one
\* that failed and in a process started after a kill at any point of one, while
\* the map was empty when the last path was added and took it.
THEOREM HeadlessPathCorrect == Spec => []HeadlessPathConsistent
<1>1. Init => PathInv
  BY DEF Init, PathInv
<1>2. TypeOK /\ PathInv /\ [Next]_vars => PathInv'
  BY PathInvariant
<1>3. PathInv => HeadlessPathConsistent
  BY DEF PathInv, HeadlessPathConsistent
<1>. QED
  BY <1>1, <1>2, <1>3, TypeCorrect, PTL DEF Spec

\* An undisturbed StopTv leaves nothing of a start behind, whatever the
\* drivers hold when it begins: it recovers from any kill.
THEOREM StopTvCompleteCorrect == Spec => []StopTvComplete
<1>1. Init => StopInv
  BY DEF Init, StopInv
<1>2. TypeOK /\ StopInv /\ [Next]_vars => StopInv'
  BY StopInvariant
<1>3. StopInv => StopTvComplete
  BY DEF StopInv, StopTvComplete, AfterClose, AfterFlag, AfterReset, AfterOutput,
         AfterLayer, AfterPatch
<1>. QED
  BY <1>1, <1>2, <1>3, TypeCorrect, PTL DEF Spec
=============================================================================
