------------------------------ MODULE Commands ------------------------------
(***************************************************************************)
(* A call of the client library on its way to the TV controller and back:  *)
(* the command text TvClient writes, the binder transaction, the parsers   *)
(* of TvService with strtok and tvservice_mutex, the reply, and what the   *)
(* client makes of it.                                                     *)
(*                                                                         *)
(* A text is the sequence of its words, which the dots separate.  Each     *)
(* application thread makes one call at a time, and a binder thread of the *)
(* service serves it.  strtok keeps its position in a static variable.     *)
(***************************************************************************)
EXTENDS Integers, Sequences

CONSTANTS
    Threads,    \* application threads, one call each at a time
    Data,       \* what an argument may be
    Calls,      \* thread -> the calls it makes: records of a name and arguments
    NULL        \* the word strtok returns at the end

VARIABLES
    pc,                 \* thread -> "idle", "sent", "parse", "served", "returned"
    call,               \* its call
    word,               \* the words its parser has taken
    op,                 \* what the controller was asked: an operation and arguments
    done,               \* what the controller answered: FAILED or a value
    result,             \* what the client library returns
    strtok,             \* the static position: the words not taken yet
    tvservice_mutex,    \* the thread that holds it, or "free"
    dead                \* tvserver has died; every transaction fails

vars == <<pc, call, word, op, done, result, strtok, tvservice_mutex, dead>>

FAILED == -1
Values == {FAILED, 0, 1}

\* tvcmd.h
Id == [START_TV |-> 3, STOP_TV |-> 4, GET_FRAME_HEIGHT |-> 5, GET_FRAME_WIDTH |-> 6,
       GET_COLOR_DEPTH |-> 7, GET_FRAME_RATE |-> 8, GET_LINE_SCAN_MODE |-> 9,
       GET_CONNECT_STATUS |-> 10, SET_BOOST_ON |-> 11, SET_HEADLESS_MODE |-> 13,
       VDIN_WORK_MODE_SET |-> 98,
       EDID_VER_SET |-> 101, EDID_VER_GET |-> 102, EDID_DATA_SET |-> 103, EDID_DATA_GET |-> 104,
       GET_COLOR_FORMAT |-> 106, SET_COLOR_RANGE |-> 107, GET_COLOR_RANGE |-> 108,
       HDMI_GET_COLOR_DEPTH |-> 110, GET_ASPECT_RATIO |-> 112, SET_ALLM_ENABLED |-> 113,
       GET_ALLM_ENABLED |-> 114, SET_VRR_ENABLED |-> 115, GET_VRR_ENABLED |-> 116,
       GET_VRR_MODE |-> 117, SET_GAME_MODE |-> 118, SET_PC_MODE |-> 119, SPD_INFO_GET |-> 198]

-----------------------------------------------------------------------------
\* TvClient: the words before the arguments, in the order of the file.

SourceText ==
    [StartTv |-> <<"control", Id.START_TV>>, StopTv |-> <<"control", Id.STOP_TV>>,
     SetVdinWorkMode |-> <<"control", Id.VDIN_WORK_MODE_SET>>,
     SetEdidVersion |-> <<"edid", "set", Id.EDID_VER_SET>>,
     GetEdidVersion |-> <<"edid", "get", Id.EDID_VER_GET>>,
     SetEdidData |-> <<Id.EDID_DATA_SET>>, GetEdidData |-> <<Id.EDID_DATA_GET>>,
     GetSPDInfo |-> <<"pkttype", "get", Id.SPD_INFO_GET>>]

FrameText ==
    [GetCurrentSourceFrameHeight |-> <<"control", Id.GET_FRAME_HEIGHT>>,
     GetCurrentSourceFrameWidth |-> <<"control", Id.GET_FRAME_WIDTH>>,
     GetCurrentSourceFrameFps |-> <<"control", Id.GET_FRAME_RATE>>,
     GetCurrentSourceColorDepth |-> <<"control", Id.GET_COLOR_DEPTH>>,
     GetCurrentSourceAspectRatio |-> <<"hdmi", Id.GET_ASPECT_RATIO>>,
     GetCurrentSourceColorFormat |-> <<"hdmi", Id.GET_COLOR_FORMAT>>,
     SetCurrentSourceColorRange |-> <<"hdmi", Id.SET_COLOR_RANGE>>,
     GetCurrentSourceColorRange |-> <<"hdmi", Id.GET_COLOR_RANGE>>,
     GetCurrentSourceLineScanMode |-> <<"control", Id.GET_LINE_SCAN_MODE>>,
     GetSourceConnectStatus |-> <<"control", Id.GET_CONNECT_STATUS>>,
     SetEdidBoostOn |-> <<"control", Id.SET_BOOST_ON>>]

HdmiText ==
    [SetHdmiAllmEnabled |-> <<"hdmi", Id.SET_ALLM_ENABLED>>,
     GetHdmiAllmEnabled |-> <<"hdmi", Id.GET_ALLM_ENABLED>>,
     SetHdmiVrrEnabled |-> <<"hdmi", Id.SET_VRR_ENABLED>>,
     GetHdmiVrrEnabled |-> <<"hdmi", Id.GET_VRR_ENABLED>>,
     GetHdmiVrrMode |-> <<"hdmi", Id.GET_VRR_MODE>>,
     GetCurrentSourceAllmInfo |-> <<"allm">>,        \* a transaction without a text
     SetGameMode |-> <<"hdmi", Id.SET_GAME_MODE>>, SetPcMode |-> <<"hdmi", Id.SET_PC_MODE>>,
     SetHeadlessMode |-> <<"control", Id.SET_HEADLESS_MODE>>]

Names == DOMAIN SourceText \cup DOMAIN FrameText \cup DOMAIN HdmiText

Prefix(name) ==
    IF name \in DOMAIN SourceText THEN SourceText[name]
    ELSE IF name \in DOMAIN FrameText THEN FrameText[name] ELSE HdmiText[name]

\* How many arguments the methods take.  The application fills the buffer it
\* asks the SPD data in, which puts a third one behind the two.
NoArgument ==
    {"GetCurrentSourceFrameHeight", "GetCurrentSourceFrameWidth", "GetCurrentSourceFrameFps",
     "GetCurrentSourceColorDepth", "GetCurrentSourceAspectRatio", "GetCurrentSourceColorFormat",
     "GetCurrentSourceColorRange", "GetCurrentSourceLineScanMode", "GetHdmiAllmEnabled",
     "GetHdmiVrrEnabled", "GetHdmiVrrMode", "GetCurrentSourceAllmInfo"}

Arities(name) ==
    IF name \in NoArgument THEN {0}
    ELSE IF name \in {"SetEdidVersion", "SetGameMode"} THEN {2}
    ELSE IF name = "GetSPDInfo" THEN {2, 3} ELSE {1}

\* NULL is no word.
ASSUME CallsAssumption ==
    /\ \A t \in Threads : \A c \in Calls[t] :
          /\ c \in [name : Names, args : Seq(Data)] /\ Len(c.args) \in Arities(c.name)
    /\ NULL \notin Data \cup {0}
    /\ "free" \notin Threads

\* A game mode that is switched off is sent as 0.
Arguments(c) ==
    IF c.name = "SetGameMode" /\ c.args[1] = 0 THEN <<0, 0>> ELSE c.args

Text(c) == Prefix(c.name) \o Arguments(c)

\* The transaction that carries it.
Parser(c) ==
    CASE c.name = "GetSPDInfo" -> "CMD_DATA_REQ"
      [] c.name \in {"SetEdidData", "GetEdidData"} -> "DATA_ACTION"
      [] c.name = "GetCurrentSourceAllmInfo" -> "CMT_GET_ALLM_INFO"
      [] OTHER -> "CMD_TV_ACTION"

-----------------------------------------------------------------------------
\* TvService: the operation the words ask for.

Word(w, n) == IF n <= Len(w) THEN w[n] ELSE NULL
Args(w, from, n) == [i \in 1..n |-> Word(w, from + i - 1)]
NoOp == [name |-> "none", args |-> <<>>]
Op(name, args) == [name |-> name, args |-> args]

\* The operation of an Id and how many arguments it reads.
Unknown == <<"none", 0>>

ControlOps(id) ==
    CASE id = Id.START_TV -> <<"StartTv", 1>>
      [] id = Id.STOP_TV -> <<"StopTv", 1>>
      [] id = Id.VDIN_WORK_MODE_SET -> <<"SetVdinWorkMode", 1>>
      [] id = Id.GET_FRAME_HEIGHT -> <<"GetFrontendInfo.height", 0>>
      [] id = Id.GET_FRAME_WIDTH -> <<"GetFrontendInfo.width", 0>>
      [] id = Id.GET_FRAME_RATE -> <<"GetFrontendInfo.fps", 0>>
      [] id = Id.GET_COLOR_DEPTH -> <<"GetFrontendInfo.colordepth", 0>>
      [] id = Id.GET_LINE_SCAN_MODE -> <<"GetFrontendInfo.scan_mode", 0>>
      [] id = Id.GET_CONNECT_STATUS -> <<"GetSourceConnectStatus", 1>>
      [] id = Id.SET_BOOST_ON -> <<"SetEdidBoostOn", 1>>
      [] id = Id.SET_HEADLESS_MODE -> <<"SetHeadlessMode", 1>>
      [] OTHER -> Unknown

EdidOps(way, id) ==
    CASE way = "set" /\ id = Id.EDID_VER_SET -> <<"SetEdidVersion", 2>>
      [] way = "get" /\ id = Id.EDID_VER_GET -> <<"GetEdidVersion", 1>>
      [] OTHER -> Unknown

\* HDMI_GET_COLOR_DEPTH answers from a frontendInfo nobody has filled; no client
\* asks it.
HdmiOps(id) ==
    CASE id = Id.GET_COLOR_FORMAT -> <<"GetCurrentSourceInfo.cfmt", 0>>
      [] id = Id.GET_COLOR_RANGE -> <<"GetColorRangeMode", 0>>
      [] id = Id.HDMI_GET_COLOR_DEPTH -> <<"zero", 0>>
      [] id = Id.GET_ASPECT_RATIO -> <<"GetCurrentSourceInfo.aspect_ratio", 0>>
      [] id = Id.SET_COLOR_RANGE -> <<"SetColorRangeMode", 1>>
      [] id = Id.SET_ALLM_ENABLED -> <<"SetHdmiAllmEnabled", 1>>
      [] id = Id.GET_ALLM_ENABLED -> <<"GetHdmiAllmEnabled", 0>>
      [] id = Id.SET_VRR_ENABLED -> <<"SetHdmiVrrEnabled", 1>>
      [] id = Id.GET_VRR_ENABLED -> <<"GetHdmiVrrEnabled", 0>>
      [] id = Id.GET_VRR_MODE -> <<"GetVrrMode", 0>>
      [] id = Id.SET_GAME_MODE -> <<"SetGameMode", 2>>
      [] id = Id.SET_PC_MODE -> <<"SetPcMode", 1>>
      [] OTHER -> Unknown

\* The operation with the words from there on.
Select(entry, w, from) == Op(entry[1], Args(w, from, entry[2]))

\* A game mode without a value is 3.
WithDefault(o) ==
    IF o.name = "SetGameMode" /\ o.args[2] = NULL THEN [o EXCEPT !.args[2] = 3] ELSE o

ParserTvCommand(w) ==
    CASE w[1] = "control" -> Select(ControlOps(Word(w, 2)), w, 3)
      [] w[1] = "edid" -> Select(EdidOps(Word(w, 2), Word(w, 3)), w, 4)
      [] w[1] = "hdmi" -> WithDefault(Select(HdmiOps(Word(w, 2)), w, 3))
      [] OTHER -> NoOp

ParserTvDataCommand(w) ==
    CASE w[1] = Id.EDID_DATA_SET -> Op("SetEDIDData", Args(w, 2, 1))
      [] w[1] = Id.EDID_DATA_GET -> Op("GetEDIDData", Args(w, 2, 1))
      [] OTHER -> NoOp

HandleDataRequest(w) ==
    CASE w[1] = "pkttype" /\ Word(w, 2) = "get" /\ Word(w, 3) = Id.SPD_INFO_GET ->
            Op("GetHdmiSPDInfo", Args(w, 4, 2))
      [] w[1] = "pkttype" /\ Word(w, 2) = "get" /\ Word(w, 3) = Id.EDID_DATA_GET ->
            Op("GetEDIDData", Args(w, 4, 1))
      [] OTHER -> NoOp

Parse(c, w) ==
    CASE Parser(c) = "CMD_TV_ACTION" -> ParserTvCommand(w)
      [] Parser(c) = "DATA_ACTION" -> ParserTvDataCommand(w)
      [] Parser(c) = "CMD_DATA_REQ" -> HandleDataRequest(w)
      [] Parser(c) = "CMT_GET_ALLM_INFO" -> Op("GetAllmInfo", <<>>)

\* What is written into the reply.  The result of GetFrontendInfo is not looked
\* at: its structure was cleared before.
FrontendOps == {ControlOps(i)[1] : i \in {Id.GET_FRAME_HEIGHT, Id.GET_FRAME_WIDTH,
                    Id.GET_FRAME_RATE, Id.GET_COLOR_DEPTH, Id.GET_LINE_SCAN_MODE}}
Reply(o, r) == IF o.name \in FrontendOps /\ r = FAILED THEN 0 ELSE r

\* What the client makes of the reply: the getters of a switch return a bool;
\* GetEdidData and GetCurrentSourceAllmInfo read the data and no result.
Bools == {"GetHdmiAllmEnabled", "GetHdmiVrrEnabled"}
Unread == {"GetEdidData", "GetCurrentSourceAllmInfo"}
IsTrue(r) == IF r # 0 THEN 1 ELSE 0

\* Mutant: a vrr mode becomes a bool as well.
FromReplyVrrBool(c, r) ==
    CASE c.name \in Unread -> 0
      [] c.name \in Bools \cup {"GetHdmiVrrMode"} -> IsTrue(r)
      [] OTHER -> r

FromReply(c, r) ==
    CASE c.name \in Unread -> 0
      [] c.name \in Bools -> IsTrue(r)
      [] OTHER -> r

\* A failed transaction leaves an empty reply: SendMethodCall reads an exception
\* code out of it, which may be 0.
FromFailure(c) ==
    IF Parser(c) = "CMD_TV_ACTION" THEN {FromReply(c, r) : r \in {0, FAILED}} ELSE {FAILED}

-----------------------------------------------------------------------------
Idle == [name |-> "none", args |-> <<>>]

Init ==
    /\ pc = [t \in Threads |-> "idle"] /\ call = [t \in Threads |-> Idle]
    /\ word = [t \in Threads |-> <<>>] /\ op = [t \in Threads |-> NoOp]
    /\ done = [t \in Threads |-> 0] /\ result = [t \in Threads |-> 0]
    /\ strtok = <<>> /\ tvservice_mutex = "free" /\ dead = FALSE

Go(t, to) == pc' = [pc EXCEPT ![t] = to]

SendMethodCall(t, c) ==
    /\ pc[t] = "idle"
    /\ call' = [call EXCEPT ![t] = c]
    /\ Go(t, "sent")
    /\ UNCHANGED <<word, op, done, result, strtok, tvservice_mutex, dead>>

\* Also for a call whose thread in the service died with it.
TransactFails(t) ==
    /\ pc[t] \in {"sent", "parse"} /\ dead
    /\ \E r \in FromFailure(call[t]) : result' = [result EXCEPT ![t] = r]
    /\ Go(t, "returned")
    /\ UNCHANGED <<call, word, op, done, strtok, tvservice_mutex, dead>>

\* Mutant: the first word is taken before the lock.
FirstWordUnlocked(t) ==
    /\ pc[t] = "sent" /\ ~dead /\ Parser(call[t]) # "CMT_GET_ALLM_INFO"
    /\ word' = [word EXCEPT ![t] = <<Head(Text(call[t]))>>]
    /\ strtok' = Tail(Text(call[t]))
    /\ Go(t, "parse")
    /\ UNCHANGED <<call, op, done, result, tvservice_mutex, dead>>

\* The lock, and the first strtok of the text.
FirstWord(t) ==
    /\ pc[t] = "sent" /\ ~dead /\ Parser(call[t]) # "CMT_GET_ALLM_INFO"
    /\ tvservice_mutex = "free" /\ tvservice_mutex' = t
    /\ word' = [word EXCEPT ![t] = <<Head(Text(call[t]))>>]
    /\ strtok' = Tail(Text(call[t]))
    /\ Go(t, "parse")
    /\ UNCHANGED <<call, op, done, result, dead>>

\* The other words; one behind the last that is read changes nothing.
NextWord(t) ==
    /\ pc[t] = "parse" /\ strtok # <<>> /\ ~dead
    /\ word' = [word EXCEPT ![t] = Append(@, Head(strtok))]
    /\ strtok' = Tail(strtok)
    /\ UNCHANGED <<pc, call, op, done, result, tvservice_mutex, dead>>

\* Mutant: an operation that is not known keeps the lock.
ServeKeepsLock(t) ==
    /\ pc[t] = "parse" /\ strtok = <<>> /\ ~dead
    /\ op' = [op EXCEPT ![t] = Parse(call[t], word[t])]
    /\ \E r \in Values : /\ done' = [done EXCEPT ![t] = r]
                         /\ tvservice_mutex' = IF r = FAILED THEN t ELSE "free"
    /\ Go(t, "served")
    /\ UNCHANGED <<call, word, result, strtok, dead>>

\* The operation, at its end the unlock.
Serve(t) ==
    /\ pc[t] = "parse" /\ strtok = <<>> /\ ~dead
    /\ op' = [op EXCEPT ![t] = Parse(call[t], word[t])]
    /\ \E r \in Values : done' = [done EXCEPT ![t] = r]
    /\ tvservice_mutex' = "free"
    /\ Go(t, "served")
    /\ UNCHANGED <<call, word, result, strtok, dead>>

\* The ALLM information is asked for without the lock.
ServeAllmInfo(t) ==
    /\ pc[t] = "sent" /\ ~dead /\ Parser(call[t]) = "CMT_GET_ALLM_INFO"
    /\ op' = [op EXCEPT ![t] = Parse(call[t], Text(call[t]))]
    /\ Go(t, "served")
    /\ UNCHANGED <<call, word, done, result, strtok, tvservice_mutex, dead>>

ReadReply(t) ==
    /\ pc[t] = "served"
    /\ result' = [result EXCEPT ![t] = FromReply(call[t], Reply(op[t], done[t]))]
    /\ Go(t, "returned")
    /\ UNCHANGED <<call, word, op, done, strtok, tvservice_mutex, dead>>

Return(t) ==
    /\ pc[t] = "returned"
    /\ Go(t, "idle")
    /\ call' = [call EXCEPT ![t] = Idle] /\ word' = [word EXCEPT ![t] = <<>>]
    /\ op' = [op EXCEPT ![t] = NoOp] /\ done' = [done EXCEPT ![t] = 0]
    /\ result' = [result EXCEPT ![t] = 0]
    /\ UNCHANGED <<strtok, tvservice_mutex, dead>>

ServerDies ==
    /\ ~dead /\ dead' = TRUE
    /\ UNCHANGED <<pc, call, word, op, done, result, strtok, tvservice_mutex>>

Step(t) ==
    \/ TransactFails(t) \/ FirstWord(t) \/ NextWord(t) \/ Serve(t) \/ ServeAllmInfo(t)
    \/ ReadReply(t) \/ Return(t)

Next ==
    \/ \E t \in Threads : Step(t) \/ \E c \in Calls[t] : SendMethodCall(t, c)
    \/ ServerDies

\* The mutex is fair to its waiters, who are few, and every operation of the
\* controller ends.
Spec == Init /\ [][Next]_vars /\ \A t \in Threads : SF_vars(Step(t))

(***************************************************************************)
(* Properties                                                              *)
(***************************************************************************)
\* The operation a call of the library is there for, with its own arguments.
Meant(c) ==
    CASE c.name = "GetCurrentSourceFrameHeight" -> Op("GetFrontendInfo.height", <<>>)
      [] c.name = "GetCurrentSourceFrameWidth" -> Op("GetFrontendInfo.width", <<>>)
      [] c.name = "GetCurrentSourceFrameFps" -> Op("GetFrontendInfo.fps", <<>>)
      [] c.name = "GetCurrentSourceColorDepth" -> Op("GetFrontendInfo.colordepth", <<>>)
      [] c.name = "GetCurrentSourceLineScanMode" -> Op("GetFrontendInfo.scan_mode", <<>>)
      [] c.name = "GetCurrentSourceAspectRatio" -> Op("GetCurrentSourceInfo.aspect_ratio", <<>>)
      [] c.name = "GetCurrentSourceColorFormat" -> Op("GetCurrentSourceInfo.cfmt", <<>>)
      [] c.name = "SetCurrentSourceColorRange" -> Op("SetColorRangeMode", c.args)
      [] c.name = "GetCurrentSourceColorRange" -> Op("GetColorRangeMode", <<>>)
      [] c.name = "GetHdmiVrrMode" -> Op("GetVrrMode", <<>>)
      [] c.name = "SetEdidData" -> Op("SetEDIDData", c.args)
      [] c.name = "GetEdidData" -> Op("GetEDIDData", c.args)
      [] c.name = "GetSPDInfo" -> Op("GetHdmiSPDInfo", <<c.args[1], c.args[2]>>)
      [] c.name = "GetCurrentSourceAllmInfo" -> Op("GetAllmInfo", <<>>)
      [] c.name = "SetGameMode" -> Op("SetGameMode", <<c.args[1], IF c.args[1] = 0 THEN 0 ELSE c.args[2]>>)
      [] OTHER -> c

\* Every call of the client library becomes the operation it is meant to be, with
\* its arguments, whatever other thread's text is parsed at the same time.
ServedAsCalled == \A t \in Threads : pc[t] = "served" => op[t] = Meant(call[t])

\* A call that was served returns what the operation answered, a failure as a
\* failure. Not so for the frame's properties (0 for a failure), the switches
\* (true for a failure) and the calls that read no result.
Loses(c) == c.name \in Bools \cup Unread \/ Meant(c).name \in FrontendOps
ResultKept ==
    \A t \in Threads :
        pc[t] = "returned" /\ op[t] # NoOp /\ ~Loses(call[t]) => result[t] = done[t]

\* Every call returns, also when the service dies under it.
CallsReturn == \A t \in Threads : pc[t] = "sent" ~> pc[t] = "returned"
=============================================================================
