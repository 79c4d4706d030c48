--------------------------- MODULE Commands_proofs ---------------------------
(***************************************************************************)
(* Theorems about Commands, for all numbers of threads and all arguments.  *)
(***************************************************************************)
EXTENDS Commands, TLAPS

Words == {"control", "edid", "hdmi", "pkttype", "allm", "set", "get"} \cup Nat \cup Data

(***************************************************************************)
(* Texts and their words.                                                  *)
(***************************************************************************)
\* Where the words of two texts are in the text they make.
LEMMA Joined ==
    ASSUME NEW p \in Seq(Words), NEW a \in Seq(Words)
    PROVE  /\ p \o a \in Seq(Words) /\ Len(p \o a) = Len(p) + Len(a)
           /\ \A i \in 1..Len(p) : (p \o a)[i] = p[i]
           /\ \A i \in 1..Len(a) : (p \o a)[Len(p) + i] = a[i]
  OBVIOUS

\* The arguments behind a prefix are read as they were written.
LEMMA ArgsRead ==
    ASSUME NEW p \in Seq(Words), NEW a \in Seq(Words), NEW from, from = Len(p) + 1,
           NEW n \in Nat, n <= Len(a)
    PROVE  Args(p \o a, from, n) = [i \in 1..n |-> a[i]]
<1>1. ASSUME NEW i \in 1..n PROVE Word(p \o a, from + i - 1) = a[i]
  BY Joined DEF Word
<1>. QED
  BY <1>1 DEF Args

\* All of them.
LEMMA ArgsAll ==
    ASSUME NEW p \in Seq(Words), NEW a \in Seq(Words), NEW from, from = Len(p) + 1,
           NEW n, n = Len(a)
    PROVE  Args(p \o a, from, n) = a
<1>1. ASSUME NEW i \in 1..n PROVE Word(p \o a, from + i - 1) = a[i]
  BY Joined DEF Word
<1>2. Args(p \o a, from, n) = [i \in 1..n |-> a[i]]
  BY <1>1 DEF Args
<1>3. a = [i \in 1..n |-> a[i]]
  OBVIOUS
<1>. QED
  BY <1>2, <1>3

(***************************************************************************)
(* Every text is parsed into the operation its call means.                 *)
(***************************************************************************)
Good(c) == c \in [name : Names, args : Seq(Data)] /\ Len(c.args) \in Arities(c.name)

\* A method whose arguments are sent as they are, in a text that selects the
\* operation o, which reads k arguments.
Plain(n, o, k) ==
    \A c : Good(c) /\ c.name = n =>
        /\ Parser(c) = "CMD_TV_ACTION" /\ Arguments(c) = c.args
        /\ Len(c.args) = k /\ Meant(c) = Op(o, c.args)

ByControl(n, id, o, k) == Prefix(n) = <<"control", id>> /\ id \in Nat /\ ControlOps(id) = <<o, k>>
ByHdmi(n, id, o, k)    == Prefix(n) = <<"hdmi", id>> /\ id \in Nat /\ HdmiOps(id) = <<o, k>>
ByEdid(n, way, id, o, k) ==
    Prefix(n) = <<"edid", way, id>> /\ id \in Nat /\ way \in {"set", "get"} /\ EdidOps(way, id) = <<o, k>>

\* The control commands: the client's text and the service's table.
LEMMA ControlTable ==
    /\ ByControl("StartTv", Id.START_TV, "StartTv", 1)
    /\ ByControl("StopTv", Id.STOP_TV, "StopTv", 1)
    /\ ByControl("SetVdinWorkMode", Id.VDIN_WORK_MODE_SET, "SetVdinWorkMode", 1)
    /\ ByControl("GetCurrentSourceFrameHeight", Id.GET_FRAME_HEIGHT, "GetFrontendInfo.height", 0)
    /\ ByControl("GetCurrentSourceFrameWidth", Id.GET_FRAME_WIDTH, "GetFrontendInfo.width", 0)
    /\ ByControl("GetCurrentSourceFrameFps", Id.GET_FRAME_RATE, "GetFrontendInfo.fps", 0)
    /\ ByControl("GetCurrentSourceColorDepth", Id.GET_COLOR_DEPTH, "GetFrontendInfo.colordepth", 0)
    /\ ByControl("GetCurrentSourceLineScanMode", Id.GET_LINE_SCAN_MODE, "GetFrontendInfo.scan_mode", 0)
    /\ ByControl("GetSourceConnectStatus", Id.GET_CONNECT_STATUS, "GetSourceConnectStatus", 1)
    /\ ByControl("SetEdidBoostOn", Id.SET_BOOST_ON, "SetEdidBoostOn", 1)
    /\ ByControl("SetHeadlessMode", Id.SET_HEADLESS_MODE, "SetHeadlessMode", 1)
  BY DEF ByControl, Prefix, SourceText, FrameText, HdmiText, Id, ControlOps

\* The HDMI commands.
LEMMA HdmiTable ==
    /\ ByHdmi("GetCurrentSourceAspectRatio", Id.GET_ASPECT_RATIO, "GetCurrentSourceInfo.aspect_ratio", 0)
    /\ ByHdmi("GetCurrentSourceColorFormat", Id.GET_COLOR_FORMAT, "GetCurrentSourceInfo.cfmt", 0)
    /\ ByHdmi("SetCurrentSourceColorRange", Id.SET_COLOR_RANGE, "SetColorRangeMode", 1)
    /\ ByHdmi("GetCurrentSourceColorRange", Id.GET_COLOR_RANGE, "GetColorRangeMode", 0)
    /\ ByHdmi("SetHdmiAllmEnabled", Id.SET_ALLM_ENABLED, "SetHdmiAllmEnabled", 1)
    /\ ByHdmi("GetHdmiAllmEnabled", Id.GET_ALLM_ENABLED, "GetHdmiAllmEnabled", 0)
    /\ ByHdmi("SetHdmiVrrEnabled", Id.SET_VRR_ENABLED, "SetHdmiVrrEnabled", 1)
    /\ ByHdmi("GetHdmiVrrEnabled", Id.GET_VRR_ENABLED, "GetHdmiVrrEnabled", 0)
    /\ ByHdmi("GetHdmiVrrMode", Id.GET_VRR_MODE, "GetVrrMode", 0)
    /\ ByHdmi("SetPcMode", Id.SET_PC_MODE, "SetPcMode", 1)
    /\ ByHdmi("SetGameMode", Id.SET_GAME_MODE, "SetGameMode", 2)
  BY DEF ByHdmi, Prefix, SourceText, FrameText, HdmiText, Id, HdmiOps

\* The EDID versions.
LEMMA EdidTable ==
    /\ ByEdid("SetEdidVersion", "set", Id.EDID_VER_SET, "SetEdidVersion", 2)
    /\ ByEdid("GetEdidVersion", "get", Id.EDID_VER_GET, "GetEdidVersion", 1)
  BY DEF ByEdid, Prefix, SourceText, Id, EdidOps

\* A call is its name and its arguments.
LEMMA Rebuilt ==
    ASSUME NEW c, Good(c)
    PROVE  c = Op(c.name, c.args) /\ (Len(c.args) = 0 => c.args = <<>>)
  BY DEF Good, Op

\* The operations these methods are there for.
LEMMA PlainCalls ==
    /\ Plain("StartTv", "StartTv", 1)
    /\ Plain("StopTv", "StopTv", 1)
    /\ Plain("SetVdinWorkMode", "SetVdinWorkMode", 1)
    /\ Plain("GetCurrentSourceFrameHeight", "GetFrontendInfo.height", 0)
    /\ Plain("GetCurrentSourceFrameWidth", "GetFrontendInfo.width", 0)
    /\ Plain("GetCurrentSourceFrameFps", "GetFrontendInfo.fps", 0)
    /\ Plain("GetCurrentSourceColorDepth", "GetFrontendInfo.colordepth", 0)
    /\ Plain("GetCurrentSourceLineScanMode", "GetFrontendInfo.scan_mode", 0)
    /\ Plain("GetSourceConnectStatus", "GetSourceConnectStatus", 1)
    /\ Plain("SetEdidBoostOn", "SetEdidBoostOn", 1)
    /\ Plain("SetHeadlessMode", "SetHeadlessMode", 1)
    /\ Plain("GetCurrentSourceAspectRatio", "GetCurrentSourceInfo.aspect_ratio", 0)
    /\ Plain("GetCurrentSourceColorFormat", "GetCurrentSourceInfo.cfmt", 0)
    /\ Plain("SetCurrentSourceColorRange", "SetColorRangeMode", 1)
    /\ Plain("GetCurrentSourceColorRange", "GetColorRangeMode", 0)
    /\ Plain("SetHdmiAllmEnabled", "SetHdmiAllmEnabled", 1)
    /\ Plain("GetHdmiAllmEnabled", "GetHdmiAllmEnabled", 0)
    /\ Plain("SetHdmiVrrEnabled", "SetHdmiVrrEnabled", 1)
    /\ Plain("GetHdmiVrrEnabled", "GetHdmiVrrEnabled", 0)
    /\ Plain("GetHdmiVrrMode", "GetVrrMode", 0)
    /\ Plain("SetPcMode", "SetPcMode", 1)
    /\ Plain("SetEdidVersion", "SetEdidVersion", 2)
    /\ Plain("GetEdidVersion", "GetEdidVersion", 1)
<1>1. Plain("StartTv", "StartTv", 1)
  BY Rebuilt DEF Plain, Good, Parser, Arguments, Arities, NoArgument, Meant, Op
<1>2. Plain("StopTv", "StopTv", 1)
  BY Rebuilt DEF Plain, Good, Parser, Arguments, Arities, NoArgument, Meant, Op
<1>3. Plain("SetVdinWorkMode", "SetVdinWorkMode", 1)
  BY Rebuilt DEF Plain, Good, Parser, Arguments, Arities, NoArgument, Meant, Op
<1>4. Plain("GetCurrentSourceFrameHeight", "GetFrontendInfo.height", 0)
  BY Rebuilt DEF Plain, Good, Parser, Arguments, Arities, NoArgument, Meant, Op
<1>5. Plain("GetCurrentSourceFrameWidth", "GetFrontendInfo.width", 0)
  BY Rebuilt DEF Plain, Good, Parser, Arguments, Arities, NoArgument, Meant, Op
<1>6. Plain("GetCurrentSourceFrameFps", "GetFrontendInfo.fps", 0)
  BY Rebuilt DEF Plain, Good, Parser, Arguments, Arities, NoArgument, Meant, Op
<1>7. Plain("GetCurrentSourceColorDepth", "GetFrontendInfo.colordepth", 0)
  BY Rebuilt DEF Plain, Good, Parser, Arguments, Arities, NoArgument, Meant, Op
<1>8. Plain("GetCurrentSourceLineScanMode", "GetFrontendInfo.scan_mode", 0)
  BY Rebuilt DEF Plain, Good, Parser, Arguments, Arities, NoArgument, Meant, Op
<1>9. Plain("GetSourceConnectStatus", "GetSourceConnectStatus", 1)
  BY Rebuilt DEF Plain, Good, Parser, Arguments, Arities, NoArgument, Meant, Op
<1>10. Plain("SetEdidBoostOn", "SetEdidBoostOn", 1)
  BY Rebuilt DEF Plain, Good, Parser, Arguments, Arities, NoArgument, Meant, Op
<1>11. Plain("SetHeadlessMode", "SetHeadlessMode", 1)
  BY Rebuilt DEF Plain, Good, Parser, Arguments, Arities, NoArgument, Meant, Op
<1>12. Plain("GetCurrentSourceAspectRatio", "GetCurrentSourceInfo.aspect_ratio", 0)
  BY Rebuilt DEF Plain, Good, Parser, Arguments, Arities, NoArgument, Meant, Op
<1>13. Plain("GetCurrentSourceColorFormat", "GetCurrentSourceInfo.cfmt", 0)
  BY Rebuilt DEF Plain, Good, Parser, Arguments, Arities, NoArgument, Meant, Op
<1>14. Plain("SetCurrentSourceColorRange", "SetColorRangeMode", 1)
  BY Rebuilt DEF Plain, Good, Parser, Arguments, Arities, NoArgument, Meant, Op
<1>15. Plain("GetCurrentSourceColorRange", "GetColorRangeMode", 0)
  BY Rebuilt DEF Plain, Good, Parser, Arguments, Arities, NoArgument, Meant, Op
<1>16. Plain("SetHdmiAllmEnabled", "SetHdmiAllmEnabled", 1)
  BY Rebuilt DEF Plain, Good, Parser, Arguments, Arities, NoArgument, Meant, Op
<1>17. Plain("GetHdmiAllmEnabled", "GetHdmiAllmEnabled", 0)
  BY Rebuilt DEF Plain, Good, Parser, Arguments, Arities, NoArgument, Meant, Op
<1>18. Plain("SetHdmiVrrEnabled", "SetHdmiVrrEnabled", 1)
  BY Rebuilt DEF Plain, Good, Parser, Arguments, Arities, NoArgument, Meant, Op
<1>19. Plain("GetHdmiVrrEnabled", "GetHdmiVrrEnabled", 0)
  BY Rebuilt DEF Plain, Good, Parser, Arguments, Arities, NoArgument, Meant, Op
<1>20. Plain("GetHdmiVrrMode", "GetVrrMode", 0)
  BY Rebuilt DEF Plain, Good, Parser, Arguments, Arities, NoArgument, Meant, Op
<1>21. Plain("SetPcMode", "SetPcMode", 1)
  BY Rebuilt DEF Plain, Good, Parser, Arguments, Arities, NoArgument, Meant, Op
<1>22. Plain("SetEdidVersion", "SetEdidVersion", 2)
  BY Rebuilt DEF Plain, Good, Parser, Arguments, Arities, NoArgument, Meant, Op
<1>23. Plain("GetEdidVersion", "GetEdidVersion", 1)
  BY Rebuilt DEF Plain, Good, Parser, Arguments, Arities, NoArgument, Meant, Op
<1>. QED
  BY <1>1, <1>2, <1>3, <1>4, <1>5, <1>6, <1>7, <1>8, <1>9, <1>10, <1>11, <1>12, <1>13, <1>14, <1>15, <1>16, <1>17, <1>18, <1>19, <1>20, <1>21, <1>22, <1>23

(***************************************************************************)
(* What the words of a call's text are, and what they are parsed into.     *)
(***************************************************************************)
\* A text of a prefix and arguments: its words and the arguments behind it.
LEMMA TextRead ==
    ASSUME NEW p \in Seq(Words), NEW a \in Seq(Words)
    PROVE  /\ \A i \in 1..Len(p) : (p \o a)[i] = p[i] /\ Word(p \o a, i) = p[i]
           /\ Args(p \o a, Len(p) + 1, Len(a)) = a
<1>1. Args(p \o a, Len(p) + 1, Len(a)) = a
  BY ArgsAll
<1>2. ASSUME NEW i \in 1..Len(p) PROVE (p \o a)[i] = p[i] /\ Word(p \o a, i) = p[i]
  BY Joined DEF Word
<1>. QED
  BY <1>1, <1>2

\* Behind two words.
LEMMA TwoRead ==
    ASSUME NEW h, NEW i, <<h, i>> \in Seq(Words), NEW a \in Seq(Words)
    PROVE  LET w == <<h, i>> \o a
           IN  w[1] = h /\ Word(w, 2) = i /\ Args(w, 3, Len(a)) = a
<1>1. Len(<<h, i>>) = 2 /\ <<h, i>>[1] = h /\ <<h, i>>[2] = i /\ 1 \in 1..2 /\ 2 \in 1..2
  OBVIOUS
<1>. DEFINE p == <<h, i>>
<1>2. p \in Seq(Words) /\ Len(p) = 2 /\ p[1] = h /\ p[2] = i
  BY <1>1
<1>. HIDE DEF p
<1>3. (p \o a)[1] = h /\ Word(p \o a, 2) = i /\ Args(p \o a, 2 + 1, Len(a)) = a
  BY <1>1, <1>2, TextRead
<1>. QED
  BY <1>3 DEF p

\* Behind three words.
LEMMA ThreeRead ==
    ASSUME NEW h, NEW i, NEW j, <<h, i, j>> \in Seq(Words), NEW a \in Seq(Words)
    PROVE  LET w == <<h, i, j>> \o a
           IN  w[1] = h /\ Word(w, 2) = i /\ Word(w, 3) = j /\ Args(w, 4, Len(a)) = a
<1>1. Len(<<h, i, j>>) = 3 /\ <<h, i, j>>[1] = h /\ <<h, i, j>>[2] = i /\ <<h, i, j>>[3] = j
      /\ 1 \in 1..3 /\ 2 \in 1..3 /\ 3 \in 1..3
  OBVIOUS
<1>. DEFINE p == <<h, i, j>>
<1>2. p \in Seq(Words) /\ Len(p) = 3 /\ p[1] = h /\ p[2] = i /\ p[3] = j
  BY <1>1
<1>. HIDE DEF p
<1>3. (p \o a)[1] = h /\ Word(p \o a, 2) = i /\ Word(p \o a, 3) = j /\ Args(p \o a, 3 + 1, Len(a)) = a
  <2>. 1 \in 1..Len(p) /\ 2 \in 1..Len(p) /\ 3 \in 1..Len(p)
    BY <1>2
  <2>1. (p \o a)[1] = p[1]
    BY <1>2, TextRead
  <2>2. Word(p \o a, 2) = p[2]
    BY <1>2, TextRead
  <2>3. Word(p \o a, 3) = p[3]
    BY <1>2, TextRead
  <2>4. Args(p \o a, 3 + 1, Len(a)) = a
    BY <1>2, TextRead
  <2>. QED
    BY <1>2, <2>1, <2>2, <2>3, <2>4
<1>. QED
  BY <1>3 DEF p

\* The arguments of a call are words.
LEMMA ArgumentWords == \A c : Good(c) => c.args \in Seq(Words)
<1>1. Data \subseteq Words
  BY DEF Words
<1>. QED
  BY <1>1 DEF Good

\* A control command.
LEMMA ControlServed ==
    ASSUME NEW c, Good(c), NEW id, NEW o, NEW k,
           ByControl(c.name, id, o, k), Plain(c.name, o, k)
    PROVE  Parse(c, Text(c)) = Meant(c)
<1>. DEFINE w == <<"control", id>> \o c.args
<1>1. Parser(c) = "CMD_TV_ACTION" /\ Arguments(c) = c.args /\ Len(c.args) = k /\ Meant(c) = Op(o, c.args)
  BY DEF Plain
<1>2. Text(c) = w /\ ControlOps(id) = <<o, k>>
  BY <1>1 DEF Text, ByControl
<1>3. <<"control", id>> \in Seq(Words) /\ Len(<<"control", id>>) = 2
  BY DEF ByControl, Words
<1>4. c.args \in Seq(Words)
  BY ArgumentWords
<1>5. w[1] = "control" /\ Word(w, 2) = id /\ Args(w, 3, k) = c.args
  BY <1>1, <1>3, <1>4, TwoRead
<1>6. ParserTvCommand(w) = Op(o, c.args)
  <2>. HIDE DEF w
  <2>1. Select(ControlOps(Word(w, 2)), w, 3) = Op(o, c.args)
    BY <1>2, <1>5 DEF Select
  <2>. QED
    BY <1>5, <2>1 DEF ParserTvCommand
<1>. QED
  BY <1>1, <1>2, <1>6 DEF Parse

\* An HDMI command.
LEMMA HdmiServed ==
    ASSUME NEW c, Good(c), NEW id, NEW o, NEW k,
           ByHdmi(c.name, id, o, k), Plain(c.name, o, k), o # "SetGameMode"
    PROVE  Parse(c, Text(c)) = Meant(c)
<1>. DEFINE w == <<"hdmi", id>> \o c.args
<1>1. Parser(c) = "CMD_TV_ACTION" /\ Arguments(c) = c.args /\ Len(c.args) = k /\ Meant(c) = Op(o, c.args)
  BY DEF Plain
<1>2. Text(c) = w /\ HdmiOps(id) = <<o, k>>
  BY <1>1 DEF Text, ByHdmi
<1>3. <<"hdmi", id>> \in Seq(Words) /\ Len(<<"hdmi", id>>) = 2
  BY DEF ByHdmi, Words
<1>4. c.args \in Seq(Words)
  BY ArgumentWords
<1>5. w[1] = "hdmi" /\ Word(w, 2) = id /\ Args(w, 3, k) = c.args
  BY <1>1, <1>3, <1>4, TwoRead
<1>6. ParserTvCommand(w) = Op(o, c.args)
  <2>. HIDE DEF w
  <2>1. Select(HdmiOps(Word(w, 2)), w, 3) = Op(o, c.args)
    BY <1>2, <1>5 DEF Select
  <2>2. WithDefault(Op(o, c.args)) = Op(o, c.args)
    BY DEF WithDefault, Op
  <2>. QED
    BY <1>5, <2>1, <2>2 DEF ParserTvCommand
<1>. QED
  BY <1>1, <1>2, <1>6 DEF Parse

\* An EDID version.
LEMMA EdidServed ==
    ASSUME NEW c, Good(c), NEW way, NEW id, NEW o, NEW k,
           ByEdid(c.name, way, id, o, k), Plain(c.name, o, k)
    PROVE  Parse(c, Text(c)) = Meant(c)
<1>. DEFINE w == <<"edid", way, id>> \o c.args
<1>1. Parser(c) = "CMD_TV_ACTION" /\ Arguments(c) = c.args /\ Len(c.args) = k /\ Meant(c) = Op(o, c.args)
  BY DEF Plain
<1>2. Text(c) = w /\ EdidOps(way, id) = <<o, k>>
  BY <1>1 DEF Text, ByEdid
<1>3. <<"edid", way, id>> \in Seq(Words) /\ Len(<<"edid", way, id>>) = 3
  BY DEF ByEdid, Words
<1>4. c.args \in Seq(Words)
  BY ArgumentWords
<1>5. w[1] = "edid" /\ Word(w, 2) = way /\ Word(w, 3) = id /\ Args(w, 4, k) = c.args
  BY <1>1, <1>3, <1>4, ThreeRead
<1>6. ParserTvCommand(w) = Op(o, c.args)
  <2>. HIDE DEF w
  <2>1. Select(EdidOps(Word(w, 2), Word(w, 3)), w, 4) = Op(o, c.args)
    BY <1>2, <1>5 DEF Select
  <2>. QED
    BY <1>5, <2>1 DEF ParserTvCommand
<1>. QED
  BY <1>1, <1>2, <1>6 DEF Parse

\* The game mode and its value, which is not missing.
LEMMA GameModeRead ==
    ASSUME NEW a \in Seq(Words), Len(a) = 2, a[2] # NULL
    PROVE  ParserTvCommand(<<"hdmi", Id.SET_GAME_MODE>> \o a) = Op("SetGameMode", a)
<1>. DEFINE id == Id.SET_GAME_MODE
            w == <<"hdmi", id>> \o a
<1>1. id \in Nat /\ HdmiOps(id) = <<"SetGameMode", 2>>
  BY HdmiTable DEF ByHdmi
<1>. HIDE DEF id
<1>2. <<"hdmi", id>> \in Seq(Words)
  BY <1>1 DEF Words
<1>3. w[1] = "hdmi" /\ Word(w, 2) = id /\ Args(w, 3, 2) = a
  <2>1. w[1] = "hdmi" /\ Word(w, 2) = id /\ Args(w, 3, Len(a)) = a
    BY ONLY <1>2, TwoRead, a \in Seq(Words)
  <2>. QED
    BY <2>1
<1>4. ParserTvCommand(w) = Op("SetGameMode", a)
  <2>. HIDE DEF w
  <2>1. Select(HdmiOps(Word(w, 2)), w, 3) = Op("SetGameMode", a)
    BY <1>1, <1>3 DEF Select
  <2>2. WithDefault(Op("SetGameMode", a)) = Op("SetGameMode", a)
    BY DEF WithDefault, Op
  <2>. QED
    BY <1>3, <2>1, <2>2 DEF ParserTvCommand
<1>. QED
  BY <1>4 DEF id

\* The game mode: a switched off one is sent as 0 with the value 0, and no value
\* that is sent is the word strtok returns at the end.
LEMMA GameModeServed ==
    ASSUME NEW c, Good(c), c.name = "SetGameMode"
    PROVE  Parse(c, Text(c)) = Meant(c)
<1>. DEFINE a == IF c.args[1] = 0 THEN <<0, 0>> ELSE c.args
<1>1. c.args \in Seq(Data) /\ Len(c.args) = 2
  BY DEF Good, Arities, NoArgument
<1>2. Len(a) = 2 /\ a \in Seq(Words) /\ a[1] = c.args[1]
      /\ a[2] = IF c.args[1] = 0 THEN 0 ELSE c.args[2]
  <2>1. CASE c.args[1] = 0
    BY <2>1 DEF Words
  <2>2. CASE c.args[1] # 0
    BY <1>1, <2>2, ArgumentWords
  <2>. QED
    BY <2>1, <2>2
<1>3. a = <<c.args[1], IF c.args[1] = 0 THEN 0 ELSE c.args[2]>>
  <2>. HIDE DEF a
  <2>. QED
    BY <1>2
<1>4. a[2] # NULL
  <2>1. c.args[2] \in Data
    BY <1>1
  <2>. QED
    BY <1>2, <2>1, CallsAssumption
<1>5. Parser(c) = "CMD_TV_ACTION" /\ Arguments(c) = a /\ Meant(c) = Op("SetGameMode", a)
  <2>1. Parser(c) = "CMD_TV_ACTION" /\ Arguments(c) = a
    BY DEF Parser, Arguments
  <2>2. Meant(c) = Op("SetGameMode", <<c.args[1], IF c.args[1] = 0 THEN 0 ELSE c.args[2]>>)
    BY DEF Meant
  <2>. QED
    BY <1>3, <2>1, <2>2
<1>6. Text(c) = <<"hdmi", Id.SET_GAME_MODE>> \o a
  BY <1>5, HdmiTable DEF Text, ByHdmi
<1>7. ParserTvCommand(<<"hdmi", Id.SET_GAME_MODE>> \o a) = Op("SetGameMode", a)
  <2>. HIDE DEF a
  <2>. QED
    BY <1>2, <1>4, GameModeRead
<1>. QED
  BY <1>5, <1>6, <1>7 DEF Parse

\* The EDID data, set and read.
LEMMA EdidDataServed ==
    ASSUME NEW c, Good(c), c.name \in {"SetEdidData", "GetEdidData"}
    PROVE  Parse(c, Text(c)) = Meant(c)
<1>. DEFINE p == Prefix(c.name)
            w == p \o c.args
<1>1. c.args \in Seq(Words) /\ Len(c.args) = 1
  BY ArgumentWords DEF Good, Arities, NoArgument
<1>2. Parser(c) = "DATA_ACTION" /\ Text(c) = w
  BY DEF Parser, Text, Arguments
<1>3. p \in Seq(Words) /\ Len(p) = 1
      /\ p[1] = IF c.name = "SetEdidData" THEN Id.EDID_DATA_SET ELSE Id.EDID_DATA_GET
  BY DEF Prefix, SourceText, Id, Words
<1>4. w[1] = p[1] /\ Args(w, 2, 1) = c.args
  <2>. HIDE DEF p
  <2>1. 1 \in 1..Len(p) /\ Len(p) + 1 = 2
    BY <1>3
  <2>. QED
    BY <1>1, <1>3, <2>1, TextRead
<1>5. ParserTvDataCommand(w) = Meant(c)
  <2>. HIDE DEF p, w
  <2>1. CASE c.name = "SetEdidData"
    BY <1>3, <1>4, <2>1 DEF ParserTvDataCommand, Meant, Id
  <2>2. CASE c.name = "GetEdidData"
    BY <1>3, <1>4, <2>2 DEF ParserTvDataCommand, Meant, Id
  <2>. QED
    BY <2>1, <2>2
<1>. QED
  BY <1>2, <1>5 DEF Parse

\* The SPD data: the words of the buffer are not read.
LEMMA SPDInfoServed ==
    ASSUME NEW c, Good(c), c.name = "GetSPDInfo"
    PROVE  Parse(c, Text(c)) = Meant(c)
<1>. DEFINE p == <<"pkttype", "get", Id.SPD_INFO_GET>>
            w == p \o c.args
<1>1. c.args \in Seq(Words) /\ Len(c.args) \in {2, 3}
  BY ArgumentWords DEF Good, Arities, NoArgument
<1>2. Parser(c) = "CMD_DATA_REQ" /\ Text(c) = w
  BY DEF Parser, Text, Arguments, Prefix, SourceText
<1>3. p \in Seq(Words) /\ Len(p) = 3
  BY DEF Words, Id
<1>4. w[1] = "pkttype" /\ Word(w, 2) = "get" /\ Word(w, 3) = Id.SPD_INFO_GET
  BY <1>1, <1>3, ThreeRead
<1>5. Args(w, 4, 2) = <<c.args[1], c.args[2]>>
  <2>. HIDE DEF p
  <2>1. ASSUME NEW i \in 1..2 PROVE Word(w, 4 + i - 1) = c.args[i]
    <3>1. i \in 1..Len(c.args) /\ Len(w) = 3 + Len(c.args) /\ w[3 + i] = c.args[i]
      BY <1>1, <1>3, Joined
    <3>2. 4 + i - 1 = 3 + i /\ 3 + i <= Len(w)
      BY <1>1, <3>1
    <3>. QED
      BY <3>1, <3>2 DEF Word
  <2>2. Args(w, 4, 2) = [i \in 1..2 |-> c.args[i]]
    BY <2>1 DEF Args
  <2>. QED
    BY <2>2
<1>6. HandleDataRequest(w) = Op("GetHdmiSPDInfo", <<c.args[1], c.args[2]>>)
  <2>. HIDE DEF w
  <2>1. Id.SPD_INFO_GET # Id.EDID_DATA_GET
    BY DEF Id
  <2>. QED
    BY <1>4, <1>5, <2>1 DEF HandleDataRequest
<1>7. Meant(c) = Op("GetHdmiSPDInfo", <<c.args[1], c.args[2]>>)
  BY DEF Meant
<1>. QED
  BY <1>2, <1>6, <1>7 DEF Parse

\* The ALLM information has no text to read.
LEMMA AllmInfoServed ==
    ASSUME NEW c, Good(c), c.name = "GetCurrentSourceAllmInfo"
    PROVE  Parse(c, Text(c)) = Meant(c)
  BY DEF Parse, Parser, Meant

\* Every call of the library is parsed into the operation it means.
LEMMA ParseText == \A c : Good(c) => Parse(c, Text(c)) = Meant(c)
<1>. SUFFICES ASSUME NEW c, Good(c) PROVE Parse(c, Text(c)) = Meant(c)
  OBVIOUS
<1>. DEFINE Control == {"StartTv", "StopTv", "SetVdinWorkMode", "GetCurrentSourceFrameHeight",
                        "GetCurrentSourceFrameWidth", "GetCurrentSourceFrameFps",
                        "GetCurrentSourceColorDepth", "GetCurrentSourceLineScanMode",
                        "GetSourceConnectStatus", "SetEdidBoostOn", "SetHeadlessMode"}
            Hdmi == {"GetCurrentSourceAspectRatio", "GetCurrentSourceColorFormat",
                     "SetCurrentSourceColorRange", "GetCurrentSourceColorRange",
                     "SetHdmiAllmEnabled", "GetHdmiAllmEnabled", "SetHdmiVrrEnabled",
                     "GetHdmiVrrEnabled", "GetHdmiVrrMode", "SetPcMode"}
<1>1. c.name \in Control \cup Hdmi \cup {"SetEdidVersion", "GetEdidVersion"}
                 \cup {"SetGameMode", "SetEdidData", "GetEdidData", "GetSPDInfo", "GetCurrentSourceAllmInfo"}
  BY DEF Good, Names, SourceText, FrameText, HdmiText
<1>2. CASE c.name \in Control
  BY <1>2, ControlTable, PlainCalls, ControlServed
<1>3. CASE c.name \in Hdmi
  <2>1. "GetCurrentSourceInfo.aspect_ratio" # "SetGameMode" /\ "GetCurrentSourceInfo.cfmt" # "SetGameMode"
        /\ "SetColorRangeMode" # "SetGameMode" /\ "GetColorRangeMode" # "SetGameMode"
        /\ "SetHdmiAllmEnabled" # "SetGameMode" /\ "GetHdmiAllmEnabled" # "SetGameMode"
        /\ "SetHdmiVrrEnabled" # "SetGameMode" /\ "GetHdmiVrrEnabled" # "SetGameMode"
        /\ "GetVrrMode" # "SetGameMode" /\ "SetPcMode" # "SetGameMode"
    OBVIOUS
  <2>. QED
    BY <1>3, <2>1, HdmiTable, PlainCalls, HdmiServed
<1>4. CASE c.name \in {"SetEdidVersion", "GetEdidVersion"}
  BY <1>4, EdidTable, PlainCalls, EdidServed
<1>5. CASE c.name \in {"SetGameMode", "SetEdidData", "GetEdidData", "GetSPDInfo", "GetCurrentSourceAllmInfo"}
  BY <1>5, GameModeServed, EdidDataServed, SPDInfoServed, AllmInfoServed
<1>. QED
  BY <1>1, <1>2, <1>3, <1>4, <1>5

\* What is in front of the arguments.
Shape(p) ==
    \E id \in Nat :
        p \in {<<"control", id>>, <<"hdmi", id>>, <<"edid", "set", id>>, <<"edid", "get", id>>,
               <<"pkttype", "get", id>>, <<id>>}

\* Of every call with a text.
LEMMA PrefixShape == \A n \in Names \ {"GetCurrentSourceAllmInfo"} : Shape(Prefix(n))
<1>. DEFINE Control == {"StartTv", "StopTv", "SetVdinWorkMode", "GetCurrentSourceFrameHeight",
                        "GetCurrentSourceFrameWidth", "GetCurrentSourceFrameFps",
                        "GetCurrentSourceColorDepth", "GetCurrentSourceLineScanMode",
                        "GetSourceConnectStatus", "SetEdidBoostOn", "SetHeadlessMode"}
            Hdmi == {"GetCurrentSourceAspectRatio", "GetCurrentSourceColorFormat",
                     "SetCurrentSourceColorRange", "GetCurrentSourceColorRange",
                     "SetHdmiAllmEnabled", "GetHdmiAllmEnabled", "SetHdmiVrrEnabled",
                     "GetHdmiVrrEnabled", "GetHdmiVrrMode", "SetPcMode", "SetGameMode"}
<1>. TAKE n \in Names \ {"GetCurrentSourceAllmInfo"}
<1>1. n \in Control \cup Hdmi \cup {"SetEdidVersion", "GetEdidVersion"}
           \cup {"SetEdidData", "GetEdidData", "GetSPDInfo"}
  BY DEF Names, SourceText, FrameText, HdmiText
<1>2. CASE n \in Control
  <2>1. \E id, o, k : ByControl(n, id, o, k)
    BY <1>2, ControlTable
  <2>. QED
    BY <2>1 DEF ByControl, Shape
<1>3. CASE n \in Hdmi
  <2>1. \E id, o, k : ByHdmi(n, id, o, k)
    BY <1>3, HdmiTable
  <2>. QED
    BY <2>1 DEF ByHdmi, Shape
<1>4. CASE n \in {"SetEdidVersion", "GetEdidVersion"}
  <2>1. \E way, id, o, k : ByEdid(n, way, id, o, k)
    BY <1>4, EdidTable
  <2>. QED
    BY <2>1 DEF ByEdid, Shape
<1>5. CASE n \in {"SetEdidData", "GetEdidData", "GetSPDInfo"}
  <2>1. Prefix(n) \in {<<Id.EDID_DATA_SET>>, <<Id.EDID_DATA_GET>>, <<"pkttype", "get", Id.SPD_INFO_GET>>}
    BY <1>5 DEF Prefix, SourceText
  <2>2. Id.EDID_DATA_SET \in Nat /\ Id.EDID_DATA_GET \in Nat /\ Id.SPD_INFO_GET \in Nat
    BY DEF Id
  <2>. QED
    BY <2>1, <2>2 DEF Shape
<1>. QED
  BY <1>1, <1>2, <1>3, <1>4, <1>5

\* No text is empty, and every one is made of words.
LEMMA TextWords ==
    ASSUME NEW c, Good(c), Parser(c) # "CMT_GET_ALLM_INFO"
    PROVE  Text(c) \in Seq(Words) /\ Text(c) # <<>>
<1>1. Shape(Prefix(c.name))
  BY PrefixShape DEF Good, Parser
<1>2. Prefix(c.name) \in Seq(Words) /\ Len(Prefix(c.name)) > 0
  <2>1. PICK id \in Nat : Prefix(c.name) \in
           {<<"control", id>>, <<"hdmi", id>>, <<"edid", "set", id>>, <<"edid", "get", id>>,
            <<"pkttype", "get", id>>, <<id>>}
    BY <1>1 DEF Shape
  <2>2. id \in Words /\ \A w \in {"control", "hdmi", "edid", "set", "get", "pkttype"} : w \in Words
    BY DEF Words
  <2>3. ASSUME NEW v \in Words PROVE <<v, id>> \in Seq(Words) /\ Len(<<v, id>>) > 0
    BY <2>2
  <2>4. ASSUME NEW v \in Words, NEW w \in Words
        PROVE  <<v, w, id>> \in Seq(Words) /\ Len(<<v, w, id>>) > 0
    BY <2>2
  <2>5. <<id>> \in Seq(Words) /\ Len(<<id>>) > 0
    BY <2>2
  <2>6. CASE Prefix(c.name) \in {<<"control", id>>, <<"hdmi", id>>}
    BY <2>2, <2>3, <2>6
  <2>7. CASE Prefix(c.name) \in {<<"edid", "set", id>>, <<"edid", "get", id>>, <<"pkttype", "get", id>>}
    BY <2>2, <2>4, <2>7
  <2>8. CASE Prefix(c.name) = <<id>>
    BY <2>5, <2>8
  <2>. QED
    BY <2>1, <2>6, <2>7, <2>8
<1>3. Arguments(c) \in Seq(Words)
  <2>1. CASE Arguments(c) = <<0, 0>>
    BY <2>1 DEF Words
  <2>2. CASE Arguments(c) = c.args
    BY <2>2, ArgumentWords
  <2>. QED
    BY <2>1, <2>2 DEF Arguments
<1>4. Text(c) \in Seq(Words) /\ Len(Text(c)) = Len(Prefix(c.name)) + Len(Arguments(c))
  BY <1>2, <1>3, Joined DEF Text
<1>5. Len(Text(c)) > 0
  <2>1. Len(Prefix(c.name)) \in Nat /\ Len(Arguments(c)) \in Nat
    BY <1>2, <1>3
  <2>. QED
    BY <1>2, <1>4, <2>1
<1>. QED
  BY <1>4, <1>5

\* The word that is taken next goes from the head of one to the end of the other.
LEMMA Taken ==
    ASSUME NEW w \in Seq(Words), NEW s \in Seq(Words), s # <<>>
    PROVE  /\ Append(w, Head(s)) \in Seq(Words) /\ Tail(s) \in Seq(Words)
           /\ Append(w, Head(s)) \o Tail(s) = w \o s
  OBVIOUS

\* The first word and the others are the text.
LEMMA FirstTaken ==
    ASSUME NEW s \in Seq(Words), s # <<>>
    PROVE  <<Head(s)>> \in Seq(Words) /\ Tail(s) \in Seq(Words) /\ <<Head(s)>> \o Tail(s) = s
  OBVIOUS

(***************************************************************************)
(* The inductive invariant.                                                *)
(***************************************************************************)
Parsers == {"idle", "sent", "parse", "served", "returned"}
EveryCall == UNION {Calls[t] : t \in Threads}

TypeOK ==
    /\ pc \in [Threads -> Parsers]
    /\ call \in [Threads -> EveryCall \cup {Idle}]
    /\ word \in [Threads -> Seq(Words)]
    /\ op \in [Threads -> {Meant(c) : c \in EveryCall} \cup {NoOp}]
    /\ done \in [Threads -> Values]
    /\ result \in [Threads -> Values]
    /\ strtok \in Seq(Words)
    /\ tvservice_mutex \in Threads \cup {"free"}
    /\ dead \in BOOLEAN

\* A thread under way has a call of its own.
Calling(t) == pc[t] # "idle" => call[t] \in Calls[t]

\* The parser holds the lock, and the words it has taken and those strtok has left
\* are its text.
Parsing(t) ==
    pc[t] = "parse" =>
        /\ Parser(call[t]) # "CMT_GET_ALLM_INFO"
        /\ tvservice_mutex = t
        /\ word[t] \o strtok = Text(call[t])

\* The controller is asked for the operation meant, once, and the library returns
\* its answer.
Asked(t) ==
    /\ pc[t] \in {"idle", "sent", "parse"} => op[t] = NoOp
    /\ pc[t] = "served" => op[t] = Meant(call[t])
    /\ pc[t] = "returned" /\ op[t] # NoOp =>
          op[t] = Meant(call[t]) /\ result[t] = FromReply(call[t], Reply(op[t], done[t]))

Inv == TypeOK /\ \A t \in Threads : Calling(t) /\ Parsing(t) /\ Asked(t)

\* What the assumption says of the calls.
LEMMA GoodCalls == \A t \in Threads : \A c \in Calls[t] : Good(c) /\ c \in EveryCall
  BY CallsAssumption DEF Good, EveryCall

\* A result is a value, of a reply or of a transaction that fails.
LEMMA ResultValues ==
    ASSUME NEW c
    PROVE  /\ \A o : \A r \in Values : FromReply(c, Reply(o, r)) \in Values
           /\ FromFailure(c) \subseteq Values
<1>1. \A r \in Values : FromReply(c, r) \in Values
  BY DEF FromReply, IsTrue, Values, FAILED, Bools, Unread
<1>2. \A o : \A r \in Values : Reply(o, r) \in Values
  BY DEF Reply, Values, FAILED
<1>3. FromFailure(c) \subseteq Values
  BY <1>1 DEF FromFailure, Values
<1>. QED
  BY <1>1, <1>2, <1>3

\* It holds at the start.
LEMMA InitInv == Init => Inv
<1>. SUFFICES ASSUME Init PROVE Inv
  OBVIOUS
<1>1. TypeOK
  <2>1. <<>> \in Seq(Words)
    OBVIOUS
  <2>2. word \in [Threads -> Seq(Words)] /\ strtok \in Seq(Words)
    BY <2>1 DEF Init
  <2>3. pc \in [Threads -> Parsers] /\ call \in [Threads -> EveryCall \cup {Idle}]
    BY DEF Init, Parsers
  <2>4. op \in [Threads -> {Meant(c) : c \in EveryCall} \cup {NoOp}]
    BY DEF Init
  <2>5. done \in [Threads -> Values] /\ result \in [Threads -> Values]
    BY DEF Init, Values
  <2>6. tvservice_mutex \in Threads \cup {"free"} /\ dead \in BOOLEAN
    BY DEF Init
  <2>. QED
    BY <2>2, <2>3, <2>4, <2>5, <2>6 DEF TypeOK
<1>2. \A t \in Threads : Calling(t) /\ Parsing(t) /\ Asked(t)
  BY DEF Init, Calling, Parsing, Asked
<1>. QED
  BY <1>1, <1>2 DEF Inv

\* What one thread does leaves the others' part of the invariant alone, when it
\* touches neither the lock nor strtok, or no other thread is parsing.
LEMMA Others ==
    ASSUME Inv, NEW t \in Threads, NEW u \in Threads, u # t,
           pc'[u] = pc[u], call'[u] = call[u], word'[u] = word[u], op'[u] = op[u],
           done'[u] = done[u], result'[u] = result[u],
           \/ strtok' = strtok /\ tvservice_mutex' = tvservice_mutex
           \/ pc[u] # "parse"
    PROVE  Calling(u)' /\ Parsing(u)' /\ Asked(u)'
<1>1. Calling(u) /\ Parsing(u) /\ Asked(u)
  BY DEF Inv
<1>2. Calling(u)'
  BY <1>1 DEF Calling
<1>3. Parsing(u)'
  BY <1>1 DEF Parsing
<1>4. Asked(u)'
  BY <1>1 DEF Asked
<1>. QED
  BY <1>2, <1>3, <1>4

\* A call is made.
LEMMA SendMethodCallInv ==
    ASSUME Inv, NEW t \in Threads, NEW c \in Calls[t], SendMethodCall(t, c)
    PROVE  Inv'
<1>1. TypeOK'
  <2>1. pc' \in [Threads -> Parsers] /\ call' \in [Threads -> EveryCall \cup {Idle}]
    BY GoodCalls DEF Inv, TypeOK, SendMethodCall, Go, Parsers
  <2>. QED
    BY <2>1 DEF Inv, TypeOK, SendMethodCall
<1>2. pc[t] = "idle" /\ pc'[t] = "sent" /\ call'[t] = c
  BY DEF Inv, TypeOK, SendMethodCall, Go
<1>3. Calling(t)' /\ Parsing(t)' /\ Asked(t)'
  BY <1>2 DEF Inv, Calling, Parsing, Asked, SendMethodCall
<1>4. ASSUME NEW u \in Threads, u # t PROVE Calling(u)' /\ Parsing(u)' /\ Asked(u)'
  BY <1>4, Others DEF Inv, TypeOK, SendMethodCall, Go
<1>. QED
  BY <1>1, <1>3, <1>4 DEF Inv

\* A transaction that fails returns without an operation.
LEMMA TransactFailsInv ==
    ASSUME Inv, NEW t \in Threads, TransactFails(t)
    PROVE  Inv'
<1>1. TypeOK'
  <2>1. pc' \in [Threads -> Parsers] /\ result' \in [Threads -> Values]
    BY ResultValues DEF Inv, TypeOK, TransactFails, Go, Parsers
  <2>. QED
    BY <2>1 DEF Inv, TypeOK, TransactFails
<1>2. pc[t] \in {"sent", "parse"} /\ pc'[t] = "returned"
  BY DEF Inv, TypeOK, TransactFails, Go
<1>3. Calling(t)' /\ Parsing(t)' /\ Asked(t)'
  BY <1>2 DEF Inv, Calling, Parsing, Asked, TransactFails
<1>4. ASSUME NEW u \in Threads, u # t PROVE Calling(u)' /\ Parsing(u)' /\ Asked(u)'
  <2>1. pc'[u] = pc[u] /\ result'[u] = result[u]
    BY <1>4 DEF Inv, TypeOK, TransactFails, Go
  <2>. QED
    BY <1>4, <2>1, Others DEF TransactFails
<1>. QED
  BY <1>1, <1>3, <1>4 DEF Inv

\* The lock is taken: no other thread parses.
LEMMA FirstWordInv ==
    ASSUME Inv, NEW t \in Threads, FirstWord(t)
    PROVE  Inv'
<1>1. pc[t] = "sent" /\ call[t] \in Calls[t] /\ Parser(call[t]) # "CMT_GET_ALLM_INFO"
  BY DEF Inv, Calling, FirstWord
<1>2. Text(call[t]) \in Seq(Words) /\ Text(call[t]) # <<>>
  BY <1>1, GoodCalls, TextWords
<1>3. /\ <<Head(Text(call[t]))>> \in Seq(Words) /\ Tail(Text(call[t])) \in Seq(Words)
      /\ <<Head(Text(call[t]))>> \o Tail(Text(call[t])) = Text(call[t])
  BY <1>2, FirstTaken
<1>4. TypeOK'
  <2>1. pc' \in [Threads -> Parsers]
    BY DEF Inv, TypeOK, FirstWord, Go, Parsers
  <2>2. word' \in [Threads -> Seq(Words)] /\ strtok' \in Seq(Words)
    BY <1>3 DEF Inv, TypeOK, FirstWord
  <2>. QED
    BY <2>1, <2>2 DEF Inv, TypeOK, FirstWord
<1>5. pc'[t] = "parse" /\ word'[t] = <<Head(Text(call[t]))>> /\ call'[t] = call[t] /\ op'[t] = op[t]
  BY DEF Inv, TypeOK, FirstWord, Go
<1>6. Calling(t)'
  BY <1>1, <1>5 DEF Calling
<1>7. Parsing(t)'
  BY <1>1, <1>3, <1>5 DEF Parsing, FirstWord
<1>8. Asked(t)'
  BY <1>1, <1>5 DEF Inv, Asked
<1>9. ASSUME NEW u \in Threads, u # t PROVE Calling(u)' /\ Parsing(u)' /\ Asked(u)'
  <2>1. pc'[u] = pc[u] /\ word'[u] = word[u]
    BY <1>9 DEF Inv, TypeOK, FirstWord, Go
  <2>2. pc[u] # "parse"
    BY CallsAssumption DEF Inv, Parsing, FirstWord
  <2>. QED
    BY <1>9, <2>1, <2>2, Others DEF FirstWord
<1>. QED
  BY <1>4, <1>6, <1>7, <1>8, <1>9 DEF Inv

\* The next word: only the holder of the lock takes one.
LEMMA NextWordInv ==
    ASSUME Inv, NEW t \in Threads, NextWord(t)
    PROVE  Inv'
<1>1. pc[t] = "parse" /\ word[t] \in Seq(Words) /\ strtok \in Seq(Words) /\ strtok # <<>>
  BY DEF Inv, TypeOK, NextWord
<1>2. /\ Append(word[t], Head(strtok)) \in Seq(Words) /\ Tail(strtok) \in Seq(Words)
      /\ Append(word[t], Head(strtok)) \o Tail(strtok) = word[t] \o strtok
  BY <1>1, Taken
<1>3. TypeOK'
  <2>1. word' \in [Threads -> Seq(Words)] /\ strtok' \in Seq(Words)
    BY <1>2 DEF Inv, TypeOK, NextWord
  <2>. QED
    BY <2>1 DEF Inv, TypeOK, NextWord
<1>4. word'[t] = Append(word[t], Head(strtok))
  BY DEF Inv, TypeOK, NextWord
<1>5. Calling(t)'
  BY DEF Inv, Calling, NextWord
<1>6. Parsing(t)'
  BY <1>1, <1>2, <1>4 DEF Inv, Parsing, NextWord
<1>7. Asked(t)'
  BY DEF Inv, Asked, NextWord
<1>8. ASSUME NEW u \in Threads, u # t PROVE Calling(u)' /\ Parsing(u)' /\ Asked(u)'
  <2>1. word'[u] = word[u]
    BY <1>8 DEF Inv, TypeOK, NextWord
  <2>2. pc[u] # "parse"
    BY <1>1, <1>8 DEF Inv, Parsing
  <2>. QED
    BY <1>8, <2>1, <2>2, Others DEF NextWord
<1>. QED
  BY <1>3, <1>5, <1>6, <1>7, <1>8 DEF Inv

\* All words are taken: they are the text, and the operation the one meant.
LEMMA ServeInv ==
    ASSUME Inv, NEW t \in Threads, Serve(t)
    PROVE  Inv'
<1>1. pc[t] = "parse" /\ call[t] \in Calls[t] /\ word[t] \in Seq(Words) /\ strtok = <<>>
      /\ word[t] \o strtok = Text(call[t])
  BY DEF Inv, TypeOK, Calling, Parsing, Serve
<1>2. word[t] = Text(call[t])
  BY <1>1
<1>3. Parse(call[t], word[t]) = Meant(call[t]) /\ call[t] \in EveryCall
  BY <1>1, <1>2, GoodCalls, ParseText
<1>4. op' = [op EXCEPT ![t] = Meant(call[t])]
  BY <1>3 DEF Serve
<1>5. TypeOK'
  <2>1. pc' \in [Threads -> Parsers]
    BY DEF Inv, TypeOK, Serve, Go, Parsers
  <2>2. op' \in [Threads -> {Meant(c) : c \in EveryCall} \cup {NoOp}]
    BY <1>3, <1>4 DEF Inv, TypeOK
  <2>3. done' \in [Threads -> Values]
    BY DEF Inv, TypeOK, Serve
  <2>. QED
    BY <2>1, <2>2, <2>3 DEF Inv, TypeOK, Serve
<1>6. pc'[t] = "served" /\ op'[t] = Meant(call[t]) /\ call'[t] = call[t]
  BY <1>4 DEF Inv, TypeOK, Serve, Go
<1>7. Calling(t)' /\ Parsing(t)' /\ Asked(t)'
  BY <1>1, <1>6 DEF Calling, Parsing, Asked
<1>8. ASSUME NEW u \in Threads, u # t PROVE Calling(u)' /\ Parsing(u)' /\ Asked(u)'
  <2>1. pc'[u] = pc[u] /\ op'[u] = op[u] /\ done'[u] = done[u]
    BY <1>8 DEF Inv, TypeOK, Serve, Go
  <2>2. pc[u] # "parse"
    BY <1>1, <1>8 DEF Inv, Parsing
  <2>. QED
    BY <1>8, <2>1, <2>2, Others DEF Serve
<1>. QED
  BY <1>5, <1>7, <1>8 DEF Inv

\* The ALLM information, which needs no words.
LEMMA ServeAllmInfoInv ==
    ASSUME Inv, NEW t \in Threads, ServeAllmInfo(t)
    PROVE  Inv'
<1>1. pc[t] = "sent" /\ call[t] \in Calls[t]
  BY DEF Inv, Calling, ServeAllmInfo
<1>2. Parse(call[t], Text(call[t])) = Meant(call[t]) /\ call[t] \in EveryCall
  BY <1>1, GoodCalls, ParseText
<1>3. op' = [op EXCEPT ![t] = Meant(call[t])]
  BY <1>2 DEF ServeAllmInfo
<1>4. TypeOK'
  <2>1. pc' \in [Threads -> Parsers]
    BY DEF Inv, TypeOK, ServeAllmInfo, Go, Parsers
  <2>2. op' \in [Threads -> {Meant(c) : c \in EveryCall} \cup {NoOp}]
    BY <1>2, <1>3 DEF Inv, TypeOK
  <2>. QED
    BY <2>1, <2>2 DEF Inv, TypeOK, ServeAllmInfo
<1>5. pc'[t] = "served" /\ op'[t] = Meant(call[t]) /\ call'[t] = call[t]
  BY <1>3 DEF Inv, TypeOK, ServeAllmInfo, Go
<1>6. Calling(t)' /\ Parsing(t)' /\ Asked(t)'
  BY <1>1, <1>5 DEF Calling, Parsing, Asked
<1>7. ASSUME NEW u \in Threads, u # t PROVE Calling(u)' /\ Parsing(u)' /\ Asked(u)'
  <2>1. pc'[u] = pc[u] /\ op'[u] = op[u]
    BY <1>7 DEF Inv, TypeOK, ServeAllmInfo, Go
  <2>. QED
    BY <1>7, <2>1, Others DEF ServeAllmInfo
<1>. QED
  BY <1>4, <1>6, <1>7 DEF Inv

\* The reply is read.
LEMMA ReadReplyInv ==
    ASSUME Inv, NEW t \in Threads, ReadReply(t)
    PROVE  Inv'
<1>1. TypeOK'
  <2>1. pc' \in [Threads -> Parsers]
    BY DEF Inv, TypeOK, ReadReply, Go, Parsers
  <2>2. result' \in [Threads -> Values]
    BY ResultValues DEF Inv, TypeOK, ReadReply
  <2>. QED
    BY <2>1, <2>2 DEF Inv, TypeOK, ReadReply
<1>2. /\ pc[t] = "served" /\ pc'[t] = "returned"
      /\ call'[t] = call[t] /\ op'[t] = op[t] /\ done'[t] = done[t]
      /\ result'[t] = FromReply(call[t], Reply(op[t], done[t]))
  BY DEF Inv, TypeOK, ReadReply, Go
<1>3. Calling(t)' /\ Parsing(t)'
  BY <1>2 DEF Inv, Calling, Parsing
<1>4. Asked(t)'
  BY <1>2 DEF Inv, Asked
<1>5. ASSUME NEW u \in Threads, u # t PROVE Calling(u)' /\ Parsing(u)' /\ Asked(u)'
  <2>1. pc'[u] = pc[u] /\ result'[u] = result[u]
    BY <1>5 DEF Inv, TypeOK, ReadReply, Go
  <2>. QED
    BY <1>5, <2>1, Others DEF ReadReply
<1>. QED
  BY <1>1, <1>3, <1>4, <1>5 DEF Inv

\* The call returns, and the thread may make another.
LEMMA ReturnInv ==
    ASSUME Inv, NEW t \in Threads, Return(t)
    PROVE  Inv'
<1>1. TypeOK'
  <2>1. pc' \in [Threads -> Parsers] /\ call' \in [Threads -> EveryCall \cup {Idle}]
    BY DEF Inv, TypeOK, Return, Go, Parsers
  <2>2. word' \in [Threads -> Seq(Words)]
    BY DEF Inv, TypeOK, Return
  <2>3. op' \in [Threads -> {Meant(c) : c \in EveryCall} \cup {NoOp}]
    BY DEF Inv, TypeOK, Return
  <2>4. done' \in [Threads -> Values] /\ result' \in [Threads -> Values]
    BY DEF Inv, TypeOK, Return, Values
  <2>. QED
    BY <2>1, <2>2, <2>3, <2>4 DEF Inv, TypeOK, Return
<1>2. pc'[t] = "idle" /\ op'[t] = NoOp
  BY DEF Inv, TypeOK, Return, Go
<1>3. Calling(t)' /\ Parsing(t)' /\ Asked(t)'
  BY <1>2 DEF Calling, Parsing, Asked
<1>4. ASSUME NEW u \in Threads, u # t PROVE Calling(u)' /\ Parsing(u)' /\ Asked(u)'
  <2>1. pc'[u] = pc[u] /\ call'[u] = call[u] /\ word'[u] = word[u]
    BY <1>4 DEF Inv, TypeOK, Return, Go
  <2>2. op'[u] = op[u] /\ done'[u] = done[u] /\ result'[u] = result[u]
    BY <1>4 DEF Inv, TypeOK, Return
  <2>. QED
    BY <1>4, <2>1, <2>2, Others DEF Return
<1>. QED
  BY <1>1, <1>3, <1>4 DEF Inv

\* The service dies, with the lock in whatever hands.
LEMMA ServerDiesInv ==
    ASSUME Inv, ServerDies
    PROVE  Inv'
  BY DEF Inv, TypeOK, Calling, Parsing, Asked, ServerDies

\* Every step keeps it.
LEMMA StepInv == Inv /\ [Next]_vars => Inv'
<1>. SUFFICES ASSUME Inv, [Next]_vars PROVE Inv'
  OBVIOUS
<1>1. CASE UNCHANGED vars
  BY <1>1 DEF vars, Inv, TypeOK, Calling, Parsing, Asked
<1>2. ASSUME NEW t \in Threads, Step(t) PROVE Inv'
  BY <1>2, TransactFailsInv, FirstWordInv, NextWordInv, ServeInv, ServeAllmInfoInv,
     ReadReplyInv, ReturnInv DEF Step
<1>3. ASSUME NEW t \in Threads, NEW c \in Calls[t], SendMethodCall(t, c) PROVE Inv'
  BY <1>3, SendMethodCallInv
<1>4. CASE ServerDies
  BY <1>4, ServerDiesInv
<1>. QED
  BY <1>1, <1>2, <1>3, <1>4 DEF Next

\* It always holds.
LEMMA Invariance == Spec => []Inv
  BY InitInv, StepInv, PTL DEF Spec

(***************************************************************************)
(* The theorems.                                                           *)
(***************************************************************************)
\* The types, with every operation asked for one that some call means.
THEOREM TypeCorrect == Spec => []TypeOK
<1>1. Inv => TypeOK
  BY DEF Inv
<1>. QED
  BY <1>1, Invariance, PTL

\* A text that is being parsed is whole: the words its parser has taken and those
\* strtok still has are its own, in their order, and nobody else is parsing.
THEOREM TextsWhole ==
    Spec => [](\A t \in Threads :
                  pc[t] = "parse" => /\ word[t] \o strtok = Text(call[t])
                                     /\ \A u \in Threads \ {t} : pc[u] # "parse")
<1>1. ASSUME Inv, NEW t \in Threads, pc[t] = "parse"
      PROVE  word[t] \o strtok = Text(call[t]) /\ \A u \in Threads \ {t} : pc[u] # "parse"
  BY <1>1 DEF Inv, Parsing
<1>2. Inv => \A t \in Threads :
                pc[t] = "parse" => /\ word[t] \o strtok = Text(call[t])
                                   /\ \A u \in Threads \ {t} : pc[u] # "parse"
  BY <1>1
<1>. QED
  BY <1>2, Invariance, PTL

\* Every call of the client library becomes the operation it is meant to be, with
\* its arguments, whatever other threads' texts are parsed at the same time: the
\* words of a text pass through one static strtok position, under tvservice_mutex.
THEOREM ServedAsCalledCorrect == Spec => []ServedAsCalled
<1>1. Inv => ServedAsCalled
  BY DEF Inv, Asked, ServedAsCalled
<1>. QED
  BY <1>1, Invariance, PTL

\* A call that was served returns what the operation answered, but for the calls
\* that lose a failure.
THEOREM ResultKeptCorrect == Spec => []ResultKept
<1>1. ASSUME Inv, NEW t \in Threads, pc[t] = "returned", op[t] # NoOp, ~Loses(call[t])
      PROVE  result[t] = done[t]
  <2>1. op[t] = Meant(call[t]) /\ result[t] = FromReply(call[t], Reply(op[t], done[t]))
    BY <1>1 DEF Inv, Asked
  <2>2. Reply(op[t], done[t]) = done[t]
    BY <1>1, <2>1 DEF Loses, Reply
  <2>3. FromReply(call[t], done[t]) = done[t]
    BY <1>1 DEF Loses, FromReply
  <2>. QED
    BY <2>1, <2>2, <2>3
<1>2. Inv => ResultKept
  BY <1>1 DEF ResultKept
<1>. QED
  BY <1>2, Invariance, PTL
=============================================================================
