------------------------------- MODULE Inputs -------------------------------
(***************************************************************************)
(* Which input is plugged in: the configuration file that maps sources to  *)
(* ports (ConfigFile.cpp, CTvin.cpp), the thread that watches the AV and   *)
(* HDMI detection devices and tells the clients of changes                 *)
(* (CTvDevicesPollDetect.cpp), and the question a client may ask instead.  *)
(*                                                                         *)
(* A line of the file is a record: its text before "=" as a sequence of    *)
(* words (the program compares prefixes), its value, and which of the      *)
(* characters "#", "[]" and "=" it has.  A status word is the set of the   *)
(* wires that carry 5 V or a plug.                                         *)
(***************************************************************************)
EXTENDS Naturals, FiniteSetsExt, SequencesExt

CONSTANTS
    Files,      \* the configuration files looked at, sequences of lines
    Moving,     \* wires that are plugged in and out
    Watched,    \* sources the client asks about
    MaxAsked    \* bound: answers on their way to the client at once

Sources == <<"TV", "AV1", "AV2", "YPBPR1", "YPBPR2", "HDMI1", "HDMI2", "HDMI3", "HDMI4",
             "VGA", "MPEG", "SVIDEO", "IPTV", "DUMMY", "SPDIF">>
SOURCE_MAX == "MAX"
AvWires == {"AV1", "AV2"}
HdmiPorts == {"HDMI0", "HDMI1", "HDMI2", "HDMI3"}
Ports == HdmiPorts \cup {"CVBS0", "CVBS1", "CVBS2", "CVBS3", "MPEG0", "BT656", "NULL", "INVALID"}

\* The sources the question is answered for.
Detected == AvWires \cup {"HDMI1", "HDMI2", "HDMI3", "HDMI4"}

Lines == [text : Seq(STRING), value : STRING, hash : BOOLEAN, brackets : BOOLEAN, eq : BOOLEAN]

ASSUME InputsAssumption ==
    /\ \A f \in Files : f \in Seq(Lines)
    /\ Moving \subseteq AvWires \cup HdmiPorts
    /\ Watched \subseteq Detected
    /\ MaxAsked \in Nat

VARIABLES
    file,               \* the configuration file
    mSourceInputToPortMap,
    plugged,            \* the hardware: wires that are plugged in
    pending,            \* detection devices with an edge not taken yet
    pc,                 \* the poll thread: "start", "start av", "wait", "read", "tell"
    todo, fd, status,   \* its batch; the device in hand and the word read from it
    m_hdmi_status, m_avin_status,   \* the words it compares with
    asked, answer,      \* sources with an answer on its way to the client; the answers
    knows,              \* watched source -> plugged in, as the client last heard
    sound,              \* history: answers that say what the thread knows
    following,          \* history: sources whose client knows what the thread knows
    failed              \* history: the thread's read of a device has failed

config == <<file, mSourceInputToPortMap>>
answers == <<asked, answer>>
vars == <<config, plugged, pending, pc, todo, fd, status, m_hdmi_status, m_avin_status,
          answers, knows, sound, following, failed>>

-----------------------------------------------------------------------------
\* CIniFile.

LineType(line) ==
    CASE line.hash -> "comment" [] line.brackets /\ ~line.hash -> "section"
      [] line.eq /\ ~line.hash /\ ~line.brackets -> "key" [] OTHER -> "comment"

\* The first line that fits, 0 if none does.
First(S) == IF S = {} THEN 0 ELSE Min(S)

getSection(lines, section) ==
    First({i \in DOMAIN lines : LineType(lines[i]) = "section" /\ IsPrefix(section, lines[i].text)})

\* Mutant: the search does not stop at the next section.
getKeyLineAnywhere(lines, i, key) ==
    First({j \in i + 1 .. Len(lines) : LineType(lines[j]) = "key" /\ IsPrefix(key, lines[j].text)})

getKeyLineAtSec(lines, i, key) ==
    First({j \in i + 1 .. Len(lines) :
              /\ LineType(lines[j]) = "key" /\ IsPrefix(key, lines[j].text)
              /\ \A k \in i + 1 .. j : LineType(lines[k]) # "section"})

GetString(lines, section, key, default) ==
    LET i == getSection(lines, section)
        j == getKeyLineAtSec(lines, i, key)
    IN  IF i = 0 THEN default ELSE IF j = 0 THEN default ELSE lines[j].value

-----------------------------------------------------------------------------
\* CTvin: sources and ports.

Tvin_TransPortStringToValue(value) ==
    IF value \in HdmiPorts \cup {"CVBS0", "CVBS1", "CVBS2", "CVBS3"} THEN value ELSE "NULL"

SourceInputMap == <<"SourceInputMap">>

\* Source -> the port it has when the file does not say.
DefaultPort ==
    [TV |-> "CVBS3", AV1 |-> "CVBS1", AV2 |-> "CVBS2", YPBPR1 |-> "COMP0", YPBPR2 |-> "COMP1",
     HDMI1 |-> "HDMI0", HDMI2 |-> "HDMI2", HDMI3 |-> "HDMI1", HDMI4 |-> "HDMI3", VGA |-> "VGA0"]

\* The map of a file; the key of a source is its name.
Tvin_LoadSourceInputToPortMap(lines) ==
    [s \in ToSet(Sources) |->
        CASE s \in DOMAIN DefaultPort ->
                Tvin_TransPortStringToValue(GetString(lines, SourceInputMap, <<s>>, DefaultPort[s]))
          [] s = "MPEG" -> "MPEG0" [] s = "IPTV" -> "BT656" [] s = "SPDIF" -> "CVBS3"
          [] OTHER -> "INVALID"]

Tvin_GetSourcePortBySourceInput(s) == mSourceInputToPortMap[s]

\* The first source with that port.
Tvin_PortToSourceInput(port) ==
    LET fits == {i \in DOMAIN Sources : mSourceInputToPortMap[Sources[i]] = port}
    IN  IF fits = {} THEN SOURCE_MAX ELSE Sources[Min(fits)]

-----------------------------------------------------------------------------
\* CTvDevicesPollDetect: bits A to D of the status word are the HDMI ports.

SourceInputMaptoChipHdmiPort(s) ==
    LET port == Tvin_GetSourcePortBySourceInput(s)
    IN  IF port \in HdmiPorts THEN port ELSE "HDMI0"

ChipHdmiPortMaptoSourceInput(port) == Tvin_PortToSourceInput(port)

GetSourceConnectStatus(s) ==
    IF s \in AvWires THEN s \in plugged ELSE SourceInputMaptoChipHdmiPort(s) \in plugged

\* The source a wire is told under.
Source(w) == IF w \in AvWires THEN w ELSE ChipHdmiPortMaptoSourceInput(w)

\* What the client learns of the wires of a device that differ from before.  An
\* answer on its way is older than that.
onSourceConnect(before, now) ==
    LET changed == SymDiff(before, now)
        told == {Source(w) : w \in changed} \cap Watched
    IN  /\ knows' = [s \in Watched |-> IF s \in told THEN \E w \in now \cap changed : Source(w) = s
                                       ELSE knows[s]]
        /\ following' = following \cup told
        /\ sound' = sound \ told

Init ==
    /\ file \in Files
    /\ mSourceInputToPortMap = Tvin_LoadSourceInputToPortMap(file)
    /\ plugged \in SUBSET Moving
    /\ pending = {} /\ todo = {} /\ fd = "none" /\ status = {}
    /\ pc = "start"
    /\ m_hdmi_status = {} /\ m_avin_status = AvWires
    /\ asked = {} /\ answer = [s \in Watched |-> FALSE]
    /\ knows = [s \in Watched |-> FALSE] /\ sound = {} /\ following = {}
    /\ failed = FALSE

Device(w) == IF w \in AvWires THEN "av" ELSE "hdmi"
Wires(d) == IF d = "av" THEN AvWires ELSE HdmiPorts

\* A wire is plugged in or out: an edge of its device.
Plug(w) ==
    /\ plugged' = SymDiff(plugged, {w})
    /\ pending' = pending \cup {Device(w)}
    /\ UNCHANGED <<config, pc, todo, fd, status, m_hdmi_status, m_avin_status, answers,
                   knows, sound, following, failed>>

\* The words a read leaves: the wires, or what was there when it fails.
ReadFile(d, before, now) ==
    \/ now = plugged \cap Wires(d) /\ UNCHANGED failed
    \/ now \in before /\ failed' = TRUE

\* The thread starts with what it finds.
StartHdmi ==
    /\ pc = "start"
    /\ ReadFile("hdmi", {{}}, m_hdmi_status')
    /\ pc' = "start av"
    /\ UNCHANGED <<config, plugged, pending, todo, fd, status, m_avin_status, answers, knows,
                   sound, following>>

StartAvin ==
    /\ pc = "start av"
    /\ ReadFile("av", {AvWires}, m_avin_status')
    /\ pc' = "wait"
    /\ UNCHANGED <<config, plugged, pending, todo, fd, status, m_hdmi_status, answers, knows,
                   sound, following>>

\* epoll_wait takes the edges.
Wait ==
    /\ pc = "wait" /\ pending # {}
    /\ todo' = pending /\ pending' = {}
    /\ pc' = "read"
    /\ UNCHANGED <<config, plugged, fd, status, m_hdmi_status, m_avin_status, answers, knows,
                   sound, following, failed>>

\* The status word; after a failed read the HDMI word is 0 and the AV word is
\* whatever the stack held.
ReadStatus(d) ==
    /\ pc = "read" /\ d \in todo
    /\ fd' = d /\ todo' = todo \ {d}
    /\ ReadFile(d, IF d = "hdmi" THEN {{}} ELSE SUBSET AvWires, status')
    /\ pc' = "tell"
    /\ UNCHANGED <<config, plugged, pending, m_hdmi_status, m_avin_status, answers, knows,
                   sound, following>>

AfterTell(after) == IF after = {} THEN "wait" ELSE "read"

\* Mutant: the word that was read is not kept.
TellHdmiForgets ==
    /\ pc = "tell" /\ fd = "hdmi"
    /\ onSourceConnect(m_hdmi_status, status)
    /\ fd' = "none" /\ status' = {} /\ pc' = AfterTell(todo)
    /\ UNCHANGED <<config, plugged, pending, todo, m_hdmi_status, m_avin_status, answers,
                   failed>>

TellHdmi ==
    /\ pc = "tell" /\ fd = "hdmi"
    /\ onSourceConnect(m_hdmi_status, status)
    /\ m_hdmi_status' = status
    /\ fd' = "none" /\ status' = {} /\ pc' = AfterTell(todo)
    /\ UNCHANGED <<config, plugged, pending, todo, m_avin_status, answers, failed>>

\* Mutant: only a plug that is put in is told.
TellAvinPlugIn ==
    /\ pc = "tell" /\ fd = "av"
    /\ onSourceConnect(m_avin_status \cap status, status)
    /\ m_avin_status' = status
    /\ fd' = "none" /\ status' = {} /\ pc' = AfterTell(todo)
    /\ UNCHANGED <<config, plugged, pending, todo, m_hdmi_status, answers, failed>>

TellAvin ==
    /\ pc = "tell" /\ fd = "av"
    /\ onSourceConnect(m_avin_status, status)
    /\ m_avin_status' = status
    /\ fd' = "none" /\ status' = {} /\ pc' = AfterTell(todo)
    /\ UNCHANGED <<config, plugged, pending, todo, m_hdmi_status, answers, failed>>

\* A client asks, and a binder thread reads the device, with no lock that the
\* poll thread takes.  The answer says what the thread knows if that has nothing to
\* do: a change that comes and goes before the thread reads the word is never told.
\* A failed read is taken for a word as in ReadStatus.
Ask(s) ==
    /\ s \notin asked /\ Cardinality(asked) < MaxAsked
    /\ asked' = asked \cup {s}
    /\ \/ /\ answer' = [answer EXCEPT ![s] = GetSourceConnectStatus(s)]
          /\ sound' = IF pc = "wait" /\ pending = {} THEN sound \cup {s} ELSE sound
       \/ /\ \E b \in IF s \in AvWires THEN BOOLEAN ELSE {FALSE} :
                 answer' = [answer EXCEPT ![s] = b]
          /\ UNCHANGED sound
    /\ UNCHANGED <<config, plugged, pending, pc, todo, fd, status, m_hdmi_status, m_avin_status,
                   knows, following, failed>>

\* The client takes the answer, however many events it has handled since.
Use(s) ==
    /\ s \in asked
    /\ knows' = [knows EXCEPT ![s] = answer[s]]
    /\ following' = IF s \in sound THEN following \cup {s} ELSE following \ {s}
    /\ asked' = asked \ {s}
    /\ answer' = [answer EXCEPT ![s] = FALSE]
    /\ sound' = sound \ {s}
    /\ UNCHANGED <<config, plugged, pending, pc, todo, fd, status, m_hdmi_status, m_avin_status,
                   failed>>

ThreadLoop ==
    \/ StartHdmi \/ StartAvin \/ Wait \/ TellHdmi \/ TellAvin
    \/ \E d \in {"av", "hdmi"} : ReadStatus(d)

Next ==
    \/ ThreadLoop
    \/ \E w \in Moving : Plug(w)
    \/ \E s \in Watched : Ask(s) \/ Use(s)

Spec == Init /\ [][Next]_vars /\ WF_vars(ThreadLoop)

(***************************************************************************)
(* Properties                                                              *)
(***************************************************************************)
\* The file decides the port of every source it names, as its author reads it:
\* the value of the one line with that key in the one section of that name, and
\* the default if there is none.  Keys and sections that another one extends are
\* left out, for the program compares prefixes; so is a file with a second section
\* of that name, which the program does not look at.
Sections == {i \in DOMAIN file : LineType(file[i]) = "section"}
Extended(text) == \E i \in DOMAIN file : IsStrictPrefix(text, file[i].text)
PlainFile ==
    /\ ~Extended(SourceInputMap)
    /\ \A i, j \in Sections : file[i].text = SourceInputMap /\ file[j].text = SourceInputMap => i = j

Says(s) ==
    {j \in DOMAIN file :
        /\ LineType(file[j]) = "key" /\ file[j].text = <<s>>
        /\ \E i \in Sections : /\ i < j /\ file[i].text = SourceInputMap
                              /\ \A k \in Sections : ~(i < k /\ k <= j)}

MapAsConfigured ==
    PlainFile => \A s \in DOMAIN DefaultPort : ~Extended(<<s>>) =>
        LET said == Says(s)
        IN  /\ \A j \in said : said = {j}
                    => mSourceInputToPortMap[s] = Tvin_TransPortStringToValue(file[j].value)
            /\ said = {} => mSourceInputToPortMap[s] = Tvin_TransPortStringToValue(DefaultPort[s])

\* A source has events of its own if its wire, and no other, is told under its
\* name.  An AV source that the file puts on an HDMI port has not.
Named(s) ==
    LET port == Tvin_GetSourcePortBySourceInput(s)
    IN  IF s \in AvWires THEN port \notin HdmiPorts
        ELSE port \in HdmiPorts /\ Tvin_PortToSourceInput(port) = s

KnowsTheTruth == \A s \in following : Named(s) => knows[s] = GetSourceConnectStatus(s)

\* Whenever the thread has nothing left to do, events and answers agree: a client
\* that follows a source knows whether it is plugged in, whatever the mapping of
\* ports and however the edges, the reads and the questions met.  A client stops
\* following with an answer that an event has overtaken, that was read while the
\* thread had a change to tell, or whose read failed: the code tells none of these
\* from a good one, and only the next event of the wire puts it right.
SettledAgrees == pc = "wait" /\ pending = {} /\ ~failed => KnowsTheTruth

\* Once nobody plugs, a client that follows a source comes to know it.
ToldInTheEnd == <>[][FALSE]_plugged => <>[](failed \/ KnowsTheTruth)
=============================================================================
