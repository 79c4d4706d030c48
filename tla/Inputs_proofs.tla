---------------------------- MODULE Inputs_proofs ----------------------------
(***************************************************************************)
(* Theorems about Inputs, for all configuration files, all wires that move *)
(* and all sources that are watched.                                       *)
(***************************************************************************)
EXTENDS Inputs, WellFoundedInduction, TLAPS

(***************************************************************************)
(* The reader of the file.                                                 *)
(***************************************************************************)
\* The first of one line is that line.
LEMMA FirstOfOne == \A j \in Nat : First({j}) = j
<1>. TAKE j \in Nat
<1>1. Min({j}) = j
  BY DEF Min
<1>. QED
  BY <1>1 DEF First

\* When the file is plain, the section that is found is the one of that name.
LEMMA SectionFound ==
    ASSUME file \in Seq(Lines), PlainFile
    PROVE  \/ /\ getSection(file, SourceInputMap) = 0
              /\ \A i \in Sections : file[i].text # SourceInputMap
           \/ \E i \in Sections : /\ file[i].text = SourceInputMap
                                  /\ getSection(file, SourceInputMap) = i
<1>. DEFINE S == {i \in DOMAIN file : LineType(file[i]) = "section" /\ IsPrefix(SourceInputMap, file[i].text)}
<1>1. ASSUME NEW i \in S PROVE i \in Sections /\ file[i].text = SourceInputMap
  BY DEF PlainFile, Extended, IsStrictPrefix, Sections
<1>2. ASSUME NEW i \in Sections, file[i].text = SourceInputMap PROVE i \in S
  BY <1>2 DEF Sections, IsPrefix
<1>3. CASE S = {}
  BY <1>2, <1>3 DEF getSection, First
<1>4. CASE S # {}
  <2>1. PICK i \in S : TRUE
    BY <1>4
  <2>2. S = {i}
    BY <1>1, <2>1 DEF PlainFile
  <2>3. First(S) = i
    BY <2>1, <2>2, FirstOfOne
  <2>4. getSection(file, SourceInputMap) = i
    BY <2>3 DEF getSection
  <2>. QED
    BY <1>1, <2>1, <2>4
<1>. QED
  BY <1>3, <1>4

\* In that section the key that is found is the one line that says it.
LEMMA KeyFound ==
    ASSUME file \in Seq(Lines), PlainFile, NEW i \in Sections, file[i].text = SourceInputMap,
           NEW s, ~Extended(<<s>>)
    PROVE  getKeyLineAtSec(file, i, <<s>>) = First(Says(s))
<1>. DEFINE K == {j \in i + 1 .. Len(file) :
                    /\ LineType(file[j]) = "key" /\ IsPrefix(<<s>>, file[j].text)
                    /\ \A k \in i + 1 .. j : LineType(file[k]) # "section"}
<1>1. i \in Nat /\ DOMAIN file = 1..Len(file) /\ Len(file) \in Nat /\ i \in 1..Len(file)
  BY DEF Sections
<1>2. ASSUME NEW j \in DOMAIN file PROVE IsPrefix(<<s>>, file[j].text) <=> file[j].text = <<s>>
  BY DEF Extended, IsStrictPrefix, IsPrefix
<1>3. ASSUME NEW j \in K PROVE j \in Says(s)
  <2>1. j \in DOMAIN file /\ i < j /\ LineType(file[j]) = "key" /\ file[j].text = <<s>>
    BY <1>1, <1>2
  <2>2. \A k \in Sections : ~(i < k /\ k <= j)
    BY <1>1, <2>1 DEF Sections
  <2>. QED
    BY <2>1, <2>2 DEF Says
<1>4. ASSUME NEW j \in Says(s) PROVE j \in K
  <2>1. PICK h \in Sections : /\ h < j /\ file[h].text = SourceInputMap
                              /\ \A k \in Sections : ~(h < k /\ k <= j)
    BY DEF Says
  <2>2. h = i
    BY <2>1 DEF PlainFile
  <2>3. j \in DOMAIN file /\ LineType(file[j]) = "key" /\ IsPrefix(<<s>>, file[j].text)
    BY <1>2 DEF Says
  <2>4. j \in i + 1 .. Len(file)
    BY <1>1, <2>1, <2>2, <2>3
  <2>5. ASSUME NEW k \in i + 1 .. j PROVE LineType(file[k]) # "section"
    BY <1>1, <2>1, <2>2, <2>4 DEF Sections
  <2>. QED
    BY <2>3, <2>4, <2>5
<1>5. K = Says(s)
  BY <1>3, <1>4
<1>. QED
  BY <1>5 DEF getKeyLineAtSec

\* Without a section of that name nothing is said.
LEMMA NothingSaid ==
    ASSUME NEW s, \A i \in Sections : file[i].text # SourceInputMap
    PROVE  Says(s) = {}
  BY DEF Says

\* The string of a key: the value of the one line that says it, or the default.
LEMMA StringRead ==
    ASSUME file \in Seq(Lines), PlainFile, NEW s, ~Extended(<<s>>), NEW default
    PROVE  /\ \A j \in DOMAIN file : Says(s) = {j} =>
                 GetString(file, SourceInputMap, <<s>>, default) = file[j].value
           /\ Says(s) = {} => GetString(file, SourceInputMap, <<s>>, default) = default
<1>1. CASE /\ getSection(file, SourceInputMap) = 0
           /\ \A i \in Sections : file[i].text # SourceInputMap
  <2>1. Says(s) = {}
    BY <1>1, NothingSaid
  <2>2. GetString(file, SourceInputMap, <<s>>, default) = default
    BY <1>1 DEF GetString
  <2>. QED
    BY <2>1, <2>2
<1>2. ASSUME NEW i \in Sections, file[i].text = SourceInputMap, getSection(file, SourceInputMap) = i
      PROVE  /\ \A j \in DOMAIN file : Says(s) = {j} =>
                   GetString(file, SourceInputMap, <<s>>, default) = file[j].value
             /\ Says(s) = {} => GetString(file, SourceInputMap, <<s>>, default) = default
  <2>1. getKeyLineAtSec(file, i, <<s>>) = First(Says(s))
    BY <1>2, KeyFound
  <2>2. i # 0
    BY DEF Sections
  <2>3. GetString(file, SourceInputMap, <<s>>, default)
           = IF First(Says(s)) = 0 THEN default ELSE file[First(Says(s))].value
    BY <1>2, <2>1, <2>2 DEF GetString
  <2>4. Says(s) = {} => First(Says(s)) = 0
    BY DEF First
  <2>5. ASSUME NEW j \in DOMAIN file, Says(s) = {j} PROVE First(Says(s)) = j /\ j # 0
    BY <2>5, FirstOfOne
  <2>. QED
    BY <2>3, <2>4, <2>5
<1>. QED
  BY <1>1, <1>2, SectionFound

\* The map that is loaded from a file is the one its author wrote.
LEMMA LoadedAsConfigured ==
    file \in Files /\ mSourceInputToPortMap = Tvin_LoadSourceInputToPortMap(file) => MapAsConfigured
<1>. SUFFICES ASSUME file \in Files, mSourceInputToPortMap = Tvin_LoadSourceInputToPortMap(file),
                     PlainFile, NEW s \in DOMAIN DefaultPort, ~Extended(<<s>>)
              PROVE  /\ \A j \in Says(s) : Says(s) = {j}
                          => mSourceInputToPortMap[s] = Tvin_TransPortStringToValue(file[j].value)
                     /\ Says(s) = {}
                          => mSourceInputToPortMap[s] = Tvin_TransPortStringToValue(DefaultPort[s])
  BY DEF MapAsConfigured
<1>1. s \in ToSet(Sources)
  BY DEF DefaultPort, ToSet, Sources
<1>2. mSourceInputToPortMap[s]
         = Tvin_TransPortStringToValue(GetString(file, SourceInputMap, <<s>>, DefaultPort[s]))
  <2>1. s \notin {"MPEG", "IPTV", "SPDIF"}
    BY DEF DefaultPort
  <2>. QED
    BY <1>1, <2>1 DEF Tvin_LoadSourceInputToPortMap
<1>3. file \in Seq(Lines) /\ Says(s) \subseteq DOMAIN file
  BY InputsAssumption DEF Says
<1>. QED
  BY <1>2, <1>3, StringRead

(***************************************************************************)
(* Which wire is told under which name.                                    *)
(***************************************************************************)
AllWires == AvWires \cup HdmiPorts

\* The wire a source is asked about.
WireOf(s) == IF s \in AvWires THEN s ELSE Tvin_GetSourcePortBySourceInput(s)

\* A set of positions has a smallest.
LEMMA Smallest ==
    ASSUME NEW S \in SUBSET Nat, S # {}
    PROVE  Min(S) \in S
<1>. DEFINE R == OpToRel(<, Nat)
<1>1. IsWellFoundedOn(R, Nat)
  BY NatLessThanWellFounded
<1>2. \E x \in S : \A y \in S : x <= y
  <2>1. \A x, y \in Nat : y < x => <<y, x>> \in R
    BY DEF OpToRel
  <2>. HIDE DEF R
  <2>2. S \subseteq Nat /\ S # {}
    OBVIOUS
  <2>3. \E x \in S : \A y \in S : ~(<<y, x>> \in R)
    BY ONLY <1>1, <2>2, WFMin, Zenon
  <2>4. PICK x \in S : \A y \in S : ~(<<y, x>> \in R)
    BY <2>3
  <2>5. ASSUME NEW y \in S PROVE x <= y
    <3>1. x \in Nat /\ y \in Nat /\ ~(y < x)
      BY <2>1, <2>2, <2>4
    <3>. QED
      BY <3>1
  <2>. QED
    BY <2>5
<1>. QED
  BY <1>2 DEF Min

\* The source that a port is told under has that port.
LEMMA PortTold ==
    ASSUME NEW port, Tvin_PortToSourceInput(port) # SOURCE_MAX
    PROVE  mSourceInputToPortMap[Tvin_PortToSourceInput(port)] = port
<1>. DEFINE fits == {i \in DOMAIN Sources : mSourceInputToPortMap[Sources[i]] = port}
<1>1. fits # {}
  BY DEF Tvin_PortToSourceInput
<1>2. fits \subseteq Nat
  BY DEF Sources
<1>3. Min(fits) \in fits
  BY <1>1, <1>2, Smallest
<1>4. Tvin_PortToSourceInput(port) = Sources[Min(fits)]
  BY <1>1 DEF Tvin_PortToSourceInput
<1>. QED
  BY <1>3, <1>4

\* Only its own wire is told under the name of a source that has one.
LEMMA OwnWire ==
    ASSUME NEW s \in Watched, Named(s)
    PROVE  WireOf(s) \in AllWires /\ \A w \in AllWires : Source(w) = s <=> w = WireOf(s)
<1>1. s # SOURCE_MAX
  BY InputsAssumption DEF Detected, AvWires, SOURCE_MAX
<1>2. AvWires \cap HdmiPorts = {}
  BY DEF AvWires, HdmiPorts
<1>3. ASSUME NEW w \in HdmiPorts, Source(w) = s PROVE Tvin_GetSourcePortBySourceInput(s) = w
  BY <1>1, <1>2, <1>3, PortTold DEF Source, ChipHdmiPortMaptoSourceInput, Tvin_GetSourcePortBySourceInput
<1>4. CASE s \in AvWires
  BY <1>2, <1>3, <1>4 DEF WireOf, AllWires, Named, Source
<1>5. CASE s \notin AvWires
  <2>1. WireOf(s) \in HdmiPorts /\ Source(WireOf(s)) = s
    BY <1>2, <1>5 DEF WireOf, Named, Source, ChipHdmiPortMaptoSourceInput
  <2>2. ASSUME NEW w \in AllWires, Source(w) = s PROVE w = WireOf(s)
    BY <1>3, <1>5, <2>2 DEF Source, AllWires, WireOf
  <2>. QED
    BY <2>1, <2>2 DEF AllWires
<1>. QED
  BY <1>4, <1>5

\* And the question is about that wire.
LEMMA AskedWire ==
    ASSUME NEW s, Named(s)
    PROVE  GetSourceConnectStatus(s) <=> WireOf(s) \in plugged
  BY DEF GetSourceConnectStatus, WireOf, Named, SourceInputMaptoChipHdmiPort, AvWires

(***************************************************************************)
(* The inductive invariant.                                                *)
(***************************************************************************)
Devices == {"av", "hdmi"}

\* The word the thread compares with.
Kept(d) == IF d = "av" THEN m_avin_status ELSE m_hdmi_status

TypeOK ==
    /\ file \in Files
    /\ mSourceInputToPortMap = Tvin_LoadSourceInputToPortMap(file)
    /\ plugged \in SUBSET AllWires
    /\ pending \in SUBSET Devices /\ todo \in SUBSET Devices
    /\ pc \in {"start", "start av", "wait", "read", "tell"}
    /\ fd \in Devices \cup {"none"}
    /\ status \in SUBSET AllWires
    /\ m_hdmi_status \in SUBSET HdmiPorts
    /\ m_avin_status \in SUBSET AvWires
    /\ asked \in SUBSET Watched
    /\ answer \in [Watched -> BOOLEAN]
    /\ knows \in [Watched -> BOOLEAN]
    /\ sound \in SUBSET asked
    /\ following \in SUBSET Watched
    /\ failed \in BOOLEAN

\* The first read of a device has been done.
Started(d) == pc # "start" /\ (d = "av" => pc # "start av")

\* The word is that of the hardware, unless an edge of the device is still to come.
Fresh(d) ==
    Started(d) /\ ~failed /\ d \notin pending \cup todo /\ fd # d
        => Kept(d) = plugged \cap Wires(d)

\* So is the word in hand.
InHand ==
    pc = "tell" =>
        /\ fd \in Devices /\ status \subseteq Wires(fd)
        /\ ~failed /\ fd \notin pending => status = plugged \cap Wires(fd)

\* Between the batches nothing is left to do; nothing is followed before the first.
Batches ==
    /\ pc \in {"start", "start av", "wait"} => todo = {}
    /\ pc # "tell" => fd = "none"
    /\ pc \in {"start", "start av"} => following = {} /\ sound = {}

\* A client that follows a source knows what the thread knows of its wire.
Heard(s) ==
    Named(s) /\ ~failed => (knows[s] <=> WireOf(s) \in Kept(Device(WireOf(s))))

\* And a sound answer on its way says that.
Answered(s) ==
    Named(s) /\ ~failed => (answer[s] <=> WireOf(s) \in Kept(Device(WireOf(s))))

Known ==
    /\ \A s \in following : Heard(s)
    /\ \A s \in sound : Answered(s)

Inv ==
    /\ TypeOK /\ InHand /\ Batches
    /\ \A d \in Devices : Fresh(d)
    /\ Known

\* The devices and their wires.
LEMMA WiresOfDevices ==
    /\ Wires("av") = AvWires /\ Wires("hdmi") = HdmiPorts /\ AvWires \cap HdmiPorts = {}
    /\ \A w \in AllWires : Device(w) \in Devices /\ w \in Wires(Device(w))
    /\ \A w \in AllWires : \A d \in Devices : w \in Wires(d) => d = Device(w)
  BY DEF Wires, Device, Devices, AllWires, AvWires, HdmiPorts

\* Names and wires are the file's: they do not change.
LEMMA NamesStay ==
    ASSUME UNCHANGED config
    PROVE  \A s : (Named(s)' <=> Named(s)) /\ WireOf(s)' = WireOf(s)
  BY DEF config, Named, WireOf, Tvin_GetSourcePortBySourceInput, Tvin_PortToSourceInput

\* What is heard stays true while knowledge, words and failures stay.
LEMMA HeardStays ==
    ASSUME NEW s, UNCHANGED config, UNCHANGED <<m_hdmi_status, m_avin_status>>,
           failed \in BOOLEAN, failed => failed'
    PROVE  /\ Heard(s) /\ knows'[s] = knows[s] => Heard(s)'
           /\ Answered(s) /\ answer'[s] = answer[s] => Answered(s)'
<1>1. (Named(s)' <=> Named(s)) /\ WireOf(s)' = WireOf(s)
  BY NamesStay
<1>2. \A d : Kept(d)' = Kept(d)
  BY DEF Kept
<1>3. ASSUME Heard(s), knows'[s] = knows[s] PROVE Heard(s)'
  <2>1. Named(s)' /\ ~failed' => (knows'[s] <=> WireOf(s) \in Kept(Device(WireOf(s))))
    BY <1>1, <1>3 DEF Heard
  <2>. QED
    BY <1>1, <1>2, <2>1 DEF Heard
<1>4. ASSUME Answered(s), answer'[s] = answer[s] PROVE Answered(s)'
  <2>1. Named(s)' /\ ~failed' => (answer'[s] <=> WireOf(s) \in Kept(Device(WireOf(s))))
    BY <1>1, <1>4 DEF Answered
  <2>. QED
    BY <1>1, <1>2, <2>1 DEF Answered
<1>. QED
  BY <1>3, <1>4

\* So what is known stays true in a step that tells the client nothing.
LEMMA KnownStays ==
    ASSUME Inv, UNCHANGED config, UNCHANGED <<m_hdmi_status, m_avin_status>>,
           UNCHANGED <<answers, knows, sound, following>>, failed => failed'
    PROVE  Known'
<1>1. failed \in BOOLEAN /\ Known
  BY DEF Inv, TypeOK
<1>2. ASSUME NEW s \in following' PROVE Heard(s)'
  BY <1>1, HeardStays DEF Known
<1>3. ASSUME NEW s \in sound' PROVE Answered(s)'
  BY <1>1, HeardStays DEF Known, answers
<1>. QED
  BY <1>2, <1>3 DEF Known

\* It holds at the start.
LEMMA InitInv == Init => Inv
<1>. SUFFICES ASSUME Init PROVE Inv
  OBVIOUS
<1>1. TypeOK
  BY InputsAssumption DEF Init, TypeOK, AllWires, Devices
<1>2. InHand /\ Batches
  BY DEF Init, InHand, Batches
<1>3. \A d \in Devices : Fresh(d)
  BY DEF Init, Fresh, Started
<1>4. Known
  BY DEF Init, Known
<1>. QED
  BY <1>1, <1>2, <1>3, <1>4 DEF Inv

\* A plug moves: the edge that is pending excuses the words.
LEMMA PlugInv ==
    ASSUME Inv, NEW w \in Moving, Plug(w)
    PROVE  Inv'
<1>1. w \in AllWires /\ Device(w) \in Devices
  BY InputsAssumption, WiresOfDevices DEF AllWires
<1>2. TypeOK'
  <2>1. plugged' \in SUBSET AllWires /\ pending' \in SUBSET Devices
    BY <1>1 DEF Inv, TypeOK, Plug, SymDiff
  <2>. QED
    BY <2>1 DEF Inv, TypeOK, Plug, config, answers
<1>3. ASSUME NEW d \in Devices, d # Device(w) PROVE plugged' \cap Wires(d) = plugged \cap Wires(d)
  BY <1>1, <1>3, WiresOfDevices DEF Plug, SymDiff
<1>4. InHand'
  <2>1. InHand /\ pc' = pc /\ fd' = fd /\ status' = status /\ failed' = failed
        /\ pending' = pending \cup {Device(w)}
    BY DEF Inv, Plug
  <2>2. \A d : Wires(d)' = Wires(d)
    BY DEF Wires
  <2>3. CASE pc = "tell" /\ ~failed /\ fd \notin pending'
    BY <1>3, <2>1, <2>3 DEF InHand
  <2>4. CASE ~(pc = "tell" /\ ~failed /\ fd \notin pending')
    BY <2>1, <2>4 DEF InHand
  <2>. QED
    BY <2>3, <2>4
<1>5. Batches'
  BY DEF Inv, Batches, Plug
<1>6. ASSUME NEW d \in Devices PROVE Fresh(d)'
  <2>1. CASE d = Device(w)
    BY <2>1 DEF Fresh, Plug
  <2>2. CASE d # Device(w)
    BY <1>3, <2>2 DEF Inv, Fresh, Started, Kept, Plug
  <2>. QED
    BY <2>1, <2>2
<1>7. Known'
  BY KnownStays DEF Plug
<1>. QED
  BY <1>2, <1>4, <1>5, <1>6, <1>7 DEF Inv

\* The first read of the HDMI word.
LEMMA StartHdmiInv ==
    ASSUME Inv, StartHdmi
    PROVE  Inv'
<1>1. (m_hdmi_status' = plugged \cap HdmiPorts /\ failed' = failed) \/ (m_hdmi_status' = {} /\ failed' = TRUE)
  BY WiresOfDevices DEF StartHdmi, ReadFile
<1>2. TypeOK'
  <2>1. m_hdmi_status' \in SUBSET HdmiPorts /\ failed' \in BOOLEAN
    BY <1>1 DEF Inv, TypeOK
  <2>. QED
    BY <2>1 DEF Inv, TypeOK, StartHdmi, config, answers
<1>3. InHand' /\ Batches'
  BY DEF Inv, InHand, Batches, StartHdmi
<1>4. Fresh("av")'
  BY DEF Fresh, Started, StartHdmi
<1>5. Fresh("hdmi")'
  BY <1>1, WiresOfDevices DEF Fresh, Kept, StartHdmi
<1>6. Known'
  BY DEF Inv, Batches, Known, StartHdmi
<1>. QED
  BY <1>2, <1>3, <1>4, <1>5, <1>6 DEF Inv, Devices

\* The first read of the AV word.
LEMMA StartAvinInv ==
    ASSUME Inv, StartAvin
    PROVE  Inv'
<1>1. (m_avin_status' = plugged \cap AvWires /\ failed' = failed) \/ (m_avin_status' = AvWires /\ failed' = TRUE)
  BY WiresOfDevices DEF StartAvin, ReadFile
<1>2. TypeOK'
  <2>1. m_avin_status' \in SUBSET AvWires /\ failed' \in BOOLEAN
    BY <1>1 DEF Inv, TypeOK
  <2>. QED
    BY <2>1 DEF Inv, TypeOK, StartAvin, config, answers
<1>3. InHand' /\ Batches'
  BY DEF Inv, InHand, Batches, StartAvin
<1>4. Fresh("hdmi")'
  <2>1. Fresh("hdmi") /\ Started("hdmi")
    BY DEF Inv, Devices, Started, StartAvin
  <2>2. ~failed' => ~failed
    BY <1>1
  <2>. QED
    BY <2>1, <2>2, WiresOfDevices DEF Fresh, Kept, StartAvin
<1>5. Fresh("av")'
  BY <1>1, WiresOfDevices DEF Fresh, Kept, StartAvin
<1>6. Known'
  BY DEF Inv, Batches, Known, StartAvin
<1>. QED
  BY <1>2, <1>3, <1>4, <1>5, <1>6 DEF Inv, Devices

\* The edges are taken: what was pending is to do.
LEMMA WaitInv ==
    ASSUME Inv, Wait
    PROVE  Inv'
<1>1. todo = {} /\ fd = "none"
  BY DEF Inv, Batches, Wait
<1>2. TypeOK'
  BY DEF Inv, TypeOK, Wait, config, answers
<1>3. InHand' /\ Batches'
  BY <1>1 DEF Inv, InHand, Batches, Wait
<1>4. ASSUME NEW d \in Devices PROVE Fresh(d)'
  <2>1. pending' \cup todo' = pending \cup todo
    BY <1>1 DEF Wait
  <2>2. Fresh(d) /\ Started(d)
    BY DEF Inv, Started, Wait
  <2>. QED
    BY <2>1, <2>2 DEF Fresh, Kept, Wait
<1>5. Known'
  BY KnownStays DEF Wait
<1>. QED
  BY <1>2, <1>3, <1>4, <1>5 DEF Inv

\* A word is read: it is the hardware's until the next edge.
LEMMA ReadStatusInv ==
    ASSUME Inv, NEW d \in Devices, ReadStatus(d)
    PROVE  Inv'
<1>1. \/ status' = plugged \cap Wires(d) /\ failed' = failed
      \/ status' \in SUBSET Wires(d) /\ failed' = TRUE
  BY WiresOfDevices DEF ReadStatus, ReadFile, Devices
<1>2. failed \in BOOLEAN /\ failed' \in BOOLEAN /\ (failed => failed') /\ Wires(d) \subseteq AllWires
  BY <1>1, WiresOfDevices DEF Inv, TypeOK, Devices, AllWires
<1>3. TypeOK'
  <2>1. status' \in SUBSET AllWires
    BY <1>1, <1>2
  <2>2. todo' \in SUBSET Devices /\ fd' \in Devices \cup {"none"}
    BY DEF Inv, TypeOK, ReadStatus
  <2>. QED
    BY <1>2, <2>1, <2>2 DEF Inv, TypeOK, ReadStatus, config, answers
<1>4. InHand'
  BY <1>1 DEF InHand, ReadStatus, Wires
<1>5. Batches'
  BY DEF Batches, ReadStatus
<1>6. ASSUME NEW e \in Devices PROVE Fresh(e)'
  <2>1. CASE e = d
    BY <2>1 DEF Fresh, ReadStatus
  <2>2. CASE e # d
    <3>1. Fresh(e) /\ Started(e) /\ fd = "none" /\ "none" # e
      BY DEF Inv, Batches, Started, ReadStatus, Devices
    <3>2. e \notin pending' \cup todo' => e \notin pending \cup todo
      BY <2>2 DEF ReadStatus
    <3>3. ~failed' => ~failed
      BY <1>2
    <3>. QED
      BY <3>1, <3>2, <3>3 DEF Fresh, Kept, ReadStatus
  <2>. QED
    BY <2>1, <2>2
<1>7. Known'
  BY <1>2, KnownStays DEF ReadStatus
<1>. QED
  BY <1>3, <1>4, <1>5, <1>6, <1>7 DEF Inv

\* What the thread tells: after it the client of every source knows the word that
\* was read, whether it followed before or not, and an answer on its way that is
\* still sound is about another wire.
LEMMA Told ==
    ASSUME Inv, NEW d \in Devices, pc = "tell", fd = d, UNCHANGED <<config, answers, failed>>,
           onSourceConnect(Kept(d), status), Kept(d)' = status,
           \A e \in Devices \ {d} : Kept(e)' = Kept(e)
    PROVE  /\ knows' \in [Watched -> BOOLEAN] /\ following' \in SUBSET Watched
           /\ sound' \in SUBSET asked /\ Known'
<1>. DEFINE changed == SymDiff(Kept(d), status)
            told == {Source(w) : w \in changed} \cap Watched
<1>1. /\ knows' = [s \in Watched |-> IF s \in told THEN \E w \in status \cap changed : Source(w) = s
                                     ELSE knows[s]]
      /\ following' = following \cup told
      /\ sound' = sound \ told
  BY DEF onSourceConnect
<1>2. Kept(d) \subseteq Wires(d) /\ status \subseteq Wires(d) /\ Wires(d) \subseteq AllWires
  BY WiresOfDevices DEF Inv, TypeOK, InHand, Kept, Devices, AllWires
<1>3. changed \subseteq Wires(d)
      /\ \A w : w \in changed <=> ~(w \in Kept(d) <=> w \in status)
  BY <1>2 DEF SymDiff
<1>. HIDE DEF changed
<1>4. knows' \in [Watched -> BOOLEAN] /\ following' \in SUBSET Watched
      /\ sound' \in SUBSET asked
  BY <1>1 DEF Inv, TypeOK
<1>5. ASSUME NEW s \in Watched, Named(s), NEW v, v = WireOf(s)
      PROVE  /\ v \in AllWires /\ (s \in told <=> v \in changed)
             /\ v \in changed => Device(v) = d /\ (knows'[s] <=> v \in status)
             /\ v \notin changed => (v \in Kept(Device(v)) <=> v \in Kept(Device(v))')
  <2>1. v \in AllWires /\ \A w \in AllWires : Source(w) = s <=> w = v
    BY <1>5, OwnWire
  <2>2. s \in told <=> v \in changed
    BY <1>2, <1>3, <2>1
  <2>3. v \in changed => (knows'[s] <=> v \in status)
    BY <1>1, <1>2, <1>3, <2>1, <2>2
  <2>4. v \in changed => Device(v) = d
    BY <1>3, <2>1, WiresOfDevices
  <2>5. ASSUME v \notin changed PROVE v \in Kept(Device(v)) <=> v \in Kept(Device(v))'
    <3>1. CASE Device(v) = d
      BY <1>3, <2>5, <3>1
    <3>2. CASE Device(v) # d
      BY <2>1, <3>2, WiresOfDevices
    <3>. QED
      BY <3>1, <3>2
  <2>. QED
    BY <2>1, <2>2, <2>3, <2>4, <2>5
<1>6. ASSUME NEW s \in following', Named(s), ~failed, NEW v, v = WireOf(s)
      PROVE  knows'[s] <=> v \in Kept(Device(v))'
  <2>1. s \in Watched
    BY <1>4
  <2>2. CASE v \in changed
    BY <1>5, <1>6, <2>1, <2>2
  <2>3. CASE v \notin changed
    <3>1. knows'[s] = knows[s] /\ s \in following
      BY <1>1, <1>5, <1>6, <2>1, <2>3
    <3>2. knows[s] <=> v \in Kept(Device(v))
      BY <1>6, <3>1 DEF Inv, Known, Heard
    <3>. QED
      BY <1>5, <1>6, <2>1, <2>3, <3>1, <3>2
  <2>. QED
    BY <2>2, <2>3
<1>7. ASSUME NEW s \in sound', Named(s), ~failed, NEW v, v = WireOf(s)
      PROVE  answer'[s] <=> v \in Kept(Device(v))'
  <2>1. s \in Watched /\ s \in sound /\ s \notin told /\ answer' = answer
    BY <1>1 DEF Inv, TypeOK, answers
  <2>2. answer[s] <=> v \in Kept(Device(v))
    BY <1>7, <2>1 DEF Inv, Known, Answered
  <2>. QED
    BY <1>5, <1>7, <2>1, <2>2
<1>8. ASSUME NEW s \in following' PROVE Heard(s)'
  <2>1. (Named(s)' <=> Named(s)) /\ WireOf(s)' = WireOf(s)
    BY NamesStay
  <2>2. \A v : v = WireOf(s) /\ Named(s) /\ ~failed => (knows'[s] <=> v \in Kept(Device(v))')
    BY <1>6
  <2>3. ASSUME NEW v, v = WireOf(s), Named(s), ~failed
        PROVE  knows'[s] <=> v \in IF Device(v) = "av" THEN m_avin_status' ELSE m_hdmi_status'
    BY <2>2, <2>3 DEF Kept, Device
  <2>. QED
    BY <2>1, <2>3 DEF Heard, Kept, Device
<1>9. ASSUME NEW s \in sound' PROVE Answered(s)'
  <2>1. (Named(s)' <=> Named(s)) /\ WireOf(s)' = WireOf(s)
    BY NamesStay
  <2>2. \A v : v = WireOf(s) /\ Named(s) /\ ~failed => (answer'[s] <=> v \in Kept(Device(v))')
    BY <1>7
  <2>3. ASSUME NEW v, v = WireOf(s), Named(s), ~failed
        PROVE  answer'[s] <=> v \in IF Device(v) = "av" THEN m_avin_status' ELSE m_hdmi_status'
    BY <2>2, <2>3 DEF Kept, Device
  <2>. QED
    BY <2>1, <2>3 DEF Answered, Kept, Device
<1>. QED
  BY <1>4, <1>8, <1>9 DEF Known

\* What a tell leaves behind, of either device.
LEMMA TellInv ==
    ASSUME Inv, NEW d \in Devices, pc = "tell", fd = d,
           onSourceConnect(Kept(d), status), Kept(d)' = status,
           \A e \in Devices \ {d} : Kept(e)' = Kept(e),
           m_hdmi_status' \in SUBSET HdmiPorts, m_avin_status' \in SUBSET AvWires,
           fd' = "none", status' = {}, pc' = AfterTell(todo),
           UNCHANGED <<config, plugged, pending, todo, answers, failed>>
    PROVE  Inv'
<1>1. /\ knows' \in [Watched -> BOOLEAN] /\ following' \in SUBSET Watched
      /\ sound' \in SUBSET asked /\ Known'
  BY Told
<1>2. pc' \in {"wait", "read"} /\ (pc' = "wait" => todo = {})
  BY DEF AfterTell
<1>3. TypeOK'
  BY <1>1, <1>2 DEF Inv, TypeOK, config, answers
<1>4. InHand' /\ Batches'
  BY <1>2 DEF InHand, Batches
<1>5. ASSUME NEW e \in Devices PROVE Fresh(e)'
  <2>1. Started(e)
    BY DEF Started
  <2>2. CASE e = d
    <3>1. ~failed /\ d \notin pending => status = plugged \cap Wires(d)
      BY DEF Inv, InHand
    <3>. QED
      BY <2>2, <3>1 DEF Fresh, Wires
  <2>3. CASE e # d
    <3>1. Fresh(e) /\ Kept(e)' = Kept(e)
      BY <2>3 DEF Inv
    <3>. QED
      BY <2>1, <2>3, <3>1 DEF Fresh, Wires
  <2>. QED
    BY <2>2, <2>3
<1>. QED
  BY <1>1, <1>3, <1>4, <1>5 DEF Inv

\* The HDMI word is told.
LEMMA TellHdmiInv ==
    ASSUME Inv, TellHdmi
    PROVE  Inv'
<1>. DEFINE d == "hdmi"
<1>1. d \in Devices /\ Devices \ {d} = {"av"} /\ pc = "tell" /\ fd = d
  BY DEF Devices, TellHdmi
<1>2. onSourceConnect(Kept(d), status) /\ Kept(d)' = status /\ Kept("av")' = Kept("av")
  BY DEF Kept, TellHdmi
<1>3. m_hdmi_status' \in SUBSET HdmiPorts /\ m_avin_status' \in SUBSET AvWires
  BY <1>1, WiresOfDevices DEF Inv, TypeOK, InHand, TellHdmi
<1>4. fd' = "none" /\ status' = {} /\ pc' = AfterTell(todo)
      /\ UNCHANGED <<config, plugged, pending, todo, answers, failed>>
  BY DEF TellHdmi
<1>. HIDE DEF d
<1>. QED
  BY <1>1, <1>2, <1>3, <1>4, TellInv

\* The AV word is told.
LEMMA TellAvinInv ==
    ASSUME Inv, TellAvin
    PROVE  Inv'
<1>. DEFINE d == "av"
<1>1. d \in Devices /\ Devices \ {d} = {"hdmi"} /\ pc = "tell" /\ fd = d
  BY DEF Devices, TellAvin
<1>2. onSourceConnect(Kept(d), status) /\ Kept(d)' = status /\ Kept("hdmi")' = Kept("hdmi")
  BY DEF Kept, TellAvin
<1>3. m_hdmi_status' \in SUBSET HdmiPorts /\ m_avin_status' \in SUBSET AvWires
  BY <1>1, WiresOfDevices DEF Inv, TypeOK, InHand, TellAvin
<1>4. fd' = "none" /\ status' = {} /\ pc' = AfterTell(todo)
      /\ UNCHANGED <<config, plugged, pending, todo, answers, failed>>
  BY DEF TellAvin
<1>. HIDE DEF d
<1>. QED
  BY <1>1, <1>2, <1>3, <1>4, TellInv

\* When the thread has nothing left to do, the words are the hardware's.
LEMMA Settled ==
    ASSUME Inv, pc = "wait", pending = {}, ~failed, NEW d \in Devices
    PROVE  Kept(d) = plugged \cap Wires(d)
<1>1. todo = {} /\ fd = "none" /\ fd # d
  BY DEF Inv, Batches, Devices
<1>2. Fresh(d) /\ Started(d)
  BY DEF Inv, Started
<1>. QED
  BY <1>1, <1>2 DEF Fresh

\* Then what a question finds is what the thread knows.
LEMMA SettledWire ==
    ASSUME Inv, pc = "wait", pending = {}, ~failed, NEW s \in Watched, Named(s)
    PROVE  GetSourceConnectStatus(s) <=> WireOf(s) \in Kept(Device(WireOf(s)))
<1>1. WireOf(s) \in AllWires
  BY OwnWire
<1>2. Device(WireOf(s)) \in Devices /\ WireOf(s) \in Wires(Device(WireOf(s)))
  BY <1>1, WiresOfDevices
<1>3. Kept(Device(WireOf(s))) = plugged \cap Wires(Device(WireOf(s)))
  BY <1>2, Settled
<1>. QED
  BY <1>2, <1>3, AskedWire

\* An answer is yes or no.
LEMMA AnswerType == \A s : GetSourceConnectStatus(s) \in BOOLEAN
<1>. TAKE s
<1>1. CASE s \in AvWires
  BY <1>1 DEF GetSourceConnectStatus
<1>2. CASE s \notin AvWires
  BY <1>2 DEF GetSourceConnectStatus
<1>. QED
  BY <1>1, <1>2

\* A client asks: the answer is sound only if the thread has nothing to do.
LEMMA AskInv ==
    ASSUME Inv, NEW s \in Watched, Ask(s)
    PROVE  Inv'
<1>1. GetSourceConnectStatus(s) \in BOOLEAN
  BY AnswerType
<1>2. \/ /\ answer' = [answer EXCEPT ![s] = GetSourceConnectStatus(s)]
         /\ sound' = sound \/ (sound' = sound \cup {s} /\ pc = "wait" /\ pending = {})
      \/ sound' = sound /\ \E b \in BOOLEAN : answer' = [answer EXCEPT ![s] = b]
  BY DEF Ask
<1>3. TypeOK'
  <2>1. answer' \in [Watched -> BOOLEAN] /\ asked' \in SUBSET Watched /\ sound' \in SUBSET asked'
    BY <1>1, <1>2 DEF Inv, TypeOK, Ask
  <2>. QED
    BY <2>1 DEF Inv, TypeOK, Ask, config
<1>4. InHand'
  BY DEF Inv, InHand, Ask
<1>5. Batches'
  BY <1>2 DEF Inv, Batches, Ask
<1>6. ASSUME NEW d \in Devices PROVE Fresh(d)'
  BY DEF Inv, Fresh, Started, Kept, Ask
<1>7. ASSUME NEW u \in following' PROVE Heard(u)'
  <2>1. Heard(u) /\ failed \in BOOLEAN
    BY DEF Inv, TypeOK, Known, Ask
  <2>. QED
    BY <2>1, HeardStays DEF Ask
<1>8. ASSUME NEW u \in sound', u # s PROVE Answered(u)'
  <2>1. u \in sound /\ u \in Watched
    BY <1>2, <1>8 DEF Inv, TypeOK
  <2>2. answer'[u] = answer[u]
    BY <1>2, <1>8, <2>1 DEF Inv, TypeOK
  <2>3. Answered(u) /\ failed \in BOOLEAN
    BY <2>1 DEF Inv, TypeOK, Known
  <2>. QED
    BY <2>2, <2>3, HeardStays DEF Ask
<1>9. ASSUME s \in sound' PROVE Answered(s)'
  <2>1. s \notin sound
    BY DEF Inv, TypeOK, Ask
  <2>2. pc = "wait" /\ pending = {} /\ answer' = [answer EXCEPT ![s] = GetSourceConnectStatus(s)]
    BY <1>2, <1>9, <2>1
  <2>3. answer'[s] <=> GetSourceConnectStatus(s)
    BY <1>1, <2>2 DEF Inv, TypeOK
  <2>4. Named(s) /\ ~failed => (answer'[s] <=> WireOf(s) \in Kept(Device(WireOf(s))))
    BY <2>2, <2>3, SettledWire
  <2>5. (Named(s)' <=> Named(s)) /\ WireOf(s)' = WireOf(s) /\ failed' = failed
    BY NamesStay DEF Ask
  <2>6. \A d : Kept(d)' = Kept(d)
    BY DEF Kept, Ask
  <2>. QED
    BY <2>4, <2>5, <2>6 DEF Answered, Device
<1>. QED
  BY <1>3, <1>4, <1>5, <1>6, <1>7, <1>8, <1>9 DEF Inv, Known

\* The client takes an answer: it follows the source if that is sound still.
LEMMA UseInv ==
    ASSUME Inv, NEW s \in Watched, Use(s)
    PROVE  Inv'
<1>1. TypeOK'
  <2>1. /\ answer' \in [Watched -> BOOLEAN] /\ knows' \in [Watched -> BOOLEAN]
        /\ asked' \in SUBSET Watched /\ sound' \in SUBSET asked' /\ following' \in SUBSET Watched
    BY DEF Inv, TypeOK, Use
  <2>. QED
    BY <2>1 DEF Inv, TypeOK, Use, config
<1>2. InHand' /\ Batches'
  BY DEF Inv, InHand, Batches, Use
<1>3. ASSUME NEW d \in Devices PROVE Fresh(d)'
  BY DEF Inv, Fresh, Started, Kept, Use
<1>4. ASSUME NEW u \in following', u # s PROVE Heard(u)'
  <2>1. u \in following /\ u \in Watched
    BY <1>4 DEF Inv, TypeOK, Use
  <2>2. knows'[u] = knows[u] /\ Heard(u) /\ failed \in BOOLEAN
    BY <1>4, <2>1 DEF Inv, TypeOK, Known, Use
  <2>. QED
    BY <2>2, HeardStays DEF Use
<1>5. ASSUME NEW u \in sound' PROVE Answered(u)'
  <2>1. u \in sound /\ u \in Watched /\ u # s
    BY DEF Inv, TypeOK, Use
  <2>2. answer'[u] = answer[u] /\ Answered(u) /\ failed \in BOOLEAN
    BY <2>1 DEF Inv, TypeOK, Known, Use
  <2>. QED
    BY <2>2, HeardStays DEF Use
<1>6. ASSUME s \in following' PROVE Heard(s)'
  <2>1. s \in sound
    BY <1>6 DEF Use
  <2>2. knows'[s] = answer[s] /\ Answered(s)
    BY <2>1 DEF Inv, TypeOK, Known, Use
  <2>3. Named(s) /\ ~failed => (knows'[s] <=> WireOf(s) \in Kept(Device(WireOf(s))))
    BY <2>2 DEF Answered
  <2>4. (Named(s)' <=> Named(s)) /\ WireOf(s)' = WireOf(s) /\ failed' = failed
    BY NamesStay DEF Use
  <2>5. \A d : Kept(d)' = Kept(d)
    BY DEF Kept, Use
  <2>. QED
    BY <2>3, <2>4, <2>5 DEF Heard, Device
<1>. QED
  BY <1>1, <1>2, <1>3, <1>4, <1>5, <1>6 DEF Inv, Known

\* Every step keeps it.
LEMMA StepInv == Inv /\ [Next]_vars => Inv'
<1>. SUFFICES ASSUME Inv, [Next]_vars PROVE Inv'
  OBVIOUS
<1>1. CASE UNCHANGED vars
  <2>1. TypeOK' /\ InHand' /\ Batches'
    BY <1>1 DEF Inv, TypeOK, InHand, Batches, vars, config, answers
  <2>2. \A d \in Devices : Fresh(d)'
    BY <1>1 DEF Inv, Fresh, Started, Kept, vars
  <2>3. Known'
    BY <1>1, KnownStays DEF vars
  <2>. QED
    BY <2>1, <2>2, <2>3 DEF Inv
<1>2. CASE ThreadLoop
  BY <1>2, StartHdmiInv, StartAvinInv, WaitInv, TellHdmiInv, TellAvinInv, ReadStatusInv
     DEF ThreadLoop, Devices
<1>3. ASSUME NEW w \in Moving, Plug(w) PROVE Inv'
  BY <1>3, PlugInv
<1>4. ASSUME NEW s \in Watched, Ask(s) PROVE Inv'
  BY <1>4, AskInv
<1>5. ASSUME NEW s \in Watched, Use(s) PROVE Inv'
  BY <1>5, UseInv
<1>. QED
  BY <1>1, <1>2, <1>3, <1>4, <1>5 DEF Next

\* It always holds.
LEMMA Invariance == Spec => []Inv
  BY InitInv, StepInv, PTL DEF Spec

(***************************************************************************)
(* The theorems.                                                           *)
(***************************************************************************)
\* The types, with the map that of the file.
THEOREM TypeCorrect == Spec => []TypeOK
<1>1. Inv => TypeOK
  BY DEF Inv
<1>. QED
  BY <1>1, Invariance, PTL

\* Sources sit on the ports the configuration file gives them, for every file in
\* which no key and no section extends another that is asked for.
THEOREM MapAsConfiguredCorrect == Spec => []MapAsConfigured
<1>1. Inv => MapAsConfigured
  BY LoadedAsConfigured DEF Inv, TypeOK
<1>. QED
  BY <1>1, Invariance, PTL

\* Whenever the thread has nothing left to do, a client that follows a source knows
\* what a question would answer, for every mapping of sources to ports and every
\* order of edges, reads, questions and answers: an answer may come after any number
\* of events that were read later.
THEOREM SettledAgreesCorrect == Spec => []SettledAgrees
<1>1. ASSUME Inv, pc = "wait", pending = {}, ~failed, NEW s \in following, Named(s)
      PROVE  knows[s] = GetSourceConnectStatus(s)
  <2>1. s \in Watched /\ knows[s] \in BOOLEAN /\ Heard(s)
    BY <1>1 DEF Inv, TypeOK, Known
  <2>2. knows[s] <=> WireOf(s) \in Kept(Device(WireOf(s)))
    BY <1>1, <2>1 DEF Heard
  <2>3. GetSourceConnectStatus(s) <=> WireOf(s) \in Kept(Device(WireOf(s)))
    BY <1>1, <2>1, SettledWire
  <2>4. GetSourceConnectStatus(s) \in BOOLEAN
    BY AnswerType
  <2>. QED
    BY <2>1, <2>2, <2>3, <2>4
<1>2. Inv => SettledAgrees
  BY <1>1 DEF SettledAgrees, KnowsTheTruth
<1>. QED
  BY <1>2, Invariance, PTL
=============================================================================
