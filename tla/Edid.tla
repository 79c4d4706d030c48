-------------------------------- MODULE Edid --------------------------------
(***************************************************************************)
(* The EDID an HDMI input shows its source: CTv::LoadEdidData reads a file *)
(* per version, patches it (PatchEdidFor120Hz, PatchEdidMonitorName) and   *)
(* takes out what the display on HDMI TX cannot show                       *)
(* (FilterEdidByTxCapabilities).                                           *)
(*                                                                         *)
(* An EDID is a sequence of blocks of 128 bytes, indexed from 0 as in the  *)
(* code; a data block is the sequence of its bytes. All loops over the     *)
(* data blocks of a CEA extension share the walk Chain; those that change  *)
(* it share EditBlocks and Splice, which is their memmove, memset and      *)
(* "extBlock[2] -= removeBytes". Bytes 8 to 16 of a timing (sync, size,    *)
(* borders), which nothing here reads, are 0.                              *)
(***************************************************************************)
EXTENDS Integers, Sequences, FiniteSets

CONSTANTS
    Files,       \* what an EDID file may hold: two blocks
    TxDisplays,  \* records: edid (two blocks, or <<>>) and cap (mode names)
    NoDisplay    \* nothing is connected to HDMI TX

VARIABLES
    tx,      \* the display on HDMI TX
    stage,   \* where LoadEdidData is
    ver,     \* the version it prepares: 14, 20 or 0 for the display's own
    file,    \* the file that was read for it
    edid,    \* the buffer being patched: edid14 or edid20
    read,    \* the display whose EDID the filter has read
    before,  \* history: the buffer when the filter was entered
    calm     \* history: the same display since the file was read

loadVars == <<tx, stage, ver, file, edid, read, before, calm>>

ASSUME NoDisplayAssumption == NoDisplay.edid = <<>> /\ NoDisplay.cap = {}

Zeros == [i \in 0..127 |-> 0]
Bit(x, mask) == (x \div mask) % 2

\* Of the bytes 0 to last.
Sum(b, last) ==
    LET upTo[i \in 0..127] == b[i] + (IF i = 0 THEN 0 ELSE upTo[i - 1])
    IN  upTo[last]

ByteBlocks == [0..127 -> 0..255]
Valid == {b \in ByteBlocks : Sum(b, 127) % 256 = 0}

\* The files are valid EDIDs, and the hdmitx driver hands out no other.
ASSUME FilesAssumption == Files \subseteq Valid \X Valid
ASSUME DisplaysAssumption == \A d \in TxDisplays : d.edid \in (Valid \X Valid) \cup {<<>>}

-----------------------------------------------------------------------------
\* Modes are <<width, height, fps, interlaced>>, the last of which is 0 or 1.

\* The width a name without one stands for.
WidthOf == [h \in {2160, 1080, 720, 576, 480} |->
    CASE h = 2160 -> 3840 [] h = 1080 -> 1920 [] h = 720 -> 1280 [] OTHER -> 720]

\* "2560x1440p120hz" has a width, "1080p60hz" (width 0) takes the standard one.
ParseModeName(n) ==
    <<IF n.width # 0 THEN n.width ELSE WidthOf[n.height], n.height, n.fps, n.interlaced>>

\* disp_cap; names that do not parse ("smpte24hz", unknown heights) are skipped.
ReadTxDispCapModes(d) ==
    {ParseModeName(n) : n \in {m \in d.cap : m.width # 0 \/ m.height \in DOMAIN WidthOf}}

VicModes == {
    <<1, 640, 480, 60, 0>>, <<2, 720, 480, 60, 0>>, <<3, 720, 480, 60, 0>>,
    <<4, 1280, 720, 60, 0>>, <<5, 1920, 1080, 60, 1>>, <<16, 1920, 1080, 60, 0>>,
    <<17, 720, 576, 50, 0>>, <<18, 720, 576, 50, 0>>, <<19, 1280, 720, 50, 0>>,
    <<20, 1920, 1080, 50, 1>>, <<31, 1920, 1080, 50, 0>>, <<32, 1920, 1080, 24, 0>>,
    <<33, 1920, 1080, 25, 0>>, <<34, 1920, 1080, 30, 0>>, <<63, 1920, 1080, 120, 0>>,
    <<64, 1920, 1080, 100, 0>>, <<93, 3840, 2160, 24, 0>>, <<94, 3840, 2160, 25, 0>>,
    <<95, 3840, 2160, 30, 0>>, <<96, 3840, 2160, 50, 0>>, <<97, 3840, 2160, 60, 0>>,
    <<98, 4096, 2160, 24, 0>>, <<99, 4096, 2160, 25, 0>>, <<100, 4096, 2160, 30, 0>>,
    <<101, 4096, 2160, 50, 0>>, <<102, 4096, 2160, 60, 0>>}

VicToMode(vic) == {Tail(m) : m \in {r \in VicModes : r[1] = vic}}

\* The 18 bytes from offset at: a detailed timing or a display descriptor.
Slot(b, at) == [i \in 0..17 |-> b[at + i]]
BaseSlots == {54, 72, 90, 108}

PixelClock(s) == s[0] + 256 * s[1]
HTotal(s) == s[2] + 256 * (s[4] \div 16) + s[3] + 256 * (s[4] % 16)
VTotal(s) == s[5] + 256 * (s[7] \div 16) + s[6] + 256 * (s[7] % 16)
IsTiming(s) == PixelClock(s) # 0 /\ HTotal(s) > 0 /\ VTotal(s) > 0

DetailedTimingToMode(s) ==
    LET pixels == HTotal(s) * VTotal(s) IN
    <<s[2] + 256 * (s[4] \div 16), s[5] + 256 * (s[7] \div 16),
      (PixelClock(s) * 10000 + pixels \div 2) \div pixels, Bit(s[17], 128)>>

WriteDetailedTiming(clock, hActive, hBlank, vActive, vBlank, flags) ==
    [i \in 0..17 |->
        CASE i = 0 -> clock % 256
          [] i = 1 -> clock \div 256
          [] i = 2 -> hActive % 256
          [] i = 3 -> hBlank % 256
          [] i = 4 -> 16 * (hActive \div 256) + hBlank \div 256
          [] i = 5 -> vActive % 256
          [] i = 6 -> vBlank % 256
          [] i = 7 -> 16 * (vActive \div 256) + vBlank \div 256
          [] i = 17 -> flags
          [] OTHER -> 0]

PutSlot(b, at, s) == [i \in 0..127 |-> IF i \in at..at + 17 THEN s[i - at] ELSE b[i]]

RecalculateEdidBlockChecksum(b) == [b EXCEPT ![127] = (256 - (Sum(b, 126) % 256)) % 256]

-----------------------------------------------------------------------------
\* The data blocks of a CEA extension: a data block is the sequence of its
\* bytes, the first of which holds its tag and the number of the others.

DataBlock == {d \in Seq(0..255) : Len(d) \in 2..32 /\ d[1] % 32 = Len(d) - 1}

BlockTag(d) == d[1] \div 32
BlockLen(b, off) == b[off] % 32
Whole(b, off) == [i \in 1..BlockLen(b, off) + 1 |-> b[off + i - 1]]

\* Where the walk ends at the latest: at the timings, else before the checksum.
DataEnd(b) == IF b[2] \in 4..127 THEN b[2] ELSE 127

Stops(b, off) == BlockLen(b, off) = 0 \/ off + BlockLen(b, off) >= 127

\* The offsets of the data blocks a walk comes to, from each offset.
Walk(b) ==
    LET from[off \in 4..127] ==
          IF off >= DataEnd(b) \/ Stops(b, off) THEN {}
          ELSE {off} \cup from[off + BlockLen(b, off) + 1]
    IN  from

Chain(b) == Walk(b)[4]
DataBlocks(b) == {Whole(b, off) : off \in Chain(b)}

\* An extension without timings, or with data blocks up to its timings (CTA-861).
WellLaid(b) ==
    /\ b[2] \in {0} \cup 4..127
    /\ \A p \in {4} \cup {o + BlockLen(b, o) + 1 : o \in Chain(b)} :
          \/ p = DataEnd(b) \/ p \in Chain(b)
          \/ b[2] = 0 /\ BlockLen(b, p) = 0

\* Mutant: the timings move and byte 2 does not follow.
SpliceKeepsStart(b, off, new) ==
    LET cut == BlockLen(b, off) + 1 - Len(new) IN
    [i \in 0..127 |->
        CASE i \in off..off + Len(new) - 1 -> new[i - off + 1]
          [] i >= off + Len(new) /\ i < 127 -> IF i + cut < 127 THEN b[i + cut] ELSE 0
          [] OTHER -> b[i]]

\* Puts new in place of the block at off; what follows, up to the checksum,
\* moves left and the timings with it.
Splice(b, off, new) ==
    LET cut == BlockLen(b, off) + 1 - Len(new) IN
    [i \in 0..127 |->
        CASE i = 2 -> IF b[2] = 0 THEN 0 ELSE (b[2] - cut) % 256
          [] i \in off..off + Len(new) - 1 -> new[i - off + 1]
          [] i >= off + Len(new) /\ i < 127 -> IF i + cut < 127 THEN b[i + cut] ELSE 0
          [] OTHER -> b[i]]

\* The loop of the three filters: edit gives what is left of each data block.
EditBlocks(block, edit) ==
    LET from[s \in ByteBlocks \X (4..127) \X Int] ==
          LET b == s[1]
              off == s[2]
              end == s[3]
              new == edit[Whole(b, off)]
              cut == BlockLen(b, off) + 1 - Len(new)
          IN  IF off >= end \/ Stops(b, off) THEN b
              ELSE from[<<Splice(b, off, new), off + Len(new),
                          IF b[2] # 0 THEN end - cut ELSE end>>]
    IN  from[<<block, 4, DataEnd(block)>>]

IsVideo(d) == BlockTag(d) = 2
IsVideo420(d) == BlockTag(d) = 7 /\ Len(d) >= 3 /\ d[2] = 14

\* Masked to 7 bits: the upper bit marks a native mode.
Vics(d) == {d[i] % 128 : i \in (IF IsVideo(d) THEN 2 ELSE 3)..Len(d)}

HasOui(d, oui) == BlockTag(d) = 3 /\ Len(d) >= 4 /\ SubSeq(d, 2, 4) = oui

\* The HDMI Forum block, as a vendor block or as the HF-SCDB.
IsHf(d) ==
    \/ HasOui(d, <<216, 93, 196>>)
    \/ BlockTag(d) = 7 /\ Len(d) >= 2 /\ d[2] = 121

\* The extensions a walk over the whole EDID comes to.
CeaBlocks(e) ==
    IF e = <<>> THEN {}
    ELSE {e[n] : n \in {m \in 2..Len(e) : m - 1 <= e[1][126] /\ e[m][0] = 2}}

\* The files, and what the displays hand out, are laid out well.
FilesLaid == \A f \in Files : \A b \in CeaBlocks(f) : WellLaid(b)
DisplaysLaid == \A d \in TxDisplays : \A b \in CeaBlocks(d.edid) : WellLaid(b)

-----------------------------------------------------------------------------
\* What the display can show.

ParseTxEdidVics(e) ==
    UNION {UNION {Vics(d) : d \in {v \in DataBlocks(b) : IsVideo(v)}} : b \in CeaBlocks(e)}

\* Mutant: only the display's own list counts.
TxListsVic(vic, txVics, modes) == vic > 0 /\ vic \in txVics

TxSupportsVic(vic, txVics, modes) ==
    \/ vic > 0 /\ vic \in txVics
    \/ \E m \in VicToMode(vic) : m \in modes

\* Byte 8 of the data block holds ALLM in bit 1; bytes 9 and 10 are the VRR range.
HasFeature(d, f) ==
    \/ f = "allm" /\ Len(d) >= 9 /\ Bit(d[9], 2) = 1
    \/ f = "vrr" /\ Len(d) >= 11 /\ d[10] % 64 > 0 /\ 256 * (d[10] \div 64) + d[11] > 0

ParseTxFeatureSupport(e, f) ==
    \E b \in CeaBlocks(e) : \E d \in DataBlocks(b) : IsHf(d) /\ HasFeature(d, f)

-----------------------------------------------------------------------------
\* The steps of LoadEdidData, as functions of the buffer.

\* Only the first extension lies in the 256 bytes that were read; a block
\* without timings (byte 2 below 4) is not searched.
VideoBlocks(b) == IF b[2] < 4 THEN {} ELSE {off \in Chain(b) : IsVideo(Whole(b, off))}
FirstVideoBlock(b) == CHOOSE off \in VideoBlocks(b) : \A o \in VideoBlocks(b) : off <= o

HasRoom(b) ==
    /\ VideoBlocks(b) # {} /\ b[2] + 1 <= 127
    /\ LET off == FirstVideoBlock(b) IN
       63 \notin Vics(Whole(b, off)) /\ BlockLen(b, off) < 31 /\ off + BlockLen(b, off) + 1 < 127

\* Mutant: the length of the video block stays.
InsertVic63KeepsLength(b) ==
    LET off == FirstVideoBlock(b)
        pos == off + BlockLen(b, off) + 1
    IN  [i \in 0..127 |-> CASE i = 2 -> b[i] + 1
                            [] i = pos -> 63
                            [] i > pos -> b[i - 1]
                            [] OTHER -> b[i]]

\* Everything behind the video block moves right; byte 126 is lost.
InsertVic63(b) ==
    LET off == FirstVideoBlock(b)
        pos == off + BlockLen(b, off) + 1
    IN  [i \in 0..127 |-> CASE i = off -> b[i] + 1
                            [] i = 2 -> b[i] + 1
                            [] i = pos -> 63
                            [] i > pos -> b[i - 1]
                            [] OTHER -> b[i]]

Mode1440p144 == WriteDetailedTiming(57104, 2560, 160, 1440, 18, 30)
Mode1440p120 == WriteDetailedTiming(49775, 2560, 160, 1440, 85, 30)
Mode1440p60  == WriteDetailedTiming(24150, 2560, 160, 1440, 41, 30)
Mode1080p144 == WriteDetailedTiming(35640, 1920, 280, 1080, 45, 30)
Mode1080p240 == WriteDetailedTiming(59400, 1920, 280, 1080, 45, 30)
Mode3440p60  == WriteDetailedTiming(31975, 3440, 160, 1440, 49, 30)

baseModes(b) ==
    PutSlot(PutSlot(PutSlot(b, 54, Mode1440p144), 72, Mode1440p120), 90, Mode1440p60)

newModes ==
    <<Mode1440p120, Mode1440p60, Mode1080p144, Mode1080p240, Mode3440p60, Mode1440p144>>

\* The second extension: no data blocks, six timings from byte 4.
SecondExtension ==
    RecalculateEdidBlockChecksum([i \in 0..127 |->
        CASE i = 0 -> 2 [] i = 1 -> 3 [] i = 2 -> 4
          [] i \in 4..111 -> newModes[(i - 4) \div 18 + 1][(i - 4) % 18]
          [] OTHER -> 0])

Patchable(e) == e[1][126] > 0 /\ e[2][0] = 2

Patched(e) ==
    IF ~Patchable(e) THEN e
    ELSE <<RecalculateEdidBlockChecksum([baseModes(e[1]) EXCEPT ![126] = 2]),
           RecalculateEdidBlockChecksum(IF HasRoom(e[2]) THEN InsertVic63(e[2]) ELSE e[2]),
           SecondExtension>>

IsName(s) == s[0] = 0 /\ s[1] = 0 /\ s[3] = 252
NameSlots(b) == {at \in BaseSlots : IsName(Slot(b, at))}
NameSlot(b) == CHOOSE at \in NameSlots(b) : \A a \in NameSlots(b) : at <= a
NameOf(b) == [i \in 1..13 |-> b[NameSlot(b) + 4 + i]]

\* Mutant: the name is taken from the display's slot of the same offset.
NamedFromSameSlot(e, d) ==
    IF d.edid = <<>> \/ NameSlots(d.edid[1]) = {} \/ NameSlots(e[1]) = {} THEN e
    ELSE LET at == NameSlot(e[1]) + 5 IN
         [e EXCEPT ![1] = RecalculateEdidBlockChecksum(
             [i \in 0..127 |-> IF i \in at..at + 12 THEN d.edid[1][i] ELSE e[1][i]])]

\* Mutant: the filter will see to the checksum.
NamedUnsummed(e, d) ==
    IF d.edid = <<>> \/ NameSlots(d.edid[1]) = {} \/ NameSlots(e[1]) = {} THEN e
    ELSE LET at == NameSlot(e[1]) + 5 IN
         [e EXCEPT ![1] = [i \in 0..127 |-> IF i \in at..at + 12
                                            THEN NameOf(d.edid[1])[i - at + 1] ELSE e[1][i]]]

Named(e, d) ==
    IF d.edid = <<>> \/ NameSlots(d.edid[1]) = {} \/ NameSlots(e[1]) = {} THEN e
    ELSE LET at == NameSlot(e[1]) + 5 IN
         [e EXCEPT ![1] = RecalculateEdidBlockChecksum(
             [i \in 0..127 |-> IF i \in at..at + 12 THEN NameOf(d.edid[1])[i - at + 1]
                               ELSE e[1][i]])]

-----------------------------------------------------------------------------
\* FilterEdidByTxCapabilities.

\* The VICs from the byte first on that are kept.
Kept(d, first, vics) ==
    LET upTo[i \in 1..Len(d)] ==
          CASE i < first -> <<>>
            [] i >= first /\ d[i] % 128 \in vics -> Append(upTo[i - 1], d[i])
            [] OTHER -> upTo[i - 1]
    IN  upTo[Len(d)]

\* A block that keeps none goes as a whole.
FilterVics(d, vics) ==
    CASE IsVideo(d) /\ Kept(d, 2, vics) # <<>> ->
             <<64 + Len(Kept(d, 2, vics))>> \o Kept(d, 2, vics)
      [] IsVideo420(d) /\ Kept(d, 3, vics) # <<>> ->
             <<225 + Len(Kept(d, 3, vics)), 14>> \o Kept(d, 3, vics)
      [] ~IsVideo(d) /\ ~IsVideo420(d) -> d
      [] OTHER -> <<>>

FilterCeaVideoDataBlocks(block, txVics, modes) ==
    LET vics == {v \in 0..127 : TxSupportsVic(v, txVics, modes)}
    IN  EditBlocks(block, [d \in DataBlock |-> FilterVics(d, vics)])

\* Mutant: a block of just the length is left alone.
FilterLongHfScdb(data, count, allm, vrr) ==
    [i \in DOMAIN data |->
        CASE i = 9 -> data[i] - (IF count > 8 /\ ~allm THEN 2 * Bit(data[i], 2) ELSE 0)
          [] i \in {10, 11} -> IF count > 10 /\ ~vrr THEN 0 ELSE data[i]
          [] OTHER -> data[i]]

\* Byte 8 of the data block holds ALLM in bit 1 and VRR flags in 3, 5 and 6;
\* bytes 9 and 10 are the VRR range.
FilterHfScdbCapabilities(data, count, allm, vrr) ==
    LET noAllm == count >= 8 /\ ~allm
        noVrr  == count >= 10 /\ ~vrr
        flags(x) == x - (IF noAllm THEN 2 * Bit(x, 2) ELSE 0)
                      - (IF noVrr THEN 8 * Bit(x, 8) + 32 * Bit(x, 32) + 64 * Bit(x, 64) ELSE 0)
    IN  [i \in DOMAIN data |->
            CASE i = 9 -> flags(data[i])
              [] i \in {10, 11} -> IF noVrr THEN 0 ELSE data[i]
              [] OTHER -> data[i]]

FilterCeaHfScdb(block, allm, vrr) ==
    EditBlocks(block, [d \in DataBlock |->
        IF IsHf(d) THEN FilterHfScdbCapabilities(d, Len(d) - 1, allm, vrr) ELSE d])

FreeSync == <<26, 0, 0>>

RemoveCeaDataBlocksByOui(block, oui) ==
    EditBlocks(block, [d \in DataBlock |-> IF HasOui(d, oui) THEN <<>> ELSE d])

TimingSlots(start, end) == {at \in start..end : (at - start) % 18 = 0 /\ at + 18 <= end}

FilterDetailedTimings(b, start, end, modes) ==
    LET cut == {at \in TimingSlots(start, end) :
                   /\ IsTiming(Slot(b, at))
                   /\ DetailedTimingToMode(Slot(b, at)) \notin modes}
    IN  [i \in 0..127 |-> IF \E at \in cut : i \in at..at + 17 THEN 0 ELSE b[i]]

FilteredExtension(block, txVics, modes, allm, vrr) ==
    LET capable == FilterCeaHfScdb(FilterCeaVideoDataBlocks(block, txVics, modes), allm, vrr)
        b == IF vrr THEN capable ELSE RemoveCeaDataBlocksByOui(capable, FreeSync)
    IN  IF b[2] \in 4..126 THEN FilterDetailedTimings(b, b[2], 127, modes) ELSE b

Filtered(e, txEdid, modes) ==
    LET txVics == ParseTxEdidVics(txEdid)
        allm == ParseTxFeatureSupport(txEdid, "allm")
        vrr == ParseTxFeatureSupport(txEdid, "vrr")
    IN  [n \in DOMAIN e |->
            CASE n = 1 -> RecalculateEdidBlockChecksum(
                              FilterDetailedTimings(e[1], 54, 126, modes))
              [] n > 1 /\ n - 1 > e[1][126] -> e[n]
              [] n > 1 /\ n - 1 <= e[1][126] -> RecalculateEdidBlockChecksum(
                    IF e[n][0] = 2 THEN FilteredExtension(e[n], txVics, modes, allm, vrr)
                    ELSE e[n])]

-----------------------------------------------------------------------------
Empty == <<Zeros, Zeros>>

LoadInit ==
    /\ tx \in TxDisplays \cup {NoDisplay}
    /\ stage = "idle" /\ ver = 14
    /\ file = Empty /\ edid = Empty /\ before = Empty
    /\ read = NoDisplay /\ calm = TRUE

\* The display is plugged, unplugged or exchanged at any time.
ExchangeDisplay ==
    /\ tx' \in (TxDisplays \cup {NoDisplay}) \ {tx}
    /\ calm' = FALSE
    /\ UNCHANGED <<stage, ver, file, edid, read, before>>

\* The constructor with edid passthrough configured: the display's own EDID.
PassthroughEdidFromTxToRx ==
    /\ stage = "idle" /\ tx.edid # <<>>
    /\ edid' = tx.edid
    /\ ver' = 0 /\ stage' = "done"
    /\ UNCHANGED <<tx, file, read, before, calm>>

\* A file that is missing leaves the buffer zero.  edid20 has room for a third
\* block.
ReadDataFromFile(v) ==
    /\ file' \in Files \cup {Empty}
    /\ edid' = IF v = 20 THEN Append(file', Zeros) ELSE file'
    /\ before' = edid'
    /\ ver' = v /\ calm' = TRUE /\ read' = NoDisplay

LoadEdidData ==
    /\ stage = "idle" /\ stage' = "name"
    /\ ReadDataFromFile(14)
    /\ UNCHANGED tx

\* edid14 is finished and kept for the write.
LoadEdid20 ==
    /\ stage = "done" /\ ver = 14 /\ stage' = "patch"
    /\ ReadDataFromFile(20)
    /\ UNCHANGED tx

PatchEdidFor120Hz ==
    /\ stage = "patch"
    /\ edid' = Patched(edid)
    /\ stage' = "name"
    /\ UNCHANGED <<tx, ver, file, read, before, calm>>

PatchEdidMonitorName ==
    /\ stage = "name"
    /\ edid' = Named(edid, tx)
    /\ before' = edid'
    /\ stage' = "filter"
    /\ UNCHANGED <<tx, ver, file, read, calm>>

\* FilterEdidByTxCapabilities reads the display's EDID ...
ReadEdidFromHdmiTx ==
    /\ stage = "filter"
    /\ read' = IF tx.edid = <<>> THEN NoDisplay ELSE tx
    /\ stage' = IF tx.edid = <<>> THEN "done" ELSE "modes"
    /\ UNCHANGED <<tx, ver, file, edid, before, calm>>

\* ... then its mode list, which may be another display's by now.
FilterEdidByTxCapabilities ==
    /\ stage = "modes"
    /\ LET modes == ReadTxDispCapModes(tx) IN
       edid' = IF modes = {} THEN edid ELSE Filtered(edid, read.edid, modes)
    /\ stage' = "done"
    /\ UNCHANGED <<tx, ver, file, read, before, calm>>

\* What is done goes to the driver; the next port, or the next load, begins.
UpdataEdidDataWithPort ==
    /\ stage = "done" /\ ver \in {0, 20}
    /\ stage' = "idle" /\ ver' = 14
    /\ file' = Empty /\ edid' = Empty /\ before' = Empty
    /\ read' = NoDisplay
    /\ UNCHANGED <<tx, calm>>

LoadNext ==
    \/ ExchangeDisplay
    \/ PassthroughEdidFromTxToRx
    \/ LoadEdidData
    \/ PatchEdidMonitorName
    \/ ReadEdidFromHdmiTx
    \/ FilterEdidByTxCapabilities
    \/ LoadEdid20
    \/ PatchEdidFor120Hz
    \/ UpdataEdidDataWithPort

LoadSpec == LoadInit /\ [][LoadNext]_loadVars

-----------------------------------------------------------------------------
\* How a source reads an EDID: what it may send, and the other data blocks.

Timings(b, start, end) ==
    {DetailedTimingToMode(s) : s \in {Slot(b, at) : at \in
        {a \in TimingSlots(start, end) : IsTiming(Slot(b, a))}}}

Offers(e) ==
    {<<"timing", m>> : m \in Timings(e[1], 54, 126)} \cup
    UNION {{<<"vic", v>> : v \in UNION {Vics(d) : d \in {c \in DataBlocks(b) : IsVideo(c)}}} \cup
           {<<"420", v>> : v \in UNION {Vics(d) : d \in {c \in DataBlocks(b) : IsVideo420(c)}}} \cup
           {<<"timing", m>> : m \in IF b[2] \in 4..126 THEN Timings(b, b[2], 127) ELSE {}}
           : b \in CeaBlocks(e)}

Others(e) ==
    UNION {{d \in DataBlocks(b) :
               ~IsVideo(d) /\ ~IsVideo420(d) /\ ~IsHf(d) /\ ~HasOui(d, FreeSync)}
           : b \in CeaBlocks(e)}

\* What is left at the end of an extension of a timing that does not fit in:
\* it is a timing again when the filter has moved it to the left.
Remainder(b) ==
    LET at == b[2] + 18 * ((127 - b[2]) \div 18)
    IN  [i \in 0..17 |-> IF at + i < 127 THEN b[at + i] ELSE 0]

Remains(e) ==
    {<<"timing", DetailedTimingToMode(s)>> : s \in
        {r \in {Remainder(b) : b \in {c \in CeaBlocks(e) : c[2] \in 4..126}} : IsTiming(r)}}

Advertises(e, oui) == \E b \in CeaBlocks(e) : \E d \in DataBlocks(b) : HasOui(d, oui)

\* The modes the comments of PatchEdidFor120Hz name.
NamedModes == {<<2560, 1440, 144, 0>>, <<2560, 1440, 120, 0>>, <<2560, 1440, 60, 0>>,
               <<1920, 1080, 144, 0>>, <<1920, 1080, 240, 0>>, <<3440, 1440, 60, 0>>}

\* The filter has run, and every read of it saw the display that is there.
FilteredForDisplay ==
    stage = "done" /\ calm /\ read # NoDisplay /\ ReadTxDispCapModes(tx) # {}

\* A receiver drops an EDID with a block whose bytes do not add up to 0 mod 256.
\* Every buffer between two steps is valid, whichever steps a display that
\* comes or goes skips.
ChecksumsValid ==
    \A n \in DOMAIN edid : /\ edid[n] \in [0..127 -> 0..255]
                           /\ Sum(edid[n], 127) % 256 = 0

\* The data blocks of an extension fill it exactly up to its timings: no
\* insertion, shortening or removal leaves the offset in byte 2 behind.
BlocksEndAtTimings ==
    \A b \in CeaBlocks(edid) :
        b[2] >= 4 => \/ b[2] = 4
                     \/ \E o \in Chain(b) : o + BlockLen(b, o) + 1 = b[2]

\* The filter takes out exactly the modes the display neither lists in its own
\* EDID nor in disp_cap; all it can show, and every other data block, stays.
\* What comes in addition is a timing the patch has pushed over the end.
FilterExact ==
    FilteredForDisplay =>
        LET Shows(o) == IF o[1] = "timing" THEN o[2] \in ReadTxDispCapModes(tx)
                        ELSE \/ o[2] > 0 /\ <<"vic", o[2]>> \in Offers(tx.edid)
                             \/ \E m \in ReadTxDispCapModes(tx) : m \in VicToMode(o[2])
        IN  /\ {o \in Offers(before) : Shows(o)} \subseteq Offers(edid)
            /\ Offers(edid) \subseteq {o \in Offers(before) \cup Remains(before) : Shows(o)}
            /\ Others(edid) = Others(before)

\* ALLM and VRR are advertised exactly when both the file and the display have
\* them; FreeSync only to a display with VRR.
FeaturesAgree ==
    FilteredForDisplay =>
        /\ \A f \in {"allm", "vrr"} :
               ParseTxFeatureSupport(edid, f) =
                   (ParseTxFeatureSupport(before, f) /\ ParseTxFeatureSupport(tx.edid, f))
        /\ Advertises(edid, FreeSync) => ParseTxFeatureSupport(tx.edid, "vrr")

\* The patch adds the modes its comments name, and VIC 63 where the block has
\* room, and takes nothing from the extension, except a timing that ended at
\* the last byte and was pushed out.
PatchExact ==
    stage = "name" /\ ver = 20 /\ Patchable(file) =>
        LET b == file[2]
            pushed == {<<"timing", DetailedTimingToMode(Slot(b, at))>> :
                          at \in {a \in TimingSlots(b[2], 127) :
                                     HasRoom(b) /\ a + 17 = 126 /\ IsTiming(Slot(b, a))}}
            added == {<<"timing", m>> : m \in NamedModes}
        IN  /\ added \subseteq Offers(edid)
            /\ HasRoom(b) => <<"vic", 63>> \in Offers(edid)
            /\ Offers([file EXCEPT ![1] = [Zeros EXCEPT ![126] = 1]]) \ pushed \subseteq Offers(edid)
            /\ Offers(edid) \subseteq Offers(file) \cup added \cup {<<"vic", 63>>}
            /\ Others(edid) = Others(file)

\* The source sees the name of the display, if the buffer names one: the 2.0
\* buffer keeps a name in the fourth slot only, the patch fills the others.
NameShown ==
    stage \in {"filter", "done"} /\ ver # 0 /\ calm /\ tx.edid # <<>> =>
        \/ NameSlots(tx.edid[1]) = {}
        \/ NameSlots(file[1]) = {}
        \/ ver = 20 /\ Patchable(file) /\ 108 \notin NameSlots(file[1])
        \/ NameOf(edid[1]) = NameOf(tx.edid[1])
=============================================================================
