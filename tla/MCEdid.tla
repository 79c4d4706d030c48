------------------------------- MODULE MCEdid -------------------------------
(***************************************************************************)
(* Files and displays for TLC: EDIDs put together from data blocks and     *)
(* timings, so that the data blocks of a file fill none of, some of or the *)
(* whole extension.                                                        *)
(***************************************************************************)
EXTENDS Edid, SequencesExt

Flat(s) == [i \in 1..18 |-> s[i - 1]]

T1080p60  == Flat(WriteDetailedTiming(14850, 1920, 280, 1080, 45, 30))
T1440p60  == Flat(WriteDetailedTiming(24150, 2560, 160, 1440, 41, 30))
T720p60   == Flat(WriteDetailedTiming(7425, 1280, 370, 720, 30, 30))
T1080i60  == Flat(WriteDetailedTiming(7425, 1920, 280, 540, 22, 158))
T1080p144 == Flat(WriteDetailedTiming(35640, 1920, 280, 1080, 45, 30))
Name(c)   == <<0, 0, 0, 252, 0>> \o [i \in 1..13 |-> c]
Range1    == <<0, 0, 0, 253, 0>> \o [i \in 1..13 |-> 1]

Base(slots) ==
    LET bytes == FlattenSeq(slots) IN
    RecalculateEdidBlockChecksum([i \in 0..127 |->
        IF i \in 54..125 THEN bytes[i - 53] ELSE IF i = 126 THEN 1 ELSE i])

\* Byte 2 is 0 where hasTimings is FALSE.
Extension(blocks, timings, hasTimings) ==
    LET data == FlattenSeq(blocks)
        rest == FlattenSeq(timings)
        start == 4 + Len(data)
    IN  RecalculateEdidBlockChecksum([i \in 0..127 |->
            CASE i = 0 -> 2 [] i = 1 -> 3 [] i = 2 -> IF hasTimings THEN start ELSE 0
              [] i = 3 -> 240
              [] i \in 4..start - 1 -> data[i - 3]
              [] i \in start..start + Len(rest) - 1 -> rest[i - start + 1]
              [] OTHER -> 0])

Block(tag, bytes) == <<32 * tag + Len(bytes)>> \o bytes
Audio == Block(1, <<9, 7, 7>>)
Hf(flags, min, max) == Block(3, <<216, 93, 196, 1, 120, 128, 0, flags, min, max>>)
ShortHf(flags) == Block(7, <<121, 0, 0, 1, 120, 128, 0, flags>>)
AmdVendor == Block(3, <<26, 0, 0, 1, 1, 48, 144>>)

Common == <<T1080p60, T1440p60, Name(65), Range1>>
NameLast == <<T1080p60, T1440p60, Range1, Name(65)>>

FilesMC == {
    \* the usual file, with native bits, both kinds of video block and a
    \* vendor block behind them
    <<Base(Common), Extension(
        <<Block(2, <<144, 4, 97, 5, 118>>), Audio, Block(7, <<14, 97, 96>>), Hf(106, 48, 144), AmdVendor>>,
        <<T1080p60, T1440p60>>, TRUE)>>,
    \* timings up to the last byte; VIC 63 is there
    <<Base(NameLast), Extension(
        <<Block(2, <<97, 63>>), Audio, Block(2, <<33, 16, 1>>), Block(4, <<1, 0, 0>>)>>,
        <<T1440p60, T1080p60, T1080p60, T1440p60, T1080p60, T1080p144>>, TRUE)>>,
    \* the same without VIC 63: there is room, and the last timing is pushed out
    <<Base(NameLast), Extension(
        <<Block(2, <<97, 16>>), Audio, Block(2, <<33, 16>>), Hf(2, 1, 0), Block(4, <<1, 0, 0>>), Block(6, [i \in 1..7 |-> i])>>,
        <<T1440p60, T1080p60, T1080p60, T1080p60, T720p60>>, TRUE)>>,
    \* a full video block, nothing of which a monitor shows; no timings
    <<Base(Common), Extension(
        <<Block(2, [i \in 1..31 |-> 64 + i]), ShortHf(10), AmdVendor, Audio>>, <<>>, FALSE)>>}

Cap(w, h, f) == [width |-> w, height |-> h, fps |-> f, interlaced |-> 0]

DisplaysMC == {
    \* a TV with ALLM and VRR
    [edid |-> <<Base(<<T1080p60, Name(66), Range1, T1440p60>>), Extension(
        <<Block(2, <<144, 97, 63, 5>>), Hf(2, 48, 120)>>, <<T1080p60>>, TRUE)>>,
     cap |-> {Cap(0, 1080, 60), Cap(0, 2160, 60), Cap(0, 1080, 120), Cap(0, 243, 60)}],
    \* a monitor with neither
    [edid |-> <<Base(<<T1440p60, T1080p60, Range1, Name(67)>>), Extension(
        <<Block(2, <<4>>), Audio>>, <<>>, TRUE)>>,
     cap |-> {Cap(2560, 1440, 60), Cap(2560, 1440, 144), Cap(0, 1080, 60), Cap(0, 720, 60)}],
    \* a display whose modes are not known yet
    [edid |-> <<Base(<<T1440p60, T1080p60, Range1, Range1>>), Extension(<<Audio>>, <<>>, FALSE)>>,
     cap |-> {}]}

NoDisplayMC == [edid |-> <<>>, cap |-> {}]

\* TLC's files and displays are what the theorems about the layout assume.
ASSUME FilesLaid /\ DisplaysLaid
=============================================================================
