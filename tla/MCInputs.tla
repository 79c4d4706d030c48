------------------------------ MODULE MCInputs ------------------------------
(***************************************************************************)
(* Inputs with configuration files as they are written by hand: none,      *)
(* ports exchanged between two other sections, with a note behind a value  *)
(* and an unknown port, keys and sections that extend others, and a        *)
(* section that comes twice, with an AV source on an HDMI port so that the *)
(* port is used twice.                                                     *)
(***************************************************************************)
EXTENDS Inputs

Section(words) == [text |-> words, value |-> "", hash |-> FALSE, brackets |-> TRUE, eq |-> FALSE]
Key(words, port) == [text |-> words, value |-> port, hash |-> FALSE, brackets |-> FALSE, eq |-> TRUE]
Noted(line) == [line EXCEPT !.hash = TRUE]
Map == Section(<<"SourceInputMap">>)

MCFiles ==
    {<<>>,
     <<Section(<<"TV">>), Key(<<"HDMI2">>, "HDMI3"), Map, Key(<<"HDMI1">>, "HDMI2"),
       Key(<<"HDMI2">>, "HDMI0"), Noted(Key(<<"HDMI4">>, "HDMI0")), Key(<<"HDMI3">>, "HDMI9"),
       Section(<<"HDMI">>), Key(<<"HDMI4">>, "HDMI1")>>,
     <<Section(<<"SourceInputMap", "Old">>), Key(<<"HDMI2", "name">>, "HDMI3"), Map,
       Key(<<"HDMI2">>, "HDMI0")>>,
     <<Map, Key(<<"AV1">>, "HDMI0"), Map, Key(<<"HDMI2">>, "HDMI1")>>}
=============================================================================
