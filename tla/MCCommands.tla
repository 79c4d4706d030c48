----------------------------- MODULE MCCommands -----------------------------
(***************************************************************************)
(* Commands with every call of the library in one thread and a few, one of *)
(* each transaction, in another.  The arguments are small numbers that are *)
(* told apart; the application fills the buffer it asks the SPD data in.   *)
(***************************************************************************)
EXTENDS Commands

CONSTANT buffer     \* what the application has put into the buffer

MCData == 0..28 \cup {buffer}

OneSwitch == {"SetEdidBoostOn", "SetHdmiAllmEnabled", "SetHdmiVrrEnabled", "SetPcMode", "SetHeadlessMode"}
TwoArguments == {"SetEdidVersion", "SetGameMode"}
OneArgument == Names \ (NoArgument \cup OneSwitch \cup TwoArguments \cup {"GetSPDInfo"})

C(name, args) == [name |-> name, args |-> args]

AllCalls ==
    {C(n, <<>>) : n \in NoArgument}
    \cup {C(n, <<a>>) : n \in OneSwitch, a \in {0, 1}}
    \cup {C(n, <<a>>) : n \in OneArgument, a \in {5, 6}}
    \cup {C("SetEdidVersion", <<5, 1>>), C("SetGameMode", <<0, 2>>), C("SetGameMode", <<1, 2>>)}
    \cup {C("GetSPDInfo", <<5, 28>>), C("GetSPDInfo", <<6, 28, buffer>>)}

FewCalls == {C("StopTv", <<6>>), C("SetEdidVersion", <<6, 0>>), C("GetEdidData", <<8>>),
             C("GetSPDInfo", <<7, 14>>)}

MCCalls == [t \in Threads |-> IF t = "main" THEN AllCalls ELSE FewCalls]
=============================================================================
