---------------------------- MODULE HdmiFeatures ----------------------------
(***************************************************************************)
(* The HDMI receiver settings that CTv keeps: the EDID version of each     *)
(* port and the ALLM and VRR bits, in the u-boot environment and in the    *)
(* hdmirx driver (libtv/CTv.cpp, libtv/CHDMIRxManager.cpp, STREAM_BOX      *)
(* build).  Commands are serialised by tvservice_mutex, but the process    *)
(* may die between the write to the environment and the one to the driver, *)
(* either may be refused, and the display on HDMI TX is exchanged while    *)
(* nobody looks.                                                           *)
(***************************************************************************)
CONSTANTS
    Ports,            \* the HDMI inputs, as the UI numbers them
    Displays,         \* what may be plugged into HDMI TX
    AllmDisplays, VrrDisplays,   \* those whose EDID announces the feature
    Ubootenv,         \* the build has ubootenv (Makefile: DISABLE_UBOOTENV)
    LoadsEdid,        \* may the configuration file let tvserver load the EDIDs
                      \* (edid_auto_load_en, no edid_passthrough_tx_to_rx)?
    DefaultVersion,   \* [HDMI] edid_default_version
    Versions,         \* bound: the versions clients ask for
    DriverMayFail,    \* hdmirx may refuse a write
    EnvMayFail,       \* the environment may refuse a write
    ServerMayDie

\* HDMI_EDID_VER_14, _20 and _AUTO; the first is also an empty nibble.
EdidVersions == {"14", "20", "auto"}
Features == {"allm", "vrr"}

ASSUME ConstantsAssumption ==
    /\ AllmDisplays \subseteq Displays /\ VrrDisplays \subseteq Displays
    /\ Ubootenv \in BOOLEAN /\ EnvMayFail \in BOOLEAN
    /\ DriverMayFail \in BOOLEAN /\ ServerMayDie \in BOOLEAN
    /\ LoadsEdid \subseteq BOOLEAN
    /\ DefaultVersion \in {"14", "20"}
    /\ Versions \subseteq EdidVersions

VARIABLES
    display,          \* on HDMI TX
    saved,            \* which of the two environment variables exist:
    edidVersion,      \* HDMI_UBOOT_EDID_VERSION, a nibble for each port
    feature,          \* HDMI_UBOOT_EDID_FEATURE, a bit for each feature
    rxVersion,        \* hdmirx: the version each port shows
    rxFeature,        \* hdmirx: the features switched on
    mBoostOn,
    pc,               \* where the constructor or the command is
    port, version,    \* locals of SetEdidVersion
    name, enable,     \* locals of SetHdmiAllmEnabled and SetHdmiVrrEnabled
    \* history: read by no guard
    requested,        \* the version of the last SetEdidVersion that returned 0
    unsaved,          \* the ports whose last such version the environment refused
    loaded,           \* a LoadEdidData of this process has succeeded
    apart,            \* the features whose last write of this process the driver
                      \* or the environment refused, and those not yet written
    gated             \* the features the display was asked about since it came

environment == <<saved, edidVersion, feature>>
driver == <<rxVersion, rxFeature>>
locals == <<port, version, name, enable>>
history == <<requested, unsaved, loaded, apart, gated>>
vars == <<display, environment, driver, mBoostOn, pc, locals, history>>

\* The type invariant: no version and no bit but those that exist ever reach
\* the environment or the driver.
TypeOK ==
    /\ display \in Displays
    /\ saved \subseteq {"edidVersion", "feature"}
    /\ edidVersion \in [Ports -> EdidVersions]
    /\ feature \subseteq Features
    /\ rxVersion \in [Ports -> EdidVersions]
    /\ rxFeature \subseteq Features
    /\ mBoostOn \in BOOLEAN
    /\ pc \in {"down", "start", "deliver", "initFeature", "initVersion", "idle",
               "switchVersion", "saveVersion", "setFeature"}
    /\ port \in Ports /\ version \in EdidVersions
    /\ name \in Features /\ enable \in BOOLEAN
    /\ requested \in [Ports -> EdidVersions \union {"none"}]
    /\ unsaved \subseteq Ports /\ loaded \in BOOLEAN
    /\ apart \subseteq Features /\ gated \subseteq Features

Init ==
    /\ display \in Displays
    /\ saved = {}
    /\ edidVersion = [p \in Ports |-> "14"]
    /\ feature = {}
    /\ rxVersion = [p \in Ports |-> "14"]
    /\ rxFeature \in SUBSET Features
    /\ mBoostOn = FALSE
    /\ pc = "start"
    /\ port \in Ports /\ version = "14" /\ name = "allm" /\ enable = FALSE
    /\ requested = [p \in Ports |-> "none"]
    /\ unsaved = {} /\ loaded = FALSE
    /\ apart = Features /\ gated = {}

\* GetTxAllmSupported and GetTxVrrSupported.
Supported == {f \in Features : display \in IF f = "allm" THEN AllmDisplays ELSE VrrDisplays}

\* SetUenv writes nothing in a build without ubootenv, where GetUenv finds
\* nothing either: there both variables keep the value 0 of a missing one.
\* Every caller ignores a write that was refused.
Refused == (~Ubootenv \/ EnvMayFail) /\ UNCHANGED environment

SetVersionUenv(v) ==
    \/ /\ Ubootenv
       /\ edidVersion' = v
       /\ saved' = saved \union {"edidVersion"}
       /\ UNCHANGED feature
    \/ Refused

SetFeatureUenv(f) ==
    \/ /\ Ubootenv
       /\ feature' = f
       /\ saved' = saved \union {"feature"}
       /\ UNCHANGED edidVersion
    \/ Refused

\* Mutant: the nibble is not masked out of the word.
GetEdidVersionUnmasked(p) ==
    IF \E q \in Ports \ {p} : edidVersion[q] # "14" THEN "wide" ELSE edidVersion[p]

\* Mutant: the environment is not consulted.
GetEdidVersionIgnoresUenv(p) == "20"

\* An empty nibble, or no variable at all, is read as 2.0.
GetEdidVersion(p) == IF edidVersion[p] = "14" THEN "20" ELSE edidVersion[p]

(***************************************************************************)
(* The constructor and LoadEdidData                                        *)
(***************************************************************************)
\* The configuration file may be another one each time the process starts.
LoadDefaultVersion ==
    /\ pc = "start"
    /\ \/ /\ FALSE \in LoadsEdid
          /\ pc' = "idle"
          /\ UNCHANGED environment
       \/ /\ TRUE \in LoadsEdid
          /\ pc' = "deliver"
          /\ IF "edidVersion" \in saved
             THEN UNCHANGED environment
             ELSE SetVersionUenv([p \in Ports |-> DefaultVersion])
    /\ UNCHANGED <<display, driver, mBoostOn, locals, history>>

\* Each port gets its EDID data; one port that fails fails the whole load.
DeliverEdidData ==
    /\ pc = "deliver"
    /\ pc' \in IF DriverMayFail THEN {"initFeature", "idle"} ELSE {"initFeature"}
    /\ UNCHANGED <<display, environment, driver, mBoostOn, locals, history>>

\* SetHDMIFeatureInit is one write for each feature.
Taken == IF DriverMayFail THEN SUBSET Features ELSE {Features}

\* Mutant: what HDMI TX supports is not asked.
InitFeatureUngated ==
    /\ pc = "initFeature"
    /\ pc' = "initVersion"
    /\ \/ /\ "feature" \in saved
          /\ \E taken \in Taken :
                /\ rxFeature' = (rxFeature \ taken) \union (feature \intersect taken)
                /\ apart' = Features \ taken
          /\ gated' = Features
          /\ UNCHANGED environment
       \/ /\ "feature" \notin saved
          /\ SetFeatureUenv(rxFeature \intersect Supported)
          /\ UNCHANGED <<rxFeature, apart, gated>>
    /\ UNCHANGED <<display, rxVersion, mBoostOn, locals, requested, unsaved, loaded>>

\* With a stored value the driver is set; without one the driver's value is
\* stored and the driver itself is left as it is.
InitFeature ==
    /\ pc = "initFeature"
    /\ pc' = "initVersion"
    /\ \/ /\ "feature" \in saved
          /\ \E taken \in Taken :
                /\ rxFeature' = (rxFeature \ taken) \union (feature \intersect Supported \intersect taken)
                /\ apart' = Features \ taken
          /\ gated' = Features
          /\ UNCHANGED environment
       \/ /\ "feature" \notin saved
          /\ SetFeatureUenv(rxFeature \intersect Supported)
          /\ UNCHANGED <<rxFeature, apart, gated>>
    /\ UNCHANGED <<display, rxVersion, mBoostOn, locals, requested, unsaved, loaded>>

\* The ports take what the environment holds: of a version it refused nothing
\* is left.
InitVersion ==
    /\ pc = "initVersion"
    /\ pc' = "idle"
    /\ \/ /\ rxVersion' = [p \in Ports |-> GetEdidVersion(p)]
          /\ loaded' = TRUE
          /\ requested' = [p \in Ports |-> IF p \in unsaved THEN "none" ELSE requested[p]]
          /\ unsaved' = {}
       \/ DriverMayFail /\ UNCHANGED <<rxVersion, loaded, requested, unsaved>>
    /\ UNCHANGED <<display, environment, rxFeature, mBoostOn, locals, apart, gated>>

(***************************************************************************)
(* Commands                                                                *)
(***************************************************************************)
\* A function that returns, or dies, leaves its locals as Init has them (but
\* for the port, which has no such value).
Forget == version' = "14" /\ name' = "allm" /\ enable' = FALSE /\ UNCHANGED port

\* Nothing in LoadEdidData depends on mBoostOn: it only brings a reload.
SetEdidBoostOn ==
    /\ pc = "idle"
    /\ pc' = "deliver"
    /\ mBoostOn' = ~mBoostOn
    /\ UNCHANGED <<display, environment, driver, locals, history>>

SetEdidVersion(p, v) ==
    /\ pc = "idle"
    /\ \/ /\ GetEdidVersion(p) = v
          /\ requested' = [requested EXCEPT ![p] = v]
          /\ UNCHANGED <<pc, port, version>>
       \/ /\ GetEdidVersion(p) # v
          /\ pc' = "switchVersion"
          /\ port' = p
          /\ version' = v
          /\ UNCHANGED requested
    /\ UNCHANGED <<display, environment, driver, mBoostOn, name, enable, unsaved,
                   loaded, apart, gated>>

\* edidSetValue: the other ports keep what GetEdidVersion reads.
NewVersions == [p \in Ports |-> IF p = port THEN version ELSE GetEdidVersion(p)]

\* HdmiRxEdidVerSwitch.
SwitchVersion ==
    /\ pc = "switchVersion"
    /\ \/ pc' = "saveVersion" /\ rxVersion' = NewVersions /\ UNCHANGED locals
       \/ DriverMayFail /\ pc' = "idle" /\ Forget /\ UNCHANGED rxVersion
    /\ UNCHANGED <<display, environment, rxFeature, mBoostOn, history>>

SaveVersion ==
    /\ pc = "saveVersion"
    /\ pc' = "idle"
    /\ SetVersionUenv(NewVersions)
    /\ requested' = [requested EXCEPT ![port] = version]
    /\ unsaved' = IF edidVersion' = NewVersions THEN unsaved \ {port}
                  ELSE unsaved \union {port}
    /\ Forget
    /\ UNCHANGED <<display, driver, mBoostOn, loaded, apart, gated>>

\* SetHdmiAllmEnabled and SetHdmiVrrEnabled: what HDMI TX lacks is not
\* enabled, and a bit the environment already has is not written again.
SetFeature(f, on) ==
    LET e == on /\ f \in Supported
    IN  /\ pc = "idle"
        /\ "feature" \notin saved \/ (f \in feature) # e
        /\ pc' = "setFeature"
        /\ name' = f
        /\ enable' = e
        /\ SetFeatureUenv(IF e THEN feature \union {f} ELSE feature \ {f})
        /\ gated' = gated \union {f}
        /\ UNCHANGED <<display, driver, mBoostOn, port, version, requested, unsaved,
                       loaded, apart>>

\* CHDMIRxManager::SetAllmEnabled and SetVrrEnabled.
WriteFeature ==
    /\ pc = "setFeature"
    /\ pc' = "idle"
    /\ \/ /\ rxFeature' = IF enable THEN rxFeature \union {name} ELSE rxFeature \ {name}
          /\ apart' = IF enable = (name \in feature) THEN apart \ {name}
                      ELSE apart \union {name}
       \/ /\ DriverMayFail
          /\ apart' = apart \union {name}
          /\ UNCHANGED rxFeature
    /\ Forget
    /\ UNCHANGED <<display, environment, rxVersion, mBoostOn, requested, unsaved,
                   loaded, gated>>

(***************************************************************************)
(* The display on HDMI TX and the process                                  *)
(***************************************************************************)
ChangeDisplay ==
    /\ display' \in Displays \ {display}
    /\ gated' = {}
    /\ UNCHANGED <<environment, driver, mBoostOn, pc, locals, requested, unsaved,
                   loaded, apart>>

Kill ==
    /\ ServerMayDie
    /\ pc # "down"
    /\ pc' = "down"
    /\ Forget
    /\ UNCHANGED <<display, environment, driver, mBoostOn, history>>

Restart ==
    /\ pc = "down"
    /\ pc' = "start"
    /\ mBoostOn' = FALSE
    /\ loaded' = FALSE
    /\ apart' = Features
    /\ UNCHANGED <<display, environment, driver, locals, requested, unsaved, gated>>

Next ==
    \/ LoadDefaultVersion \/ DeliverEdidData \/ InitFeature \/ InitVersion
    \/ SetEdidBoostOn
    \/ \E p \in Ports, v \in Versions : SetEdidVersion(p, v)
    \/ SwitchVersion \/ SaveVersion
    \/ \E f \in Features, on \in BOOLEAN : SetFeature(f, on)
    \/ WriteFeature
    \/ ChangeDisplay \/ Kill \/ Restart

Spec == Init /\ [][Next]_vars

(***************************************************************************)
(* Properties                                                              *)
(***************************************************************************)
\* The version a client was told is set is the version the port shows, until
\* a client asks for another: setting one port never moves another, and a
\* restart brings every port back (SetEdidVersion, LoadEdidData).  A port is out
\* of it while the environment has refused its version, and the load that takes
\* that version back is out for it.  It is checked where clients ask for 2.0 and
\* auto; for 1.4 it does not hold.
EdidVersionKept ==
    pc = "idle" /\ loaded =>
        \A p \in Ports \ unsaved : requested[p] # "none" => rxVersion[p] = requested[p]

\* No input advertises a feature that the environment has off or, with the
\* display still the one that was asked, one that the display cannot show,
\* whatever crashes came before: for every feature the process has written
\* without refusal, be the writes of the other one refused or not.
FeatureGated ==
    pc = "idle" =>
        \A f \in rxFeature \ apart :
            /\ f \in feature
            /\ f \in gated => f \in Supported
=============================================================================
