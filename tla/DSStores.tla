------------------------------ MODULE DSStores ------------------------------
(***************************************************************************)
(* What is in DSHelper's config stores and handle maps: port types and     *)
(* ports, resolutions per type and as one flat list, and the names that    *)
(* ports and handles are found under.                                      *)
(*                                                                         *)
(* Every critical section of _configMutex is one action; what it commits   *)
(* was fetched before.  Which threads do so, and how a fetch fails on its  *)
(* way, is modelled by DSConfig.  The front panel store is a plain copy of *)
(* the answer and left out; a handle is represented by its being there.    *)
(***************************************************************************)
EXTENDS Integers, SequencesExt

CONSTANTS
    VideoTypes, AudioTypes, Indexes,   \* port types and indexes
    ResolutionNames, Modes,            \* a resolution's name (up to case), and the rest of it
    Configs,                           \* what GetDeviceSettingConfigs() may answer
    TypeAnswers                        \* what GetVideoPortResolutionConfig() may answer

Resolutions == [name : ResolutionNames, mode : Modes]

NamesOf(list) == {list[i].name : i \in DOMAIN list}

-----------------------------------------------------------------------------
(* Names.  Two spellings of a word stand for all: as the code spells it, and *)
(* in other letters.  A type's name has no index.  UNLISTED stands for a     *)
(* type that the switches do not list; of such types there is at most one,   *)
(* two would have one name.                                                  *)

NoIndex == -1
NoEntry == [type |-> "none", index |-> NoIndex]
NoName  == [word |-> "", index |-> NoIndex, spelt |-> "exact"]

VideoWord == [RF |-> "RF", BB |-> "Baseband", SVIDEO |-> "SVideo", T1394 |-> "1394",
              DVI |-> "DVI", COMPONENT |-> "Component", HDMI |-> "HDMI",
              HDMI_INPUT |-> "HDMIInput", INTERNAL |-> "Internal", UNLISTED |-> "VIDEO"]

AudioWord == [HDMI |-> "HDMI", SPDIF |-> "SPDIF", LR |-> "IDLR", SPEAKER |-> "SPEAKER",
              HDMIARC |-> "HDMI_ARC", HEADPHONE |-> "HEADPHONE", UNLISTED |-> "AUDIO"]

Words == {VideoWord[t] : t \in DOMAIN VideoWord} \cup {AudioWord[t] : t \in DOMAIN AudioWord}

Names == [word : Words, index : Indexes \cup {NoIndex}, spelt : {"exact", "other"}]

\* Mutant: an input is named like an output.
getVideoPortNameShort(type, index) ==
    [word |-> VideoWord[IF type = "HDMI_INPUT" THEN "HDMI" ELSE type], index |-> index, spelt |-> "exact"]

getVideoPortName(type, index) == [word |-> VideoWord[type], index |-> index, spelt |-> "exact"]

getAudioPortName(type, index) == [word |-> AudioWord[type], index |-> index, spelt |-> "exact"]

EqualsIgnoreCase(a, b) == a.word = b.word /\ a.index = b.index

ASSUME StoresAssumption ==
    /\ VideoTypes \subseteq DOMAIN VideoWord
    /\ AudioTypes \subseteq DOMAIN AudioWord
    /\ Indexes \subseteq Nat
    /\ \A c \in Configs :
          /\ c.types \in Seq([typeId : VideoTypes, name : Names])
          /\ c.ports \in Seq([type : VideoTypes, index : Indexes])
          /\ c.resolutions \in Seq(Resolutions)
          /\ c.audioPorts \in Seq([type : AudioTypes, index : Indexes])
          /\ c.devices \in Nat
    /\ TypeAnswers \subseteq Seq(Resolutions)

VARIABLES
    types, ports,       \* _vpConfigStore.typeConfigs and portConfigs
    resolutionsByType,  \* _vpConfigStore.resolutionsByType, <<>> for a type that is not there
    resolutions,        \* _vpConfigStore.resolutions, the flat list
    audioPorts,         \* _audioConfigStore.portConfigs
    devices,            \* _vdConfigStore: the number of devices
    videoHandles, audioHandles,  \* the names that _videoPortHandles and _audioPortHandles have
    deviceHandles,      \* _videoDeviceHandles: per device, TRUE if the handle was acquired
    loaded,             \* _configLoaded
    filed, stored       \* history: the list that the last load brought, the names stored since

vpVars == <<types, ports, resolutionsByType, resolutions, filed, stored>>
vars   == <<vpVars, audioPorts, devices, videoHandles, audioHandles, deviceHandles, loaded>>

TypeOK ==
    /\ types \in Seq([typeId : VideoTypes, name : Names])
    /\ ports \in Seq([type : VideoTypes, index : Indexes])
    /\ resolutionsByType \in [VideoTypes -> Seq(Resolutions)]
    /\ resolutions \in Seq(Resolutions)
    /\ filed \in Seq(Resolutions)
    /\ stored \subseteq ResolutionNames
    /\ audioPorts \in Seq([type : AudioTypes, index : Indexes])
    /\ devices \in Nat
    /\ videoHandles \subseteq Names
    /\ audioHandles \subseteq Names
    /\ deviceHandles \in Seq(BOOLEAN)
    /\ loaded \in BOOLEAN

VideoNames(s) == {getVideoPortName(s[i].type, s[i].index) : i \in DOMAIN s}
AudioNames(s) == {getAudioPortName(s[i].type, s[i].index) : i \in DOMAIN s}

NoResolutions == [t \in VideoTypes |-> <<>>]

Init ==
    /\ types = <<>> /\ ports = <<>>
    /\ resolutionsByType = NoResolutions /\ resolutions = <<>>
    /\ filed = <<>> /\ stored = {}
    /\ audioPorts = <<>> /\ devices = 0
    /\ videoHandles = {} /\ audioHandles = {} /\ deviceHandles = <<>>
    /\ loaded = FALSE

-----------------------------------------------------------------------------
(* The accessors that look something up *)

\* The name of a type, or of none if the answer describes no such type.
TypeName(type) ==
    LET i == SelectInSeq(types, LAMBDA c : c.typeId = type)
    IN  IF i = 0 THEN NoName ELSE types[i].name

\* A request names a port, or a type and then its port 0.
Matches(p, request) ==
    \/ EqualsIgnoreCase(getVideoPortName(p.type, p.index), request)
    \/ p.index = 0 /\ TypeName(p.type) # NoName /\ EqualsIgnoreCase(TypeName(p.type), request)

ResolveByName(request) ==
    LET i == SelectInSeq(ports, LAMBDA p : Matches(p, request))
    IN  IF i = 0 THEN NoEntry ELSE ports[i]

\* The port that GetDefaultResolution() and GetConnectedAudioPort() read.
PortNamed(name) ==
    LET i == SelectInSeq(ports, LAMBDA p : EqualsIgnoreCase(getVideoPortName(p.type, p.index), name))
    IN  IF i = 0 THEN NoEntry ELSE ports[i]

\* Mutant: the built-in display goes before HDMI.
GetDefaultVideoPortNameInternal ==
    LET at(t) == SelectInSeq(ports, LAMBDA p : p.type = t /\ p.index = 0)
        i     == IF at("INTERNAL") # 0 THEN at("INTERNAL") ELSE IF at("HDMI") # 0 THEN at("HDMI") ELSE 1
    IN  IF ports = <<>> THEN getVideoPortName("HDMI", 0) ELSE getVideoPortName(ports[i].type, ports[i].index)

GetDefaultVideoPortName ==
    LET at(t) == SelectInSeq(ports, LAMBDA p : p.type = t /\ p.index = 0)
        i     == IF at("HDMI") # 0 THEN at("HDMI") ELSE IF at("INTERNAL") # 0 THEN at("INTERNAL") ELSE 1
    IN  IF ports = <<>> THEN getVideoPortName("HDMI", 0) ELSE getVideoPortName(ports[i].type, ports[i].index)

IsHDMIOutPortPresent == getAudioPortName("HDMI", 0) \in AudioNames(audioPorts)

GetDefaultAudioPortName ==
    LET i == SelectInSeq(audioPorts, LAMBDA p : p.type \in {"HDMI", "SPEAKER"} /\ p.index = 0)
    IN  IF audioPorts = <<>> THEN getAudioPortName("HDMI", 0)
        ELSE getAudioPortName(audioPorts[IF i = 0 THEN 1 ELSE i].type, audioPorts[IF i = 0 THEN 1 ELSE i].index)

\* The handle maps compare names as they are spelt; connected says which of the display, the ARC
\* input and the headphone jack behind the port DeviceSettings reports as connected.
isAudioOutputPortConnected(name, connected) ==
    /\ name \in audioHandles
    /\ CASE name.word = "HDMI"      -> name \in videoHandles /\ "display" \in connected
         [] name.word = "HDMI_ARC"  -> "input" \in connected
         [] name.word = "HEADPHONE" -> "jack" \in connected
         [] OTHER                   -> TRUE

getCachedVideoDeviceHandle(index) ==
    index >= 0 /\ index < Len(deviceHandles) /\ deviceHandles[index + 1]

-----------------------------------------------------------------------------
(* Loading *)

\* GetDeviceSettingConfigs() has answered c: its resolutions, as they come, are the flat list
\* and the list of the first type.
BuildVideoPorts(c) ==
    LET list == IF c.types = <<>> THEN <<>> ELSE c.resolutions
    IN  /\ types' = c.types
        /\ ports' = c.ports
        /\ resolutions' = list
        /\ resolutionsByType' = [t \in VideoTypes |->
              IF c.types # <<>> /\ t = c.types[1].typeId THEN list ELSE <<>>]
        /\ filed' = list /\ stored' = {}

\* LoadAllConfigs() has the answer c and handles for some of the ports; a device whose handle
\* call failed has a place without a handle, and there are no places without the sub-interface.
LoadAllConfigs(c) ==
    /\ ~loaded
    /\ BuildVideoPorts(c)
    /\ audioPorts' = c.audioPorts
    /\ devices' = c.devices
    /\ videoHandles' \in SUBSET VideoNames(c.ports)
    /\ audioHandles' \in SUBSET AudioNames(c.audioPorts)
    /\ deviceHandles' \in [1 .. c.devices -> BOOLEAN] \cup {<<>>}
    /\ loaded' = TRUE

\* Mutant: the handles of ports that are gone stay.
ReloadAudioConfigsMerges(c) ==
    /\ audioPorts' = c.audioPorts
    /\ \E got \in SUBSET AudioNames(c.audioPorts) :
          /\ got # {}
          /\ audioHandles' = audioHandles \cup got
    /\ UNCHANGED <<vpVars, devices, videoHandles, deviceHandles, loaded>>

\* ReloadAudioConfigs() commits only with at least one handle.
ReloadAudioConfigs(c) ==
    /\ audioPorts' = c.audioPorts
    /\ audioHandles' \in SUBSET AudioNames(c.audioPorts) \ {{}}
    /\ UNCHANGED <<vpVars, devices, videoHandles, deviceHandles, loaded>>

\* The positions in list of the first resolution of each name that known lacks, in order.
NewIn(list, known) ==
    LET new == {i \in DOMAIN list : /\ list[i].name \notin NamesOf(known)
                                    /\ \A j \in 1 .. i - 1 : list[j].name # list[i].name}
    IN  {s \in BoundedSeq(new, Len(list)) :
            Range(s) = new /\ \A i, j \in DOMAIN s : i < j => s[i] < s[j]}

\* Mutant: the list is compared with what is filed under the type, not with the flat list.
StoreResolutionsByType(type, list) ==
    /\ resolutionsByType' = [resolutionsByType EXCEPT ![type] = list]
    /\ \E new \in NewIn(list, resolutionsByType[type]) :
          resolutions' = resolutions \o [k \in DOMAIN new |-> list[new[k]]]
    /\ stored' = stored \cup NamesOf(list)
    /\ UNCHANGED <<types, ports, filed, audioPorts, devices, videoHandles, audioHandles,
                   deviceHandles, loaded>>

\* LoadVideoPortResolutionConfig() has answered and the client stores the list for the type.
\* Of each name that the flat list lacks, the first resolution is appended to it.
storeVideoPortResolutionsForType(type, list) ==
    /\ resolutionsByType' = [resolutionsByType EXCEPT ![type] = list]
    /\ \E new \in NewIn(list, resolutions) :
          resolutions' = resolutions \o [k \in DOMAIN new |-> list[new[k]]]
    /\ stored' = stored \cup NamesOf(list)
    /\ UNCHANGED <<types, ports, filed, audioPorts, devices, videoHandles, audioHandles,
                   deviceHandles, loaded>>

-----------------------------------------------------------------------------
(* Operational() *)

Activated ==
    /\ loaded' = FALSE
    /\ videoHandles' = {} /\ audioHandles' = {} /\ deviceHandles' = <<>>
    /\ UNCHANGED <<vpVars, audioPorts, devices>>

\* Mutant: the device handles are forgotten.
DeactivatedKeepsDevices ==
    /\ types' = <<>> /\ ports' = <<>>
    /\ resolutionsByType' = NoResolutions /\ resolutions' = <<>>
    /\ filed' = <<>> /\ stored' = {}
    /\ audioPorts' = <<>> /\ devices' = 0
    /\ videoHandles' = {} /\ audioHandles' = {}
    /\ loaded' = FALSE
    /\ UNCHANGED deviceHandles

Deactivated ==
    /\ types' = <<>> /\ ports' = <<>>
    /\ resolutionsByType' = NoResolutions /\ resolutions' = <<>>
    /\ filed' = <<>> /\ stored' = {}
    /\ audioPorts' = <<>> /\ devices' = 0
    /\ videoHandles' = {} /\ audioHandles' = {} /\ deviceHandles' = <<>>
    /\ loaded' = FALSE

Next ==
    \/ \E c \in Configs : LoadAllConfigs(c) \/ ReloadAudioConfigs(c)
    \/ \E t \in VideoTypes, list \in TypeAnswers : storeVideoPortResolutionsForType(t, list)
    \/ Activated
    \/ Deactivated

Spec == Init /\ [][Next]_vars

-----------------------------------------------------------------------------
(* Properties *)

\* getVideoPortResolutions() gives the list that the last load brought, followed by what was
\* stored for types since: it has the names of both and no other, those of every type among
\* them, and what was stored adds no name that was there.  A list may only repeat a name if the
\* load brought it so.
ResolutionsUnited ==
    /\ NamesOf(resolutions) = NamesOf(filed) \cup stored
    /\ \A t \in VideoTypes : NamesOf(resolutionsByType[t]) \subseteq NamesOf(resolutions)
    /\ IsPrefix(filed, resolutions)
    /\ \A i, j \in DOMAIN resolutions :
          i < j /\ resolutions[i].name = resolutions[j].name => j <= Len(filed)

\* Over loads, reloads of audio alone and resets, a handle is kept only under the name of a
\* port that the stores list, and device handles are numbered as the devices are.
HandlesOfPorts ==
    /\ videoHandles \subseteq VideoNames(ports)
    /\ audioHandles \subseteq AudioNames(audioPorts)
    /\ \A i \in 0 .. Len(deviceHandles) : getCachedVideoDeviceHandle(i) => i < devices

\* Whichever way a client asks for a port, by its name or its type's, in any case: looking up
\* the name that resolveVideoPortByName() returns finds the same port again.
NamesAgree ==
    \A request \in Names : ResolveByName(request) # NoEntry =>
        LET e == ResolveByName(request)
        IN  PortNamed(getVideoPortName(e.type, e.index)) = e

\* The names that clients get as defaults are of ports in the config, of HDMI0 if there is one
\* (or, for audio, of the built-in speaker before it).
DefaultsListed ==
    /\ ports # <<>> => PortNamed(GetDefaultVideoPortName) # NoEntry
    /\ [type |-> "HDMI", index |-> 0] \in Range(ports) =>
          GetDefaultVideoPortName = getVideoPortName("HDMI", 0)
    /\ audioPorts # <<>> => GetDefaultAudioPortName \in AudioNames(audioPorts)
    /\ IsHDMIOutPortPresent =>
          GetDefaultAudioPortName \in {getAudioPortName("HDMI", 0), getAudioPortName("SPEAKER", 0)}

\* A port that counts as connected is in the audio config, and an HDMI output's display is that
\* of the video output with its index: handles outlive neither config.
ConnectedIsConfigured ==
    \A i \in Indexes, t \in AudioTypes :
        isAudioOutputPortConnected(getAudioPortName(t, i), {"display", "input", "jack"}) =>
            /\ [type |-> t, index |-> i] \in Range(audioPorts)
            /\ t = "HDMI" => [type |-> "HDMI", index |-> i] \in Range(ports)
=============================================================================
