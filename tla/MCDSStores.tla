----------------------------- MODULE MCDSStores -----------------------------
(* DSStores with a device of two outputs and an input, whose answer names a   *)
(* resolution twice, and one of fewer ports.                                  *)
EXTENDS DSStores

Name(word, spelt) == [word |-> word, index |-> NoIndex, spelt |-> spelt]
Port(type, index) == [type |-> type, index |-> index]
Res(name, mode) == [name |-> name, mode |-> mode]

MCVideoTypes == {"HDMI", "HDMI_INPUT", "INTERNAL", "UNLISTED"}
MCAudioTypes == {"HDMI", "SPEAKER", "HDMIARC"}

Television ==
    [types |-> <<[typeId |-> "INTERNAL", name |-> Name("Internal", "other")],
                 [typeId |-> "HDMI", name |-> Name("HDMI", "exact")]>>,
     ports |-> <<Port("HDMI_INPUT", 0), Port("INTERNAL", 0), Port("HDMI", 0)>>,
     resolutions |-> <<Res("720p", 1), Res("720p", 2)>>,
     audioPorts |-> <<Port("HDMIARC", 0), Port("SPEAKER", 0), Port("HDMI", 0)>>,
     devices |-> 1]

SetTopBox ==
    [types |-> <<[typeId |-> "HDMI", name |-> Name("HDMI", "exact")]>>,
     ports |-> <<Port("HDMI", 1), Port("UNLISTED", 0), Port("HDMI", 0)>>,
     resolutions |-> <<Res("720p", 1), Res("1080p", 1)>>,
     audioPorts |-> <<Port("HDMI", 0)>>,
     devices |-> 2]

MCConfigs == {Television, SetTopBox}
MCTypeAnswers == {<<Res("1080p", 2)>>, <<Res("1080p", 1), Res("720p", 2), Res("1080p", 2)>>}
=============================================================================
