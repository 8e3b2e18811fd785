---------------------------- MODULE MCUtilities -----------------------------
(* Utilities with small sets of keys, words, callers and the like. *)
EXTENDS Utilities, SequencesExt, TLC

MCThreads == {"x", "y"}
MCTokenCallers == {"x", "y", "z"}

\* Settings: values that are empty or hold a "="
MCNames   == {<<"k">>, <<"m">>}
MCStrings == {<<"a">>, <<"b">>, <<"a", "b">>, <<"">>}

MCJsonKeys   == {"k", "m"}
MCJsonValues == {1, 2}

MCContent == <<1, 2>>
MCOther   == <<3>>

\* SystemModeFile
MCModesAsked == {"DEVICE_OPTIMIZE"}
MCStates     == {<<"GAME">>}
MCCallsigns  == {<<"a">>, <<"b">>}

\* FileSearch: directories of two levels, with names that the wildcards tell apart, of which more
\* agree with a wildcard than MaxFound
FileA  == <<"a">>
FileB  == <<"b">>
FileAB == <<"a", "b">>
FileAA == <<"a", "a">>
MCTrees == {(<<>> :> top) @@ (<<FileA>> :> one) @@ (<<FileB>> :> two) @@ (<<FileAB>> :> three)
             @@ (<<FileAA>> :> <<FileA>>) @@ (<<FileA, FileB>> :> <<FileAB, FileA>>) :
             top   \in {<<FileA, FileB, FileAB, FileAA>>, <<FileAB, FileAA, FileB, FileA>>},
             one   \in {<<FileB, FileA, FileAB>>, <<FileAB, FileB>>, <<FileAB, FileA, FileB>>},
             two   \in {<<FileA, FileAB>>, <<FileAB>>},
             three \in {<<>>, <<FileA>>}}
Expressions == {FileA, FileAB, <<"*">>, <<"?">>, <<"a", "?">>, <<"*", "b">>}
MCPatterns == (SeqOf(Expressions, 2) \ {<<>>})
            \cup {<<n, p, q>> : n \in {FileA, <<"?">>}, p \in {FileB, <<"*", "b">>}, q \in {FileA, <<"?", "b">>}}
MCExclusions == {FileB}

\* PropertyFile: files of three lines, with comments and references
MCProperties == {"A", "B"}
PropertyLines == [name : MCProperties, refers : {TRUE}, value : MCProperties]
                 \cup [name : MCProperties \cup {"#"}, refers : {FALSE}, value : {"x"}]
MCContents == SeqOf(PropertyLines, 3)
MCTexts == SeqOf({"$", "A", "/"}, 2)

\* Strings
MCWords  == SeqOf({"a", " ", "|"}, 4) \cup SeqOf({"b", "-", "1"}, 3)
MCPieces == SeqOf({"a", "b", " "}, 2)
MCImages == SeqOf({0, 77, 255, 128, 3}, 4)

MCEvents   == {"e", "f"}
MCHandlers == {"g", "h"}

MCWorkers == {"v", "w"}
MCClients == {"c", "d"}

MCSecurityTokens == {"s", "t", "u"}

MCRefs        == {"p", "q", "r"}
MCRetryCounts == 0..2

\* PluginVersions: less than MaxUint8
MCCurrents == 0..2
MCMethods  == {"m", "n", "getQuirks"}
=============================================================================
