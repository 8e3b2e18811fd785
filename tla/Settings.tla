------------------------------ MODULE Settings ------------------------------
(***************************************************************************)
(* cSettings: keys and values in memory and, a line for each, in a file    *)
(* that every change truncates and writes anew.  The process may die       *)
(* between two lines, and once the disk is full no more are written.       *)
(*                                                                         *)
(* A string is the sequence of its parts between "=" signs, so "k=v" is    *)
(* the key's parts followed by the value's, and <<"">> is the empty one.   *)
(***************************************************************************)
EXTENDS Integers, SequencesExt

CONSTANTS
    Keys, Values,  \* what the plugin sets; a key has no "=", a value may
    None           \* no file, no write under way, no value that was saved

VARIABLES
    settings,  \* data, while the plugin runs
    lines,     \* the lines of the file, or None
    unwritten, \* the lines that writeToFile() has still to write, or None
    alive,     \* the plugin runs and has its cSettings
    kept,      \* history: per key the value that the last change of it has saved, or None
    lost       \* history: the keys whose line a later write has left out, or a start cannot read

vars == <<settings, lines, unwritten, alive, kept, lost>>

NoValue == <<"">>
NoData == [k \in {} |-> NoValue]

Init ==
    /\ settings = NoData /\ lines = None /\ unwritten = None /\ alive = FALSE
    /\ kept = [k \in Keys |-> None] /\ lost = {}

Put(data, k, v) == [key \in DOMAIN data \cup {k} |-> IF key = k THEN v ELSE data[key]]

\* What a key that is not there has is a JSON null, which reads as this.
getValue(k) == IF k \in DOMAIN settings THEN settings[k] ELSE <<"null">>

contains(k) == k \in DOMAIN settings /\ settings[k] # NoValue

\* Of several lines with one key any may be the last.
readFromFile(content) ==
    {data \in [{Front(l) : l \in content} -> {<<Last(l)>> : l \in content}] :
        \A k \in DOMAIN data : k \o data[k] \in content}

-----------------------------------------------------------------------------
(* The constructor, in a plugin that starts *)

\* The line of a value with "=" is read as that of a longer key.
Parted == {k \in Keys : kept[k] # None /\ Len(kept[k]) > 1}

Construct ==
    /\ ~alive
    /\ alive' = TRUE
    /\ \/ /\ lines # None /\ settings' \in readFromFile(lines) /\ lines' = lines
          /\ lost' = Parted \cup {k \in lost : kept[k] # None /\ k \o kept[k] \notin lines}
       \/ /\ lines = None /\ settings' = NoData /\ lines' = {}
          /\ lost' = lost
       \/ /\ settings' = NoData /\ lines' = lines  \* it cannot be opened
          /\ lost' = Keys
    /\ UNCHANGED <<unwritten, kept>>

-----------------------------------------------------------------------------
(* Changes, each with the writeToFile() that it ends with *)

NotEmpty(data) == {k \in DOMAIN data : data[k] # NoValue}

\* A removed key is as good as saved when the file is empty, another one when its line is written.
Saving(data, k) == [kept EXCEPT ![k] = IF k \in NotEmpty(data) THEN None ELSE NoValue]

\* A file that is not there or does not open is left alone.
NotSaved(k) ==
    /\ kept' = [kept EXCEPT ![k] = None]
    /\ UNCHANGED <<lines, unwritten>>

\* Mutant: the file is opened to append.
writeToFileAppends(data, k) ==
    \/ /\ lines # None
       /\ unwritten' = {key \o data[key] : key \in NotEmpty(data)}
      
       /\ kept' = Saving(data, k)
       /\ UNCHANGED lines
    \/ NotSaved(k)

\* The file is truncated.
writeToFile(data, k) ==
    \/ /\ lines # None
       /\ lines' = {}
       /\ unwritten' = {key \o data[key] : key \in NotEmpty(data)}
      
       /\ kept' = Saving(data, k)
    \/ NotSaved(k)

setValue(k, v) ==
    /\ alive /\ unwritten = None
    /\ settings' = Put(settings, k, v)
    /\ writeToFile(settings', k)
    /\ UNCHANGED <<alive, lost>>

\* Remove() may leave the empty value that remove() has set before.
remove(k) ==
    /\ alive /\ unwritten = None
    /\ settings' \in {Put(settings, k, NoValue), [key \in DOMAIN settings \ {k} |-> settings[key]]}
    /\ writeToFile(settings', k)
    /\ UNCHANGED <<alive, lost>>

KeysOf(S) == {k \in Keys \cap DOMAIN settings : k \o settings[k] \in S}

WriteLine(l) ==
    /\ unwritten # None /\ l \in unwritten
    /\ lines' = lines \cup {l}
    /\ unwritten' = unwritten \ {l}
    /\ kept' = [k \in Keys |-> IF k \in KeysOf({l}) THEN settings[k] ELSE kept[k]]
    /\ lost' = lost \ KeysOf({l})
    /\ UNCHANGED <<settings, alive>>

\* A stream that has failed writes nothing more, and writeToFile() does not look.
WriteFails ==
    /\ unwritten \notin {None, {}}
    /\ unwritten' = {}
    /\ lost' = lost \cup KeysOf(unwritten)
    /\ UNCHANGED <<settings, lines, alive, kept>>

WriteEnds ==
    /\ unwritten = {}
    /\ unwritten' = None
    /\ UNCHANGED <<settings, lines, alive, kept, lost>>

-----------------------------------------------------------------------------

Dies ==
    /\ alive
    /\ alive' = FALSE /\ settings' = NoData /\ unwritten' = None
    /\ lost' = IF unwritten = None THEN lost ELSE lost \cup KeysOf(unwritten)
    /\ UNCHANGED <<lines, kept>>

\* "a fresh partition"
FreshPartition ==
    /\ ~alive
    /\ lines' = None
    /\ kept' = [k \in Keys |-> None] /\ lost' = {}
    /\ UNCHANGED <<settings, unwritten, alive>>

Next ==
    \/ Construct
    \/ \E k \in Keys : remove(k) \/ \E v \in Values : setValue(k, v)
    \/ unwritten # None /\ \E l \in unwritten : WriteLine(l)
    \/ WriteFails
    \/ WriteEnds
    \/ Dies
    \/ FreshPartition

Spec == Init /\ [][Next]_vars

-----------------------------------------------------------------------------

\* What the last change of a key has saved is read, over restarts and whatever becomes of changes of
\* other keys.  A key may only be gone, and only if a later write was cut short before its line, if
\* the file could not be read at the start, or if its value has a "=": it never reads an older value
\* or one that was removed.
SavedIsRead ==
    alive => \A k \in Keys : kept[k] # None =>
        \/ contains(k) /\ getValue(k) = kept[k]
        \/ ~contains(k) /\ (kept[k] = NoValue \/ k \in lost)
=============================================================================
