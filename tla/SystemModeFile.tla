--------------------------- MODULE SystemModeFile ---------------------------
(***************************************************************************)
(* /tmp/SystemMode.txt, a line per system mode and property, changed by    *)
(* updateSystemModeFile() in any process: the file is read as a whole,     *)
(* truncated, and written.                                                 *)
(*                                                                         *)
(* A line is its key and its value.  The value of "callsign" is a list of  *)
(* callsigns, each followed by "|", and changed as a string of letters.    *)
(* The code looks for a callsign in the key too, where none is here.       *)
(***************************************************************************)
EXTENDS Integers, SequencesExt, FiniteSetsExt

CONSTANTS
    Callers,
    ModesAsked, States, Callsigns,  \* the arguments; states and callsigns are strings of letters
    MaxLines, MaxLetters,           \* bounds of the file: its lines, and the letters of a value
    None                            \* no file, no value, no call

VARIABLES
    modeFile,  \* the lines, or None
    stage,     \* per caller "idle", "truncate" or "write"
    buffer,    \* per caller, the lines it is going to write
    lone       \* history: per caller that met no other, what it found and was asked; or None

vars == <<modeFile, stage, buffer, lone>>

Init ==
    /\ modeFile = None
    /\ stage = [c \in Callers |-> "idle"]
    /\ buffer = [c \in Callers |-> <<>>]
    /\ lone = [c \in Callers |-> None]

Requests ==
    [mode : ModesAsked, property : {"currentstate"}, action : {"add", "checkandadd", "delete"}, value : States]
    \cup [mode : ModesAsked, property : {"callsign"}, action : {"add", "checkandadd", "delete"}, value : Callsigns]
    \cup [mode : ModesAsked, property : {"currentstate", "callsign"}, action : {"deleteall"}, value : {<<>>}]

DefaultRequest == [mode |-> "DEVICE_OPTIMIZE", property |-> "currentstate", action |-> "add", value |-> <<"VIDEO">>]

\* The end of a callsign.
Delimiter == "|"

Line(r, value) == [mode |-> r.mode, property |-> r.property, value |-> value]

HasKey(line, r) == line.mode = r.mode /\ line.property = r.property

-----------------------------------------------------------------------------
(* What a request makes of the lines *)

At(part, s) == {i \in 1 .. Len(s) - Len(part) + 1 : SubSeq(s, i, i + Len(part) - 1) = part}

\* The part and the letter after it, "|" or what it is of a longer callsign.
Erase(part, s) == SubSeq(s, 1, Min(At(part, s)) - 1) \o SubSeq(s, Min(At(part, s)) + Len(part) + 1, Len(s))

\* Mutant: a callsign is added though it is there.
ChangedTwice(line, r) ==
    CASE r.action = "deleteall" -> <<>>
      [] r.property = "currentstate" /\ r.action \in {"add", "checkandadd"} -> <<Line(r, r.value)>>
      [] r.property = "currentstate" /\ r.action = "delete" -> <<>>
      [] r.property = "callsign" /\ r.action = "add" -> <<Line(r, line.value \o r.value \o <<Delimiter>>)>>
      [] r.property = "callsign" /\ r.action = "delete" /\ At(r.value, line.value) # {} ->
            <<Line(r, Erase(r.value, line.value))>>
      [] OTHER -> <<line>>

\* The line that takes the place of a line with the key, or none.
Changed(line, r) ==
    CASE r.action = "deleteall" -> <<>>
      [] r.property = "currentstate" /\ r.action \in {"add", "checkandadd"} -> <<Line(r, r.value)>>
      [] r.property = "currentstate" /\ r.action = "delete" -> <<>>
      [] r.property = "callsign" /\ r.action = "add" /\ At(r.value, line.value) = {} ->
            <<Line(r, line.value \o r.value \o <<Delimiter>>)>>
      [] r.property = "callsign" /\ r.action = "delete" /\ At(r.value, line.value) # {} ->
            <<Line(r, Erase(r.value, line.value))>>
      [] OTHER -> <<line>>

Update(old, r) ==
    LET has   == \E i \in DOMAIN old : HasKey(old[i], r)
        new   == IF r.property = "callsign" THEN r.value \o <<Delimiter>> ELSE r.value
    IN  FlattenSeq([i \in DOMAIN old |-> IF HasKey(old[i], r) THEN Changed(old[i], r) ELSE <<old[i]>>])
        \o (IF ~has /\ r.action \in {"add", "checkandadd"} THEN <<Line(r, new)>> ELSE <<>>)

\* The value, or None where the property has no line.
getSystemModePropertyValue(lines, mode, property) ==
    LET i == SelectInSeq(lines, LAMBDA l : l.mode = mode /\ l.property = property)
    IN  IF i = 0 THEN None ELSE lines[i].value

-----------------------------------------------------------------------------
(* The steps of updateSystemModeFile() *)

\* Without a file one is made, with a default that a call of its own adds.  The stream that the
\* lines are read from is not opened again, so the default is not among them.
Read(c, r) ==
    /\ stage[c] = "idle"
    /\ stage' = [stage EXCEPT ![c] = "truncate"]
    /\ modeFile' = IF modeFile = None THEN Update(<<>>, DefaultRequest) ELSE modeFile
    /\ buffer' = [buffer EXCEPT ![c] = Update(IF modeFile = None THEN <<>> ELSE modeFile, r)]
    /\ lone' = IF \A d \in Callers : stage[d] = "idle"
               THEN [lone EXCEPT ![c] = <<IF modeFile = None THEN <<>> ELSE modeFile, r>>]
               ELSE [d \in Callers |-> None]
    /\ Len(buffer'[c]) <= MaxLines
    /\ \A i \in DOMAIN buffer'[c] : Len(buffer'[c][i].value) <= MaxLetters

Truncate(c) ==
    /\ stage[c] = "truncate"
    /\ stage' = [stage EXCEPT ![c] = "write"]
    /\ modeFile' = <<>>
    /\ UNCHANGED <<buffer, lone>>

\* Over what another caller has written meanwhile, whose last lines may stay.
Write(c) ==
    /\ stage[c] = "write"
    /\ stage' = [stage EXCEPT ![c] = "idle"]
    /\ modeFile' = buffer[c] \o SubSeq(modeFile, Len(buffer[c]) + 1, Len(modeFile))
    /\ buffer' = [buffer EXCEPT ![c] = <<>>]
    /\ lone' = [lone EXCEPT ![c] = None]

\* The file does not open, or the caller's process dies.
GiveUp(c) ==
    /\ stage[c] # "idle"
    /\ stage' = [stage EXCEPT ![c] = "idle"]
    /\ buffer' = [buffer EXCEPT ![c] = <<>>]
    /\ lone' = [lone EXCEPT ![c] = None]
    /\ UNCHANGED modeFile

Next ==
    \E c \in Callers :
       \/ \E r \in Requests : Read(c, r)
       \/ Truncate(c) \/ Write(c) \/ GiveUp(c)

Spec == Init /\ [][Next]_vars

-----------------------------------------------------------------------------
(* Properties *)

Listed(value) ==
    IF value = None THEN {}
    ELSE {x \in Callsigns : At(<<Delimiter>> \o x \o <<Delimiter>>, <<Delimiter>> \o value) # {}}

\* Every callsign is ended, and the one that is asked for is not a part of another and not there
\* twice: what is left of another after a part of it is erased may be that callsign again.
Apart(x, value) == value \notin {None, <<>>} =>
    LET v == <<Delimiter>> \o value
    IN  /\ Last(v) = Delimiter
        /\ \A i, j \in At(x, v) : i = j
        /\ \A i \in At(x, v) : v[i - 1] = Delimiter /\ v[i + Len(x)] = Delimiter

Asked(r, value) ==
    CASE r.action = "add"         -> Listed(value) \cup {r.value}
      [] r.action = "checkandadd" -> IF value = None THEN {r.value} ELSE Listed(value)
      [] r.action = "delete"      -> Listed(value) \ {r.value}
      [] r.action = "deleteall"   -> {}

\* A call that meets no other one does what it was asked and nothing else: the value of every
\* other property stays, a state is set or gone, and callsigns are a set, with the one that was asked
\* for in it once at most, unless one is or was part of another.  This holds from any file that calls
\* which overlapped, or died, have left.
LoneUpdateExact ==
    \A c \in Callers : stage[c] = "write" /\ lone[c] # None =>
        LET old == lone[c][1]
            r   == lone[c][2]
            was(m, p) == getSystemModePropertyValue(old, m, p)
            is(m, p)  == getSystemModePropertyValue(buffer[c], m, p)
        IN  /\ modeFile = <<>>
            /\ \A m \in ModesAsked, p \in {"currentstate", "callsign"} :
                  <<m, p>> # <<r.mode, r.property>> => is(m, p) = was(m, p)
            /\ r.property = "currentstate" =>
                  is(r.mode, "currentstate") = IF r.action \in {"add", "checkandadd"} THEN r.value ELSE None
            /\ r.property = "callsign" /\ (r.value = <<>> \/ Apart(r.value, was(r.mode, "callsign"))) =>
                  /\ Listed(is(r.mode, "callsign")) = Asked(r, was(r.mode, "callsign"))
                  /\ Apart(r.value, is(r.mode, "callsign"))
=============================================================================
