------------------------------ MODULE Strings -------------------------------
(***************************************************************************)
(* The helpers that take strings apart and put them together, as functions *)
(* of sequences of letters, and imageEncoder(), of sequences of bytes.     *)
(* Each is translated with its loop as a fold, and compared with what the  *)
(* result has to be, said without a loop.                                  *)
(***************************************************************************)
EXTENDS Integers, SequencesExt

CONSTANTS
    Words,  \* sequences of letters, "|" for the end of a line among them
    Parts,  \* what is replaced, and by what
    Images  \* sequences of bytes

VARIABLES word, old, new, image  \* the arguments of a call

vars == <<word, old, new, image>>

Digits == {"0", "1"}
Pad    == 64  \* "=", next to the 64 letters of the code

-----------------------------------------------------------------------------
(* The functions *)

\* The pieces between delimiters; at least one, and an empty one at an end that is a delimiter.
split(s, delimiter) ==
    LET step(pieces, x) == IF x = delimiter THEN Append(pieces, <<>>)
                           ELSE Append(Front(pieces), Append(Last(pieces), x))
    IN  FoldLeft(step, <<<<>>>>, s)

\* The last piece of an input that is not empty.
getLastLine(s) ==
    LET lines == split(s, "|")
        last  == SelectLastInSeq(lines, LAMBDA l : l # <<>>)
    IN  IF last = 0 THEN <<>> ELSE lines[last]

\* Mutant: only the first occurrence is replaced.
replaceStringOnce(s, from, to) ==
    LET at[i \in Nat] ==
          IF i > Len(s) THEN <<>>
          ELSE IF i + Len(from) - 1 <= Len(s) /\ SubSeq(s, i, i + Len(from) - 1) = from
               THEN to \o SubSeq(s, i + Len(from), Len(s))
          ELSE <<s[i]>> \o at[i + 1]
    IN  IF from = <<>> THEN s ELSE at[1]

\* From left to right, and never in what was put in.
replaceString(s, from, to) ==
    LET at[i \in Nat] ==
          IF i > Len(s) THEN <<>>
          ELSE IF i + Len(from) - 1 <= Len(s) /\ SubSeq(s, i, i + Len(from) - 1) = from
               THEN to \o at[i + Len(from)]
          ELSE <<s[i]>> \o at[i + 1]
    IN  IF from = <<>> THEN s ELSE at[1]

\* Appended to out_str, which is empty.
removeExtraWhitespaces(s) ==
    LET step(out, x) == IF x = " " /\ out # <<>> /\ Last(out) = " " THEN out ELSE Append(out, x)
    IN  FoldLeft(step, <<>>, s)

\* The loop looks at one letter at least, so that neither "" nor "-" is an integer.
isValidInt(s) ==
    LET digits == IF s # <<>> /\ s[1] = "-" THEN Tail(s) ELSE s
    IN  digits # <<>> /\ ToSet(digits) \subseteq Digits

\* Six bits a letter: state counts the letters of a group, and lastStuff keeps the bits that are left.
imageEncoder(object, padding) ==
    LET step(e, byte) ==
          CASE e.state = 0 -> [state |-> 1, lastStuff |-> (byte % 4) * 16, result |-> Append(e.result, byte \div 4)]
            [] e.state = 1 -> [state |-> 2, lastStuff |-> (byte % 16) * 4,
                               result |-> Append(e.result, byte \div 16 + e.lastStuff)]
            [] e.state = 2 -> [state |-> 0, lastStuff |-> e.lastStuff,
                               result |-> e.result \o <<byte \div 64 + e.lastStuff, byte % 64>>]
        end == FoldLeft(step, [state |-> 0, lastStuff |-> 0, result |-> <<>>], object)
    IN  IF end.state = 0 THEN end.result
        ELSE Append(end.result, end.lastStuff)
             \o (IF ~padding THEN <<>> ELSE IF end.state = 1 THEN <<Pad, Pad>> ELSE <<Pad>>)

-----------------------------------------------------------------------------

Init == word = <<>> /\ old = <<>> /\ new = <<>> /\ image = <<>>

Call ==
    /\ vars = <<<<>>, <<>>, <<>>, <<>>>>
    /\ \/ word' \in Words /\ old' \in Parts /\ new' \in Parts /\ UNCHANGED image
       \/ image' \in Images /\ UNCHANGED <<word, old, new>>

Return == word' = <<>> /\ old' = <<>> /\ new' = <<>> /\ image' = <<>>

Next == Call \/ Return

Spec == Init /\ [][Next]_vars

-----------------------------------------------------------------------------

Joined(pieces, by) == FlattenSeq([i \in DOMAIN pieces |-> IF i = 1 THEN pieces[i] ELSE by \o pieces[i]])

Powers == <<1, 2, 4, 8, 16, 32, 64, 128>>

\* The bits of a sequence of numbers, most significant first.
Bits(numbers, width) ==
    [i \in 1 .. Len(numbers) * width |->
        (numbers[(i - 1) \div width + 1] \div Powers[width - ((i - 1) % width)]) % 2]

Padded(bits, length) == [i \in 1 .. length |-> IF i <= Len(bits) THEN bits[i] ELSE 0]

\* t is what stays of s without the spaces that follow one: at tells where each letter was.
OneSpaceEach(s, t) ==
    LET kept == {i \in DOMAIN s : ~ (s[i] = " " /\ i > 1 /\ s[i - 1] = " ")}
    IN  \E at \in [DOMAIN t -> kept] :
           /\ Range(at) = kept
           /\ \A j, k \in DOMAIN t : j < k => at[j] < at[k]
           /\ \A j \in DOMAIN t : t[j] = s[at[j]]

\* The pieces of a string have no delimiter and join to it again.
PiecesJoin ==
    \A d \in {" ", "|"} :
       /\ Joined(split(word, d), <<d>>) = word
       /\ \A piece \in Range(split(word, d)) : d \notin Range(piece)

\* The last line is between two ends of lines, and more of these are all that follows it.
LastLineFound ==
    \E first \in 1 .. Len(word) + 1, last \in 0 .. Len(word) :
       /\ getLastLine(word) = SubSeq(word, first, last)
       /\ \A i \in first .. last : word[i] # "|"
       /\ \A i \in last + 1 .. Len(word) : word[i] = "|"
       /\ first > 1 => word[first - 1] = "|"
       /\ last > 0 => first <= last

\* A replacement leaves nothing to replace, and the one back undoes it if what is put in is new to the string.
ReplacementUndone ==
    old # <<>> /\ new # <<>> /\ Range(new) \cap (Range(word) \cup Range(old)) = {} =>
       /\ old \notin SubSeqs(replaceString(word, old, new))
       /\ replaceString(replaceString(word, old, new), new, old) = word

\* An integer ends with a digit and has a sign in front only.
IntegersSigned == isValidInt(word) => Last(word) \in Digits /\ \A i \in 2 .. Len(word) : word[i] # "-"

\* The letters of an image are its bits, filled up with zeros and padded to groups of four.
ImageBits ==
    LET code == imageEncoder(image, FALSE)
    IN  /\ Bits(code, 6) = Padded(Bits(image, 8), 6 * Len(code))
        /\ 6 * Len(code) - 8 * Len(image) \in {0, 2, 4}
        /\ Len(imageEncoder(image, TRUE)) % 4 = 0
        /\ Pad \notin Range(code)
        /\ \E n \in 0 .. 2 : imageEncoder(image, TRUE) = code \o [i \in 1 .. n |-> Pad]

\* Nothing is lost in taking a string apart or in replacing a part of it, and only spaces that follow
\* a space are dropped; what is found in a string is there, and an image's letters are its bits.
TextKept ==
    /\ PiecesJoin
    /\ LastLineFound
    /\ ReplacementUndone
    /\ OneSpaceEach(word, removeExtraWhitespaces(word))
    /\ IntegersSigned
    /\ ImageBits
=============================================================================
