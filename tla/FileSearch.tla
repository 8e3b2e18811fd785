----------------------------- MODULE FileSearch -----------------------------
(***************************************************************************)
(* searchFiles(): the files whose path agrees with one that may have       *)
(* wildcards in its components.  The walk is translated with what it does  *)
(* to its own path on the way, and compared with the files there are.      *)
(*                                                                         *)
(* A path is the sequence of its names, a name that of its letters.        *)
(***************************************************************************)
EXTENDS Integers, SequencesExt

CONSTANTS
    Trees,      \* file systems: functions from a directory's path to its entries, as readdir() lists them
    Patterns,   \* the paths that are searched for
    Exclusions, \* the names that are left out
    MaxFound    \* the cap of results, 10 in the code, which counts them anew in every directory

VARIABLES tree, pattern

vars == <<tree, pattern>>

Paths == Seq(Seq(STRING))

Exists(t, path) == Front(path) \in DOMAIN t /\ Last(path) \in Range(t[Front(path)])

Wild(name) == Range(name) \cap {"*", "?"} # {}

\* "*" and "?" become regular expressions, and "." is one already.
Fits(expr, name) ==
    LET fits[i, j \in Nat] == \* the letters of expr from i on fit those of name from j on
          IF i > Len(expr) THEN j > Len(name)
          ELSE \/ expr[i] = "*" /\ (fits[i + 1, j] \/ (j <= Len(name) /\ fits[i, j + 1]))
               \/ j <= Len(name) /\ expr[i] \in {"?", ".", name[j]} /\ fits[i + 1, j + 1]
    IN  fits[1, 1]

\* regex_search(): a part of the name has to fit.
Matches(expr, name) == \E part \in SubSeqs(name) : Fits(expr, part)

Wanted(expr, name) == Matches(expr, name) /\ name \notin Exclusions

\* Mutant: the path keeps the name of every entry.
CollectSpoils(t, dir, expr) ==
    LET hit(s, name) ==
          LET path == Append(dir, s.name \o name)
          IN  [name |-> s.name \o name,
               found |-> IF Wanted(expr, name) /\ Exists(t, path) THEN Append(s.found, path) ELSE s.found]
    IN  FoldLeft(hit, [name |-> <<>>, found |-> <<>>], t[dir]).found

\* The last component is looked for in the directory dir.  The name of each match is appended to the
\* path, which keeps it.
Collect(t, dir, expr) ==
    LET hit(s, name) ==
          IF ~ Wanted(expr, name) \/ s.count >= MaxFound THEN s
          ELSE LET path == Append(dir, s.name \o name)
               IN  [name |-> s.name \o name,
                    found |-> IF Exists(t, path) THEN Append(s.found, path) ELSE s.found,
                    count |-> IF Exists(t, path) THEN s.count + 1 ELSE s.count]
    IN  FoldLeft(hit, [name |-> <<>>, found |-> <<>>, count |-> 0], t[dir]).found

\* The path below the first depth components.  A directory that a wildcard finds takes the place of
\* the wildcard in pathList, and stays there.
searchFilesRec(t, path) ==
    LET rec[at \in Paths \X Nat \X Seq(Paths)] == \* pathList, depth, and what has been found so far
          LET dir  == SubSeq(at[1], 1, at[2])
              name == at[1][at[2] + 1]
              last == at[2] >= Len(at[1]) - 1
              same(found) == [pathList |-> at[1], result |-> at[3] \o found]
              enter(s, entry) ==
                IF ~ Wanted(name, entry) THEN s
                ELSE rec[<<ReplaceAt(s.pathList, at[2] + 1, entry), at[2] + 1, s.result>>]
          IN  CASE Wild(name) /\ dir \notin DOMAIN t -> same(<<>>)
                [] Wild(name) /\ dir \in DOMAIN t /\ last -> same(Collect(t, dir, name))
                [] Wild(name) /\ dir \in DOMAIN t /\ ~last -> FoldLeft(enter, same(<<>>), t[dir])
                [] ~Wild(name) /\ last -> same(IF Exists(t, at[1]) THEN <<at[1]>> ELSE <<>>)
                [] ~Wild(name) /\ ~last -> rec[<<at[1], at[2] + 1, at[3]>>]
    IN  rec[<<path, 0, <<>>>>]

searchFiles(t, path) == searchFilesRec(t, path).result

-----------------------------------------------------------------------------

Init == tree \in Trees /\ pattern \in Patterns

\* A search changes nothing; the next one has another path.
Search == pattern' \in Patterns /\ UNCHANGED tree

Spec == Init /\ [][Search]_vars

-----------------------------------------------------------------------------

Agrees(path, expr) ==
    /\ Len(path) = Len(expr)
    /\ \A i \in DOMAIN expr : IF Wild(expr[i]) THEN Wanted(expr[i], path[i]) ELSE path[i] = expr[i]

Files(t) == {Append(dir, name) : dir \in DOMAIN t, name \in UNION {Range(t[d]) : d \in DOMAIN t}}

\* Every file that agrees with the path is found, once, and nothing else, if no two entries of a
\* directory agree with its last name; else the first of each directory is ("Only the FIRST matching
\* file ... is reliably added", says a test): in however many directories, as MaxFound is a cap for
\* one.  This is so with one wildcard above the last name: with two, the code spoils its path for the
\* second.
FirstsFound ==
    LET found  == searchFiles(tree, pattern)
        there  == {p \in Files(tree) : Exists(tree, p) /\ Agrees(p, pattern)}
        place(p) == SelectInSeq(tree[Front(p)], LAMBDA name : name = Last(p))
        firsts == {p \in there : \A q \in there : Front(q) = Front(p) => place(p) <= place(q)}
    IN  Cardinality({i \in 1 .. Len(pattern) - 1 : Wild(pattern[i])}) <= 1 =>
            /\ firsts \subseteq ToSet(found)
            /\ there = firsts => ToSet(found) = there /\ Len(found) = Cardinality(there)
=============================================================================
