---------------------------- MODULE PropertyFile ----------------------------
(***************************************************************************)
(* Properties in files of lines "name=value": readPropertyFromFile(),      *)
(* where a value that starts with "$" names another property, and          *)
(* ExpandPropertiesInString(), which puts such values into a text.         *)
(*                                                                         *)
(* A text is a sequence of tokens: names, "$", "/" and " ".                *)
(***************************************************************************)
EXTENDS Integers, SequencesExt

CONSTANTS
    Properties,  \* the names, each one token
    Contents,    \* files: sequences of [name, refers, value]; a comment has the name "#"
    Texts        \* what is expanded

VARIABLES content, text

vars == <<content, text>>

NotFound == [found |-> FALSE, value |-> <<>>]

\* Mutant: the first line with the name decides.
readPropertyFirst(lines, property) ==
    LET read[at \in STRING \X Nat] ==
          LET i == SelectInSeq(lines, LAMBDA l : l.name = at[1])
          IN  IF at[2] > Len(lines) \/ i = 0 THEN NotFound
              ELSE IF lines[i].refers THEN read[<<lines[i].value, at[2] + 1>>]
              ELSE [found |-> TRUE, value |-> <<lines[i].value>>]
    IN  read[<<property, 0>>]

\* The first line whose value is a text, or refers to a property that is found.  A value that refers
\* to itself, directly or by way of others, is read for ever: at a depth of more than the number of
\* lines nothing is found here.
readPropertyFromFile(lines, property) ==
    LET read[at \in STRING \X Nat] == \* the property, and the depth
          LET other(l) == read[<<l.value, at[2] + 1>>]
              i == SelectInSeq(lines, LAMBDA l : l.name = at[1] /\ (l.refers => other(l).found))
          IN  IF at[2] > Len(lines) \/ i = 0 THEN NotFound
              ELSE IF lines[i].refers THEN other(lines[i])
              ELSE [found |-> TRUE, value |-> <<lines[i].value>>]
    IN  read[<<property, 0>>]

\* The position of the first token of the set at or after from, or 0.
Next(t, from, tokens) == SelectInSubSeq(t, from, Len(t), LAMBDA x : x \in tokens)

\* The part of t from one position to before another, or to its end.
Part(t, from, to) == SubSeq(t, from, IF to = 0 THEN Len(t) ELSE to - 1)

\* A turn of the loop for the "$" at each position: what was expanded before is written over by the
\* text as it was up to there.
Expand(lines, t) ==
    LET turn[at \in 1 .. Len(t)] ==
          LET end   == Next(t, at, {" ", "/"})
              name  == Part(t, at + 1, end)
              value == IF end = 0 THEN [found |-> TRUE, value |-> <<>>]
                       ELSE IF Len(name) = 1 THEN readPropertyFromFile(lines, name[1]) ELSE NotFound
              goes  == IF end = 0 THEN at + 1 ELSE end
              again == Next(t, goes, {"$"})
          IN  IF ~ value.found THEN NotFound
              ELSE IF again # 0 THEN turn[again]
              ELSE [found |-> TRUE, value |-> Part(t, 1, at) \o value.value \o Part(t, goes, 0)]
    IN  turn[Next(t, 1, {"$"})]

\* Without a "$" the result is TRUE, and empty.
ExpandPropertiesInString(lines, t) ==
    IF Next(t, 1, {"$"}) = 0 THEN [found |-> TRUE, value |-> <<>>] ELSE Expand(lines, t)

-----------------------------------------------------------------------------

Init == content \in Contents /\ text \in Texts

Ask == text' \in Texts /\ UNCHANGED content

Spec == Init /\ [][Ask]_vars

-----------------------------------------------------------------------------

\* The properties that a property refers to.
ReferredBy(lines, p) == {lines[i].value : i \in {j \in DOMAIN lines : lines[j].name = p /\ lines[j].refers}}

\* Those that a chain of references leads to from p, p among them.
Leads(lines, p) ==
    {q \in Properties : \A K \in SUBSET Properties :
        p \in K /\ (\A r \in K : ReferredBy(lines, r) \subseteq K) => q \in K}

Acyclic(lines) == \A p \in Properties : \A q \in ReferredBy(lines, p) : p \notin Leads(lines, q)

TextsOf(lines, p) == {<<lines[i].value>> : i \in {j \in DOMAIN lines : lines[j].name = p /\ ~ lines[j].refers}}

\* The texts that p may stand for.
TextsFrom(lines, p) == UNION {TextsOf(lines, q) : q \in Leads(lines, p)}

\* Without a circle of references, a property is found if some chain of references leads from it to
\* a text, in whatever order the lines are and however many lines that lead nowhere have its name,
\* and what is found is such a text.  One variable with an end to its name is expanded to it, where it
\* stands in the text; one that is not found makes the result FALSE.
ReferencesFollowed ==
    /\ Acyclic(content) =>
          \A p \in Properties :
             LET texts == TextsFrom(content, p)
             IN  IF texts = {} THEN ~ readPropertyFromFile(content, p).found
                 ELSE readPropertyFromFile(content, p).found /\ readPropertyFromFile(content, p).value \in texts
    /\ \A before, after \in Range(<<<<>>, <<"/">>, text>>), p \in Properties :
          LET result == ExpandPropertiesInString(content, before \o <<"$", p, "/">> \o after)
          IN  Next(before \o after, 1, {"$"}) = 0 =>
                 /\ result.found = readPropertyFromFile(content, p).found
                 /\ result.found => result.value = before \o readPropertyFromFile(content, p).value \o <<"/">> \o after
=============================================================================
