------------------------------ MODULE MoveFile ------------------------------
(***************************************************************************)
(* Utils::MoveFile(): a look whether the target exists, a copy in chunks   *)
(* to a target that is then created or truncated, and the end of the       *)
(* source, or of the target if a write fails.  Calls are repeated, the     *)
(* process may die in any of them, and another may use the target's name   *)
(* at any time.                                                            *)
(***************************************************************************)
EXTENDS Naturals, SequencesExt

CONSTANTS
    Content, \* the chunks of the file to move
    Other,   \* the chunks of another file, that may have the target's name
    None     \* no file, no result

VARIABLES
    from, to,    \* the chunks of the two files, or None
    checked,     \* a call has found a source and no target, and has not created the target yet
    done,        \* the number of chunks copied by the call under way, or None
    result,      \* what the last call returned
    found,       \* history: the target when the last call looked
    misread,     \* history: a read failed, which looks like the end of the file
    undestroyed  \* history: the last call could not destroy the target it had written

vars == <<from, to, checked, done, result, found, misread, undestroyed>>

Init ==
    /\ from = Content
    /\ to \in {None, Other}
    /\ checked = FALSE /\ done = None /\ result = None
    /\ found = to /\ misread = FALSE /\ undestroyed = FALSE

Idle == done = None /\ ~checked

Looks(exists) ==
    /\ Idle
    /\ found' = to /\ checked' = exists /\ undestroyed' = FALSE
    /\ UNCHANGED <<from, to, done, misread>>

\* The source is missing, or a file is in the way.
Refuse == (from = None \/ to # None) /\ Looks(FALSE) /\ result' = FALSE

\* Mutant: an existing target is not looked for.
CheckSource == from # None /\ Looks(TRUE) /\ result' = None

Check == from # None /\ to = None /\ Looks(TRUE) /\ result' = None

\* The source does not open, or the target cannot be created.
OpenFails ==
    /\ checked
    /\ checked' = FALSE /\ result' = FALSE
    /\ UNCHANGED <<from, to, done, found, misread, undestroyed>>

\* Whatever has the target's name by now is truncated.
Create ==
    /\ checked
    /\ checked' = FALSE /\ to' = <<>> /\ done' = 0
    /\ UNCHANGED <<from, result, found, misread, undestroyed>>

CopyChunk ==
    /\ done # None /\ done < Len(from)
    /\ to' = Append(to, from[done + 1])
    /\ done' = done + 1
    /\ UNCHANGED <<from, checked, result, found, misread, undestroyed>>

\* A write fails: the target is destroyed, and whether it is gone is not looked at.
WriteFails ==
    /\ done # None /\ done < Len(from)
    /\ to' \in {None, to} /\ undestroyed' = (to' # None)
    /\ done' = None /\ result' = FALSE
    /\ UNCHANGED <<from, checked, found, misread>>

\* Nothing is read, at the end or by an error.  Whether the source is gone then is not looked at.
ReadEnds ==
    /\ done # None
    /\ from' \in {None, from}
    /\ done' = None /\ result' = TRUE
    /\ misread' = (misread \/ done < Len(from))
    /\ UNCHANGED <<to, checked, found, undestroyed>>

Dies ==
    /\ ~Idle
    /\ checked' = FALSE /\ done' = None /\ result' = None
    /\ UNCHANGED <<from, to, found, misread, undestroyed>>

\* The way is made free for another try.
TargetRemoved ==
    /\ done = None /\ to # None /\ from # None
    /\ to' = None
    /\ UNCHANGED <<from, checked, done, result, found, misread, undestroyed>>

OtherCreates ==
    /\ done = None /\ to = None
    /\ to' = Other
    /\ UNCHANGED <<from, checked, done, result, found, misread, undestroyed>>

Next == \/ Refuse \/ Check \/ OpenFails \/ Create \/ CopyChunk \/ WriteFails \/ ReadEnds
        \/ Dies \/ TargetRemoved \/ OtherCreates

Spec == Init /\ [][Next]_vars

-----------------------------------------------------------------------------

\* Whatever fails or dies, one of the files has the whole content, unless a read failed; a file that
\* was there when a call looked is not written to; and a call that fails leaves no target of its own
\* behind, unless it could not destroy it.
NothingLost ==
    /\ misread \/ from = Content \/ to = Content
    /\ found = Other => to \in {Other, None}
    /\ result = FALSE => to \in {found, None, Other} \/ undestroyed
=============================================================================
