--------------------------- MODULE PersistedJson ---------------------------
(***************************************************************************)
(* persistJsonSettings(): a JSON file is read, deleted, created again and  *)
(* written with one key changed, then synced.  Callers are not kept apart; *)
(* the process may die and the power may fail at any step.                 *)
(*                                                                         *)
(* A file's contents are a function from keys to values, or Torn, which    *)
(* reads as an object with none of them.                                   *)
(***************************************************************************)
EXTENDS Integers, Functions

CONSTANTS Callers, Keys, Values, None, Torn

VARIABLES
    cached, durable, \* the file's contents, or None: what programs see, what outlives the power
    at,              \* per caller, the step that persistJsonSettings() does next, or "idle"
    cecSetting,      \* per caller, what it has read, with its change
    linked,          \* the callers whose open file is the one that has the name
    before,          \* history: per caller that met no other and no error, what it found; or None
    cut              \* history: a call ended before it had synced

vars == <<cached, durable, at, cecSetting, linked, before, cut>>

NoKeys == [k \in {} |-> None]

Init ==
    /\ cached \in {None, NoKeys} /\ durable = cached
    /\ at = [c \in Callers |-> "idle"]
    /\ cecSetting = [c \in Callers |-> NoKeys]
    /\ linked = {}
    /\ before = [c \in Callers |-> None]
    /\ cut = FALSE

FromFile(contents) == IF contents \in {None, Torn} THEN NoKeys ELSE contents

Put(contents, k, v) == [key \in DOMAIN contents \cup {k} |-> IF key = k THEN v ELSE contents[key]]

Idle == \A c \in Callers : at[c] = "idle"

Go(c, from, to) == at[c] = from /\ at' = [at EXCEPT ![c] = to]

-----------------------------------------------------------------------------
(* The steps of a call *)

\* Open(), or Create() where there is no file, and FromFile(); the change is made to the object.
Read(c, k, v) ==
    /\ Go(c, "idle", "destroy")
    /\ cached' = IF cached = None THEN NoKeys ELSE cached
    /\ cecSetting' = [cecSetting EXCEPT ![c] = Put(FromFile(cached), k, v)]
    /\ before' = IF Idle THEN [before EXCEPT ![c] = <<FromFile(cached), k, v>>]
                 ELSE [d \in Callers |-> None]
    /\ UNCHANGED <<durable, linked, cut>>

Destroy(c) ==
    /\ Go(c, "destroy", "create")
    /\ cached' = None
    /\ linked' = {}
    /\ UNCHANGED <<durable, cecSetting, before, cut>>

\* Without success nothing is open, and ToFile() has no effect.
Create(c) ==
    /\ Go(c, "create", "write")
    /\ \/ cached' = NoKeys /\ linked' = linked \cup {c} /\ UNCHANGED before
       \/ before' = [before EXCEPT ![c] = None] /\ UNCHANGED <<cached, linked>>
    /\ UNCHANGED <<durable, cecSetting, cut>>

\* What is written over another caller's output leaves the end of that.
ToFile(c) ==
    /\ Go(c, "write", "sync")
    /\ IF c \notin linked THEN UNCHANGED <<cached, before>>
       ELSE \/ cached' = cecSetting[c] /\ UNCHANGED before
            \/ cached' = Torn /\ before' = [before EXCEPT ![c] = None]
    /\ linked' = linked \ {c}
    /\ UNCHANGED <<durable, cecSetting, cut>>

\* Mutant: the file is closed and not synced.
syncPersistFileNot(c) ==
    /\ Go(c, "sync", "idle")
    /\ cecSetting' = [cecSetting EXCEPT ![c] = NoKeys]
    /\ before' = [before EXCEPT ![c] = None]
    /\ cut' = FALSE
    /\ UNCHANGED <<cached, durable, linked>>

\* syncPersistFile(), by name: without a file it returns.
syncPersistFile(c) ==
    /\ Go(c, "sync", "idle")
    /\ durable' = IF cached = None THEN durable ELSE cached
    /\ cut' = (cached = None)
    /\ cecSetting' = [cecSetting EXCEPT ![c] = NoKeys]
    /\ before' = [before EXCEPT ![c] = None]
    /\ UNCHANGED <<cached, linked>>

-----------------------------------------------------------------------------
(* The system *)

\* The kernel writes back what it likes, when it likes.
WriteBack ==
    /\ durable' \in {cached} \cup (IF cached = None THEN {} ELSE {Torn})
    /\ cached # durable
    /\ UNCHANGED <<cached, at, cecSetting, linked, before, cut>>

Ends ==
    /\ at' = [c \in Callers |-> "idle"]
    /\ cecSetting' = [c \in Callers |-> NoKeys]
    /\ linked' = {}
    /\ before' = [c \in Callers |-> None]

ProcessDies ==
    /\ ~Idle
    /\ Ends
    /\ cut' = TRUE
    /\ UNCHANGED <<cached, durable>>

PowerFails ==
    /\ Ends
    /\ cached' = durable
    /\ cut' = FALSE
    /\ UNCHANGED durable

Next ==
    \/ \E c \in Callers :
          \/ \E k \in Keys, v \in Values : Read(c, k, v)
          \/ Destroy(c) \/ Create(c) \/ ToFile(c) \/ syncPersistFile(c)
    \/ WriteBack \/ ProcessDies \/ PowerFails

Spec == Init /\ [][Next]_vars

-----------------------------------------------------------------------------

\* A call that meets no other call, no error and no end of the process changes its key and keeps
\* all others, also after files that were torn; and between calls nothing waits to be synced, so
\* that a power failure then loses nothing.
PersistedWhole ==
    /\ \A c \in Callers : at[c] = "sync" /\ before[c] # None =>
          cached = Put(before[c][1], before[c][2], before[c][3])
    /\ Idle /\ ~cut => durable = cached
=============================================================================
