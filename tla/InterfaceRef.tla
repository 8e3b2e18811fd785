---------------------------- MODULE InterfaceRef ----------------------------
(***************************************************************************)
(* PluginInterfaceBuilder::createInterface(), which queries a plugin with  *)
(* retries, and the PluginInterfaceRef objects that own what it returns    *)
(* and are moved, reset and destroyed.                                     *)
(***************************************************************************)
EXTENDS Integers, FiniteSets

CONSTANTS
    Refs,        \* the PluginInterfaceRef variables of a client
    RetryCounts, \* values given to withRetryCount()
    MaxLeaks,    \* a bound of the references that are lost
    None

VARIABLES
    interface,  \* per variable: None if it does not exist, else whether _interface is not null
    references, \* the plugin's reference count
    plugin,     \* whether the plugin is there
    retries,    \* the call of createInterface() under way: its retryCount, or None
    count,      \* its failed queries
    made,       \* its result once the loop has ended, else None
    seen,       \* history: the plugin was there at some query of the call
    overwritten \* history: the interfaces that a move assignment has overwritten

vars == <<interface, references, plugin, retries, count, made, seen, overwritten>>
refVars == <<interface, references, overwritten>>
loopVars == <<retries, count, made, seen>>

Init ==
    /\ interface = [r \in Refs |-> None]
    /\ references = 0
    /\ plugin \in BOOLEAN
    /\ retries = None /\ count = 0 /\ made = None /\ seen = FALSE
    /\ overwritten = 0

PluginComesOrGoes ==
    /\ plugin' = ~plugin
    /\ UNCHANGED <<refVars, loopVars>>

\* Without a controller there is no query.
BeginCreate(retryCount, controller) ==
    /\ retries = None
    /\ retries' = retryCount
    /\ count' = 0
    /\ made' = IF controller THEN None ELSE FALSE
    /\ seen' = FALSE
    /\ UNCHANGED <<refVars, plugin>>

\* One turn of the loop; it turns at least once.
Query ==
    /\ retries # None /\ made = None
    /\ IF plugin
       THEN made' = TRUE /\ references' = references + 1 /\ UNCHANGED count
       ELSE /\ count' = count + 1
            /\ made' = IF count + 1 < retries THEN None ELSE FALSE
            /\ UNCHANGED references
    /\ seen' = (seen \/ plugin)
    /\ UNCHANGED <<interface, overwritten, plugin, retries>>

Lost(r) == IF interface[r] = TRUE THEN 1 ELSE 0

\* The result is moved into a new variable or assigned to one that is there, whose interface is
\* overwritten and not released.
Store(r) ==
    /\ retries # None /\ made # None
    /\ interface' = [interface EXCEPT ![r] = made]
    /\ overwritten + Lost(r) <= MaxLeaks
    /\ overwritten' = overwritten + Lost(r)
    /\ retries' = None
    /\ UNCHANGED <<references, plugin, count, made, seen>>

\* Mutant: the source keeps its interface.
MoveCopies(q, r) ==
    /\ q # r
    /\ interface[q] # None
    /\ interface' = [interface EXCEPT ![r] = interface[q]]
    /\ overwritten + Lost(r) <= MaxLeaks
    /\ overwritten' = overwritten + Lost(r)
    /\ UNCHANGED <<references, plugin, loopVars>>

\* "r = std::move(q)", a move into itself being none, and a construction from q.
Move(q, r) ==
    /\ q # r
    /\ interface[q] # None
    /\ interface' = [interface EXCEPT ![r] = interface[q], ![q] = FALSE]
    /\ overwritten + Lost(r) <= MaxLeaks
    /\ overwritten' = overwritten + Lost(r)
    /\ UNCHANGED <<references, plugin, loopVars>>

\* Reset(), and the destructor, which calls it.
Reset(r, after) ==
    /\ interface[r] # None
    /\ references' = references - Lost(r)
    /\ interface' = [interface EXCEPT ![r] = after]
    /\ UNCHANGED <<overwritten, plugin, loopVars>>

Next ==
    \/ PluginComesOrGoes
    \/ \E n \in RetryCounts, controller \in BOOLEAN : BeginCreate(n, controller)
    \/ Query
    \/ \E r \in Refs :
        \/ Store(r)
        \/ \E q \in Refs : Move(q, r)
        \/ \E after \in {FALSE, None} : Reset(r, after)

Spec == Init /\ [][Next]_vars

-----------------------------------------------------------------------------

\* Every reference that the builder took is held by one PluginInterfaceRef, or is a result on its way
\* to one, or was lost when a move assignment overwrote an interface that was not null: nothing else
\* leaks, and nothing is released twice.
ReferencesOwned ==
    references = Cardinality({r \in Refs : interface[r] = TRUE})
                 + (IF retries # None /\ made = TRUE THEN 1 ELSE 0) + overwritten

\* createInterface() makes at least one query and at most retryCount, and it gives up only if the
\* plugin was missing at each of them.
QueriesBounded ==
    /\ retries # None => count <= IF retries < 1 THEN 1 ELSE retries
    /\ made = FALSE => ~seen
=============================================================================
