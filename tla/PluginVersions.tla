--------------------------- MODULE PluginVersions ---------------------------
(***************************************************************************)
(* AbstractPlugin: a plugin registers each method with the handlers of all *)
(* its API versions, and Deinitialize() unregisters what it has noted for  *)
(* each of them.  The versions are counted in uint8_t.                     *)
(***************************************************************************)
EXTENDS Naturals, Sequences, SequencesExt

CONSTANTS
    Currents,  \* the values of currVersion, less than MaxUint8: the constructor's loop never ends for that
    MaxUint8,  \* the greatest uint8_t
    Methods,   \* what the plugin registers, "getQuirks" among them if it overrides it
    MaxNoted   \* a bound of the methods noted per version

VARIABLES
    currVersion, \* m_currVersion
    handlers,    \* the keys of m_versionHandlers
    registered,  \* per version, the methods that its handler knows
    versionAPIs, \* per version, m_versionAPIs
    loop,        \* the registerMethod() under way, its method and its ver, or <<>>
    ended,       \* history: Deinitialize() was called "never", "just" or "before" a method was registered
    unknown,     \* history: a handler was told to unregister what it did not know
    repeated     \* history: a method was noted twice, or Deinitialize() called twice

vars == <<currVersion, handlers, registered, versionAPIs, loop, ended, unknown, repeated>>

Versions == 0..MaxUint8

\* The constructor: version 1 has the plugin itself for its handler, and a method is registered.
Init ==
    /\ currVersion \in Currents
    /\ handlers = {1} \cup 2..currVersion
    /\ registered = [v \in Versions |-> {}]
    /\ versionAPIs = [v \in Versions |-> <<>>]
    /\ loop = <<"getQuirks", 1>>
    /\ ended = "never" /\ unknown = FALSE /\ repeated = FALSE

\* A plugin registers its methods when it is made or initialised.
registerMethod(method) ==
    /\ loop = <<>>
    /\ \A v \in handlers : Len(versionAPIs[v]) < MaxNoted
    /\ loop' = <<method, 1>>
    /\ UNCHANGED <<currVersion, handlers, registered, versionAPIs, ended, unknown, repeated>>

\* Mutant: the loop stops before the current version.
RegisterNextShort ==
    /\ loop # <<>>
    /\ LET method == loop[1]
           ver == loop[2] IN
       IF ver < currVersion
       THEN /\ loop' = <<method, (ver + 1) % (MaxUint8 + 1)>>
            /\ registered' = [registered EXCEPT ![ver] = @ \cup {method}]
            /\ versionAPIs' = [versionAPIs EXCEPT ![ver] = Append(@, method)]
            /\ UNCHANGED <<ended, repeated>>
       ELSE /\ loop' = <<>>
            /\ UNCHANGED <<registered, versionAPIs, ended, repeated>>
    /\ UNCHANGED <<currVersion, handlers, unknown>>

\* One turn of the loop, at a version that has a handler.
RegisterNext ==
    /\ loop # <<>>
    /\ LET method == loop[1]
           ver == loop[2] IN
       IF ver <= currVersion
       THEN /\ loop' = <<method, (ver + 1) % (MaxUint8 + 1)>>
            /\ ver \in handlers
            /\ registered' = [registered EXCEPT ![ver] = @ \cup {method}]
            /\ versionAPIs' = [versionAPIs EXCEPT ![ver] = Append(@, method)]
            /\ repeated' = (repeated \/ Contains(versionAPIs[ver], method))
            /\ ended' = IF ended = "never" THEN "never" ELSE "before"
       ELSE /\ loop' = <<>>
            /\ UNCHANGED <<registered, versionAPIs, ended, repeated>>
    /\ UNCHANGED <<currVersion, handlers, unknown>>

\* What is noted stays noted.
Deinitialize ==
    /\ loop = <<>>
    /\ registered' = [v \in Versions |-> registered[v] \ ToSet(versionAPIs[v])]
    /\ unknown' = (unknown \/ \E v \in handlers :
                       ~IsInjective(versionAPIs[v]) \/ ~(ToSet(versionAPIs[v]) \subseteq registered[v]))
    /\ repeated' = (repeated \/ ended # "never")
    /\ ended' = "just"
    /\ UNCHANGED <<currVersion, handlers, versionAPIs, loop>>

Next ==
    \/ \E m \in Methods : registerMethod(m)
    \/ RegisterNext \/ Deinitialize

Spec == Init /\ [][Next]_vars

-----------------------------------------------------------------------------

\* Between calls all the versions of an API know the same methods, none once Deinitialize() has been
\* called; and no handler is told to unregister a method that it does not know, unless the plugin
\* registered a name twice or was deinitialised twice.
VersionsAlike ==
    loop = <<>> =>
        /\ \A v, w \in handlers : registered[v] = registered[w]
        /\ ended = "just" => \A v \in handlers : registered[v] = {}
        /\ unknown => repeated
=============================================================================
