---------------------------- MODULE DSConfigAbs -----------------------------
(***************************************************************************)
(* What DSHelper promises about its configuration, without threads, locks  *)
(* or COM-RPC: it becomes available in one piece, stays as it is while it  *)
(* is available except that its audio part may be replaced, and goes away  *)
(* in one piece.  Resolutions may be added to it at any time; they go with *)
(* the rest.  DSConfig implements this specification.                      *)
(***************************************************************************)
EXTENDS Naturals

CONSTANTS Parts, HandleParts, MaxEpoch

VARIABLES available, contents, portHandles, resolutions

absVars == <<available, contents, portHandles, resolutions>>

AbsInit ==
    /\ available = FALSE
    /\ contents = [p \in Parts |-> 0]
    /\ portHandles = [p \in HandleParts |-> 0]
    /\ resolutions = {}

\* The whole configuration is replaced, once, by that of one activation e; a part
\* has handles only if it has config.
Fill(e) ==
    /\ ~available
    /\ available' = TRUE
    /\ contents' \in [Parts -> {0, e}]
    /\ portHandles' \in [HandleParts -> 0 .. MaxEpoch]
    /\ \A p \in Parts \cap HandleParts : portHandles'[p] # 0 => contents'[p] # 0
    /\ resolutions' \in SUBSET {e}

\* The audio part is replaced, by config and handles that are not empty.
ReplaceAudio(e, h) ==
    /\ contents' = [contents EXCEPT !["audio"] = e]
    /\ portHandles' = [portHandles EXCEPT !["audio"] = h]
    /\ UNCHANGED <<available, resolutions>>

\* Resolutions of activation e join those that are there, whether or not the rest of
\* the configuration is.
AddResolutions(e) ==
    /\ resolutions' = resolutions \cup {e}
    /\ UNCHANGED <<available, contents, portHandles>>

\* The configuration has to be loaded again, its old contents are kept.
Reset ==
    /\ available' = FALSE
    /\ portHandles' = [p \in HandleParts |-> 0]
    /\ UNCHANGED <<contents, resolutions>>

Clear ==
    /\ available' = FALSE
    /\ contents' = [p \in Parts |-> 0]
    /\ portHandles' = [p \in HandleParts |-> 0]
    /\ resolutions' = {}

AbsNext ==
    \/ \E e \in 1 .. MaxEpoch : Fill(e) \/ AddResolutions(e)
    \/ \E e, h \in 1 .. MaxEpoch : ReplaceAudio(e, h)
    \/ Reset
    \/ Clear

AbsSpec == AbsInit /\ [][AbsNext]_absVars
=============================================================================
