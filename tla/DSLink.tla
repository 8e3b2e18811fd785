------------------------------- MODULE DSLink -------------------------------
(***************************************************************************)
(* The COM-RPC link between a client plugin and the DeviceSettings plugin, *)
(* as DSHelper (helpers/DeviceSettingsInterface.h) uses it.                *)
(*                                                                         *)
(* Thunder and the base class RPC::PluginSmartInterfaceType are not in     *)
(* this repository.  They are modelled from their uses: the base class     *)
(* holds the root proxy that Interface() returns, drops it before it       *)
(* reports a deactivation, serialises its calls of Operational(), and, if  *)
(* the plugin already runs, calls Operational(true) from inside Open().    *)
(*                                                                         *)
(* A proxy, a config snapshot and a handle are represented by the epoch    *)
(* (the activation of DeviceSettings) they were obtained from; 0 stands    *)
(* for a null pointer, an empty store or an empty handle map.              *)
(*                                                                         *)
(* The module declares state and actions only.  DSSubInterface and         *)
(* DSConfig EXTEND it and add what each callback does to their state.      *)
(***************************************************************************)
EXTENDS Naturals, FiniteSets

CONSTANTS
    Clients,    \* threads of the client plugin that call into DSHelper
    Notifier,   \* the thread that runs Operational()
    MaxEpoch    \* bound: how often DeviceSettings activates

ASSUME LinkAssumption ==
    /\ IsFiniteSet(Clients)
    /\ Notifier \notin Clients
    /\ MaxEpoch \in Nat \ {0}

Threads == Clients \cup {Notifier}
Epochs  == 1 .. MaxEpoch
EpochOrNone == 0 .. MaxEpoch

VARIABLES
    up,     \* DeviceSettings is activated
    epoch,  \* number of activations so far
    link,   \* the base class is open and watches DeviceSettings
    root,   \* the epoch of the proxy Interface() returns, 0 for nullptr
    owner,  \* progress of the plugin's own calls of Open() and Close()
    op      \* progress of the Operational() call that is running

linkVars == <<up, epoch, link, root, owner, op>>

OwnerStates == {"closed", "opening", "open", "swapped", "close"}

\* Operational(true):  up -> activated -> idle
\* Operational(false): down -> release -> deactivated -> clear -> idle
\* Where a running Operational() call stands; the states name what comes next.
OpStates == {"idle", "up", "activated", "down", "release", "deactivated", "clear"}

LinkTypeOK ==
    /\ up \in BOOLEAN
    /\ epoch \in EpochOrNone
    /\ link \in BOOLEAN
    /\ root \in EpochOrNone
    /\ owner \in OwnerStates
    /\ op \in OpStates

LinkInit ==
    /\ up = FALSE
    /\ epoch = 0
    /\ link = FALSE
    /\ root = 0
    /\ owner = "closed"
    /\ op = "idle"

-----------------------------------------------------------------------------
(* The DeviceSettings plugin comes and goes. *)

\* DeviceSettings activates; the base class, if open, gets a root proxy and
\* calls Operational(true).
PluginUp ==
    /\ ~up
    /\ op = "idle"
    /\ epoch < MaxEpoch
    /\ up' = TRUE
    /\ epoch' = epoch + 1
    /\ IF link THEN root' = epoch + 1 /\ op' = "up" ELSE UNCHANGED <<root, op>>
    /\ UNCHANGED <<link, owner>>

\* DeviceSettings deactivates or dies; the base class, if open, drops the root
\* proxy and calls Operational(false).
PluginDown ==
    /\ up
    /\ op = "idle"
    /\ up' = FALSE
    /\ IF link THEN root' = 0 /\ op' = "down" ELSE UNCHANGED <<root, op>>
    /\ UNCHANGED <<epoch, link, owner>>

-----------------------------------------------------------------------------
(* The owner opens and closes the link. *)

\* Open() with a service, when it is not open already and BaseClass::Open()
\* succeeds.  (The other outcomes restore every field they touched.)  If
\* DeviceSettings runs, Operational(true) is called from inside Open().
Open ==
    /\ owner = "closed"
    /\ op = "idle"
    /\ owner' = "opening"
    /\ link' = TRUE
    /\ IF up THEN root' = epoch /\ op' = "up" ELSE UNCHANGED <<root, op>>
    /\ UNCHANGED <<up, epoch>>

OpenReturn ==
    /\ owner = "opening"
    /\ op = "idle"
    /\ owner' = "open"
    /\ UNCHANGED <<up, epoch, link, root, op>>

\* BaseClass::Close(), the last step of Close(): the base class unregisters and
\* drops the root proxy.  The repository does not say whether this reports a
\* deactivation for a plugin that runs, so both are possible.
BaseClose ==
    /\ owner = "close"
    /\ op = "idle"
    /\ owner' = "closed"
    /\ link' = FALSE
    /\ root' = 0
    /\ op' \in IF root = 0 THEN {"idle"} ELSE {"idle", "down"}
    /\ UNCHANGED <<up, epoch>>

LinkStep == PluginUp \/ PluginDown \/ Open \/ OpenReturn \/ BaseClose

-----------------------------------------------------------------------------
(* Operational() and the two callbacks it makes. *)

\* Operational() goes on from one of its statements to the next.
OpMoves(from, to) ==
    /\ op = from
    /\ op' = to
    /\ UNCHANGED <<up, epoch, link, root, owner>>

\* Close() goes on from one of its statements to the next.
CloseMoves(from, to) ==
    /\ owner = from
    /\ owner' = to
    /\ UNCHANGED <<up, epoch, link, root, op>>

\* Whatever happens to the link.
LinkNext ==
    \/ LinkStep
    \/ \E from, to \in OpStates : OpMoves(from, to)
    \/ CloseMoves("open", "swapped") \/ CloseMoves("swapped", "close")

\* Client threads call DSHelper at any time; the notifier's thread calls it
\* only from OnDeviceSettingsActivated() and OnDeviceSettingsDeactivated().
MayCall(t) == t = Notifier => op \in {"activated", "deactivated"}

-----------------------------------------------------------------------------
\* Interface() serves the activation that runs, and only while the link is open.
LinkInv ==
    /\ link <=> owner # "closed"
    /\ root # 0 => up /\ link /\ root = epoch
=============================================================================
