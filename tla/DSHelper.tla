------------------------------ MODULE DSHelper ------------------------------
(***************************************************************************)
(* DSHelper as a whole: the config of DSConfig, whose loads and reloads    *)
(* fetch their handles through the proxies of DSSubInterface, next to      *)
(* clients that acquire proxies themselves.                                *)
(*                                                                         *)
(* The actions are those of the two components.  A component that a step   *)
(* does not concern stays as it is; a step of Operational() or Close()     *)
(* concerns both; and where LoadAllConfigs(), ReloadAudioConfigs() or      *)
(* LoadVideoPortResolutionConfig() calls AcquireSubInterface(), its end    *)
(* and what the caller does with the result are one step.                  *)
(***************************************************************************)
EXTENDS DSLink

CONSTANTS
    Answers,    \* the sets of parts that GetDeviceSettingConfigs may fill
    ClientKinds \* the sub-interfaces that clients acquire by themselves

\* The sub-interfaces that loads use, named by the part they fetch handles for.
Kinds == {"videoPort", "audio", "videoDevice"}

ASSUME ClientKindsAssumption == ClientKinds \subseteq Kinds

VARIABLES cache, toRelease, refs, acq, want, loc, late,
          loaded, store, handles, resolutions, initMutex, pc, src, newStore, newHandles, leftover

Sub == INSTANCE DSSubInterface
Cfg == INSTANCE DSConfig

ASSUME AnswersAssumption == Answers \subseteq SUBSET Cfg!Parts

subVars == <<cache, toRelease, refs, acq, want, loc, late>>
cfgVars == <<loaded, store, handles, resolutions, leftover, initMutex, pc, src, newStore, newHandles>>
vars    == <<linkVars, subVars, cfgVars>>

Init == LinkInit /\ Sub!SubInit /\ Cfg!CfgInit

-----------------------------------------------------------------------------
(* Threads *)

\* Thread t is where a load or a reload acquires the sub-interface k.
Needs(t, k) == pc[t] = k \/ (pc[t] = "raudio" /\ k = "audio")

\* AcquireSubInterface() called by a client, or by a load or a reload.
AcquireCall(t) ==
    /\ \E k \in Kinds : /\ (pc[t] = "idle" /\ k \in ClientKinds) \/ Needs(t, k)
                        /\ Sub!AcquireFast(t, k) \/ Sub!AcquireMiss(t, k)
    /\ UNCHANGED cfgVars

\* Steps inside AcquireSubInterface() that do not return nullptr.
AcquireGoesOn(t) ==
    /\ Sub!GetRoot(t) \/ Sub!Query(t) \/ Sub!StoreFresh(t) \/ Sub!StoreLost(t)
    /\ UNCHANGED cfgVars

\* A client gets nullptr, or releases the proxy it got.
ClientDone(t) ==
    /\ pc[t] = "idle"
    /\ Sub!NoRoot(t) \/ Sub!QueryFails(t) \/ Sub!Release(t)
    /\ UNCHANGED cfgVars

\* A load gets nullptr for a part and goes on without its handles.
LoadWithout(t) ==
    /\ Sub!NoRoot(t) \/ Sub!QueryFails(t)
    /\ \E k \in Kinds : Cfg!LoadHandles(t, k, 0)

\* A load fetches the handles of a part, or fails to, and releases the proxy.
LoadWith(t) ==
    /\ Sub!Release(t)
    /\ \E k \in Kinds, e \in {0, loc[t]} : Cfg!LoadHandles(t, k, e)

\* A reload gets nullptr, or no handle through the proxy, and gives up.
ReloadWithout(t) ==
    /\ pc[t] = "raudio"
    /\ Sub!NoRoot(t) \/ Sub!QueryFails(t) \/ Sub!Release(t)
    /\ Cfg!ReloadFails(t)

ReloadWith(t) ==
    /\ Sub!Release(t)
    /\ Cfg!ReloadHandles(t, loc[t])

\* LoadVideoPortResolutionConfig(), called by a client, has resolutions to store and
\* releases the proxy.
ResolutionsWith(t) ==
    /\ want[t] = "videoPort"
    /\ Sub!Release(t)
    /\ Cfg!ResolutionsFetched(t, loc[t])

\* Everything a thread does to the config without a sub-interface.
ConfigStep(t) ==
    /\ acq[t] = "idle"
    /\ \/ Cfg!Accessor(t)
       \/ Cfg!LoadFails(t) \/ Cfg!LoadAnswer(t) \/ Cfg!Commit(t) \/ Cfg!LoadReturn(t)
       \/ Cfg!ReloadCall(t) \/ Cfg!ReloadAnswer(t) \/ Cfg!ReloadCommit(t) \/ Cfg!ReloadReturn(t)
       \/ pc[t] = "rconfig" /\ Cfg!ReloadFails(t)
       \/ Cfg!ResolutionsStored(t)
    /\ UNCHANGED subVars

ThreadStep(t) ==
    \/ AcquireCall(t) \/ AcquireGoesOn(t) \/ ClientDone(t)
    \/ LoadWithout(t) \/ LoadWith(t) \/ ReloadWithout(t) \/ ReloadWith(t)
    \/ ResolutionsWith(t) \/ ConfigStep(t)

-----------------------------------------------------------------------------
(* Operational(), Open() and Close() *)

\* Mutant: Operational(false) does not clear the config.
OperationalKeepsConfig ==
    \/ Sub!Activated /\ Cfg!Activated
    \/ Sub!ActivatedEnd /\ Cfg!ActivatedEnd
    \/ Sub!DownSwap /\ Cfg!DownRelease
    \/ Sub!DownRelease /\ Cfg!DownRelease
    \/ Sub!DeactivatedEnd /\ Cfg!DeactivatedEnd
    \/ Sub!DownEnd /\ UNCHANGED cfgVars

Operational ==
    \/ Sub!Activated /\ Cfg!Activated
    \/ Sub!ActivatedEnd /\ Cfg!ActivatedEnd
    \/ Sub!DownSwap /\ Cfg!DownRelease
    \/ Sub!DownRelease /\ Cfg!DownRelease
    \/ Sub!DeactivatedEnd /\ Cfg!DeactivatedEnd
    \/ Sub!DownEnd /\ Cfg!Clear

Closing ==
    \/ Sub!CloseSwap /\ Cfg!CloseSteps
    \/ Sub!CloseRelease /\ Cfg!CloseSteps
    \/ Cfg!CloseEnds /\ UNCHANGED subVars

Next ==
    \/ Cfg!LinkChanges /\ UNCHANGED subVars
    \/ Operational
    \/ Closing
    \/ \E t \in Threads : ThreadStep(t)

Spec == Init /\ [][Next]_vars

-----------------------------------------------------------------------------
(* Properties *)

\* The components behave as their modules say when they run together.
SubSpec == Sub!Spec
CfgSpec == Cfg!Spec

\* A load that is about to commit an answer of the latest activation has handles of
\* that activation too, unless it got one through a proxy that AcquireSubInterface()
\* had cached too late: a deactivation and a restart during the load are harmless.
FreshLoad ==
    \A t \in Threads : pc[t] = "commit" /\ src[t] = epoch =>
        \A k \in Kinds :
            newHandles[t][k] \in {0, epoch} \/ <<k, newHandles[t][k]>> \in late

\* The handles that accessors return are of the activation the config is of, the one
\* that runs, unless the config is left over from an earlier one or they were fetched
\* through a proxy that was cached too late.
HandlesOfActivation ==
    op \in {"idle", "activated"} /\ ~leftover =>
        \A k \in Kinds : handles[k] \in {0, root} \/ <<k, handles[k]>> \in late

\* The resolutions that OnDeviceSettingsActivated() fetches and stores, as documented
\* at LoadVideoPortResolutionConfig(), are of the activation it is called for, unless
\* it was given a proxy that was cached too late; and only such a proxy gives
\* OnDeviceSettingsDeactivated() any.
CallbackResolutions ==
    pc[Notifier] = "resolutions" =>
        /\ op \in {"activated", "deactivated"}
        /\ src[Notifier] = root \/ <<"videoPort", src[Notifier]>> \in late

-----------------------------------------------------------------------------
(* The inductive invariants behind FreshLoad and HandlesOfActivation, and behind *)
(* CallbackResolutions                                                           *)

\* Every proxy that a thread or the cache has is of an activation there has been.
PastOnly ==
    /\ epoch \in Nat
    /\ root \in 0 .. epoch
    /\ loc \in [Threads -> 0 .. epoch]
    /\ cache \in [Kinds -> 0 .. epoch]
    /\ want \in [Threads -> Kinds]

\* Past Interface() there is a root proxy, and past QueryInterface a proxy.
HasProxy == \A t \in Threads : acq[t] \in {"query", "store", "held"} => loc[t] # 0

\* What AcquireSubInterface() finds in the cache is of the latest activation, or was
\* cached too late.
CacheOfLatest == \A k \in Kinds : cache[k] \in {0, epoch} \/ <<k, cache[k]>> \in late

\* The proxy or the handles e of kind k are no older than the answer of a load from the
\* activation s, or came through a proxy that was cached too late.
NotBefore(s, k, e) == e >= s \/ <<k, e>> \in late

\* A load asks for the interface of the part it is at, and all it gets after its answer
\* is no older than that.
GetsNoOlder(t) ==
    /\ acq[t] # "idle" => pc[t] = "idle" \/ Needs(t, want[t])
    /\ \A k \in Kinds : newHandles[t][k] \in 0 .. epoch
    /\ pc[t] \in Cfg!Building =>
          /\ src[t] \in 1 .. epoch
          /\ acq[t] \in {"query", "store"} => loc[t] >= src[t]
          /\ acq[t] = "held" => NotBefore(src[t], want[t], loc[t])
          /\ \A k \in Kinds : newHandles[t][k] = 0 \/ NotBefore(src[t], k, newHandles[t][k])

HInv ==
    /\ PastOnly
    /\ CacheOfLatest
    /\ \A t \in Threads : GetsNoOlder(t)
    /\ HandlesOfActivation

\* A callback returns only when its calls have; the proxies it is given meanwhile are
\* those of the root proxy, or were cached too late.
CallbackInv ==
    /\ acq[Notifier] # "idle" \/ pc[Notifier] # "idle" => op \in {"activated", "deactivated"}
    /\ acq[Notifier] \in {"query", "store"} => loc[Notifier] = root
    /\ acq[Notifier] = "held" =>
          loc[Notifier] = root \/ <<want[Notifier], loc[Notifier]>> \in late
    /\ CallbackResolutions
=============================================================================
