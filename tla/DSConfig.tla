------------------------------ MODULE DSConfig ------------------------------
(***************************************************************************)
(* The DeviceSettings configuration that DSHelper keeps: the four config   *)
(* stores, the handle maps and the flag _configLoaded.                     *)
(*                                                                         *)
(* Accessors load it lazily (_ensureConfigLoaded and LoadAllConfigs, under *)
(* _initMutex), ReloadAudioConfigs() replaces the audio part, Operational()*)
(* resets and clears it.  Loading and reloading fetch everything by        *)
(* COM-RPC without a lock and commit it under _configMutex at the end.     *)
(* Clients may add resolutions that they have fetched themselves, with     *)
(* LoadVideoPortResolutionConfig() and storeVideoPortResolutionsForType(). *)
(* Each critical section of _configMutex is one action.  How a load gets   *)
(* the proxies it fetches handles through is left open here (any proxy     *)
(* that has existed); DSHelper closes it.                                  *)
(***************************************************************************)
EXTENDS DSLink

CONSTANT Answers    \* the sets of parts that GetDeviceSettingConfigs may fill

Parts       == {"videoPort", "audio", "videoDevice", "frontPanel"}
HandleParts == {"videoPort", "audio", "videoDevice", "display"}

ASSUME AnswersAssumption == Answers \subseteq SUBSET Parts

VARIABLES
    loaded,     \* _configLoaded
    store,      \* the config stores: the epoch each part is of, 0 if empty
    handles,    \* the handle maps: the epoch the handles are of, 0 if empty
    resolutions,\* the epochs the resolutions in the video port store are of
    initMutex,  \* the thread that holds _initMutex, or {} if it is free
    pc,         \* per thread, how far its call has come
    src,        \* per thread, the epoch of the answer it got (rawCfg, or resolutions)
    newStore,   \* per thread, the stores it has built from the answer
    newHandles, \* per thread, the handles it has fetched
    leftover    \* history: the stores may be of an activation that has ended

cfgShared == <<loaded, store, handles, resolutions, leftover>>
cfgLocals == <<pc, src, newStore, newHandles>>
cfgVars   == <<cfgShared, initMutex, cfgLocals>>
vars      == <<linkVars, cfgVars>>

\* From the lock of _initMutex to its release; after "log" it is free again.
LoadStates   == {"config", "videoPort", "audio", "videoDevice", "commit", "log"}
ReloadStates == {"rconfig", "raudio", "rcommit", "rlog"}
PcStates     == {"idle", "ensure", "read", "peek", "resolutions"} \cup LoadStates \cup ReloadStates

Stores     == [Parts -> EpochOrNone]
HandleMaps == [HandleParts -> EpochOrNone]
EmptyStore == [p \in Parts |-> 0]
NoHandles  == [p \in HandleParts |-> 0]

TypeOK ==
    /\ LinkTypeOK
    /\ loaded \in BOOLEAN
    /\ store \in Stores
    /\ handles \in HandleMaps
    /\ resolutions \in SUBSET Epochs
    /\ initMutex \in SUBSET Threads
    /\ pc \in [Threads -> PcStates]
    /\ src \in [Threads -> EpochOrNone]
    /\ newStore \in [Threads -> Stores]
    /\ newHandles \in [Threads -> HandleMaps]
    /\ leftover \in BOOLEAN

CfgInit ==
    /\ loaded = FALSE
    /\ store = EmptyStore
    /\ handles = NoHandles
    /\ resolutions = {}
    /\ initMutex = {}
    /\ pc = [t \in Threads |-> "idle"]
    /\ src = [t \in Threads |-> 0]
    /\ newStore = [t \in Threads |-> EmptyStore]
    /\ newHandles = [t \in Threads |-> NoHandles]
    /\ leftover = FALSE

Init == LinkInit /\ CfgInit

-----------------------------------------------------------------------------
(* Steps of a thread's locals *)

Goto(t, from, to) ==
    /\ pc[t] = from
    /\ pc' = [pc EXCEPT ![t] = to]

\* The call leaves its scope: what it built or fetched is gone.
LeaveScope(t) ==
    /\ src' = [src EXCEPT ![t] = 0]
    /\ newStore' = [newStore EXCEPT ![t] = EmptyStore]
    /\ newHandles' = [newHandles EXCEPT ![t] = NoHandles]

KeepLocals == UNCHANGED <<src, newStore, newHandles>>

\* GetDeviceSettingConfigs() on the root proxy answers, and the stores are built
\* from the parts of the answer.
Answered(t, filled) ==
    /\ root # 0
    /\ src' = [src EXCEPT ![t] = root]
    /\ newStore' = [newStore EXCEPT ![t] = [p \in Parts |-> IF p \in filled THEN root ELSE 0]]
    /\ UNCHANGED newHandles

\* Mutant: the handles of a part replace those fetched before.
FetchedAlone(t, p, e) ==
    /\ e # 0 => newStore[t][p] # 0
    /\ newHandles' = [newHandles EXCEPT ![t] = [q \in {p} |-> e]]
    /\ UNCHANGED <<src, newStore>>

\* The handles of part p are fetched through a proxy of epoch e; there are none
\* if there was no proxy, no port in the answer, or every call failed (e = 0).
Fetched(t, p, e) ==
    /\ e # 0 => newStore[t][p] # 0
    /\ newHandles' = [newHandles EXCEPT ![t][p] = e]
    /\ UNCHANGED <<src, newStore>>

-----------------------------------------------------------------------------
(* Accessors: most call _ensureConfigLoaded(), then read the stores *)

EnsureFast(t) ==
    /\ MayCall(t)
    /\ loaded
    /\ Goto(t, "idle", "read")
    /\ KeepLocals
    /\ UNCHANGED <<linkVars, cfgShared, initMutex>>

EnsureSlow(t) ==
    /\ MayCall(t)
    /\ ~loaded
    /\ Goto(t, "idle", "ensure")
    /\ KeepLocals
    /\ UNCHANGED <<linkVars, cfgShared, initMutex>>

\* _initMutex is taken, the flag is set by now: the mutex is released again.
EnsureSkip(t) ==
    /\ initMutex = {}
    /\ loaded
    /\ Goto(t, "ensure", "read")
    /\ KeepLocals
    /\ UNCHANGED <<linkVars, cfgShared, initMutex>>

\* Mutant: the flag is not checked again under _initMutex.
EnsureLoadUnchecked(t) ==
    /\ initMutex = {}
    /\ Goto(t, "ensure", "config")
    /\ initMutex' = {t}
    /\ KeepLocals
    /\ UNCHANGED <<linkVars, cfgShared>>

\* _initMutex is taken and LoadAllConfigs() called.
EnsureLoad(t) ==
    /\ initMutex = {}
    /\ ~loaded
    /\ Goto(t, "ensure", "config")
    /\ initMutex' = {t}
    /\ KeepLocals
    /\ UNCHANGED <<linkVars, cfgShared>>

\* The accessor proper, under _configMutex.
Read(t) ==
    /\ Goto(t, "read", "idle")
    /\ KeepLocals
    /\ UNCHANGED <<linkVars, cfgShared, initMutex>>

\* Some accessors load nothing and read the stores without the lock.
PeekBegin(t) ==
    /\ MayCall(t)
    /\ Goto(t, "idle", "peek")
    /\ KeepLocals
    /\ UNCHANGED <<linkVars, cfgShared, initMutex>>

PeekEnd(t) ==
    /\ Goto(t, "peek", "idle")
    /\ KeepLocals
    /\ UNCHANGED <<linkVars, cfgShared, initMutex>>

-----------------------------------------------------------------------------
(* LoadAllConfigs(), which runs under _initMutex *)

\* Mutant: _initMutex stays locked when the load fails.
LoadFailsLocked(t) ==
    /\ Goto(t, "config", "read")
    /\ KeepLocals
    /\ UNCHANGED <<linkVars, cfgShared, initMutex>>

\* No root proxy, or GetDeviceSettingConfigs() fails: the flag stays as it is,
\* _initMutex is released, and the accessor reads what there is.
LoadFails(t) ==
    /\ Goto(t, "config", "read")
    /\ initMutex' = {}
    /\ KeepLocals
    /\ UNCHANGED <<linkVars, cfgShared>>

LoadAnswer(t) ==
    /\ Goto(t, "config", "videoPort")
    /\ \E filled \in Answers : Answered(t, filled)
    /\ UNCHANGED <<linkVars, cfgShared, initMutex>>

AfterPart == [videoPort |-> "audio", audio |-> "videoDevice", videoDevice |-> "commit"]

LoadHandles(t, p, e) ==
    /\ Goto(t, p, AfterPart[p])
    /\ Fetched(t, p, e)
    /\ UNCHANGED <<linkVars, cfgShared, initMutex>>

\* Mutant: empty parts of the answer do not overwrite what is stored.
CommitMerges(t) ==
    /\ Goto(t, "commit", "log")
    /\ store' = [p \in Parts |-> IF newStore[t][p] # 0 THEN newStore[t][p] ELSE store[p]]
    /\ handles' = [newHandles[t] EXCEPT !["display"] = handles["display"]]
    /\ loaded' = TRUE
    /\ resolutions' \in SUBSET ({newStore[t]["videoPort"]} \ {0})
    /\ leftover' = (src[t] # root)
    /\ LeaveScope(t)
    /\ UNCHANGED <<linkVars, initMutex>>

\* The commit under _configMutex.  It does not touch the display handles.  The
\* resolutions of the answer, if it has any next to video port types, replace those
\* stored before.
Commit(t) ==
    /\ Goto(t, "commit", "log")
    /\ store' = newStore[t]
    /\ handles' = [newHandles[t] EXCEPT !["display"] = handles["display"]]
    /\ loaded' = TRUE
    /\ resolutions' \in SUBSET ({newStore[t]["videoPort"]} \ {0})
    /\ leftover' = (src[t] # root)
    /\ LeaveScope(t)
    /\ UNCHANGED <<linkVars, initMutex>>

\* Mutant: _initMutex stays locked when the load is done.
LoadReturnLocked(t) ==
    /\ Goto(t, "log", "read")
    /\ KeepLocals
    /\ UNCHANGED <<linkVars, cfgShared, initMutex>>

\* The sizes are logged, read without _configMutex; then _initMutex is released.
LoadReturn(t) ==
    /\ Goto(t, "log", "read")
    /\ initMutex' = {}
    /\ KeepLocals
    /\ UNCHANGED <<linkVars, cfgShared>>

-----------------------------------------------------------------------------
(* ReloadAudioConfigs(), which takes no _initMutex *)

ReloadCall(t) ==
    /\ MayCall(t)
    /\ Goto(t, "idle", "rconfig")
    /\ KeepLocals
    /\ UNCHANGED <<linkVars, cfgShared, initMutex>>

\* No root proxy, no answer, an answer without audio, or no audio handle:
\* nothing is committed.
ReloadFails(t) ==
    /\ Goto(t, "rconfig", "idle") \/ Goto(t, "raudio", "idle")
    /\ LeaveScope(t)
    /\ UNCHANGED <<linkVars, cfgShared, initMutex>>

ReloadAnswer(t) ==
    /\ Goto(t, "rconfig", "raudio")
    /\ \E filled \in Answers : "audio" \in filled /\ Answered(t, filled)
    /\ UNCHANGED <<linkVars, cfgShared, initMutex>>

\* Mutant: the reload goes on without audio handles.
ReloadHandlesUnchecked(t, e) ==
    /\ Goto(t, "raudio", "rcommit")
    /\ Fetched(t, "audio", e)
    /\ UNCHANGED <<linkVars, cfgShared, initMutex>>

ReloadHandles(t, e) ==
    /\ e # 0
    /\ Goto(t, "raudio", "rcommit")
    /\ Fetched(t, "audio", e)
    /\ UNCHANGED <<linkVars, cfgShared, initMutex>>

\* The commit under _configMutex, of the audio part only.
ReloadCommit(t) ==
    /\ Goto(t, "rcommit", "rlog")
    /\ store' = [store EXCEPT !["audio"] = newStore[t]["audio"]]
    /\ handles' = [handles EXCEPT !["audio"] = newHandles[t]["audio"]]
    /\ leftover' = (leftover \/ src[t] # root)
    /\ LeaveScope(t)
    /\ UNCHANGED <<linkVars, loaded, resolutions, initMutex>>

\* The sizes are logged, read without _configMutex.
ReloadReturn(t) ==
    /\ Goto(t, "rlog", "idle")
    /\ KeepLocals
    /\ UNCHANGED <<linkVars, cfgShared, initMutex>>

-----------------------------------------------------------------------------
(* Resolutions that a client fetches and stores itself *)

\* LoadVideoPortResolutionConfig() has an answer, through a proxy of epoch e; it
\* takes no lock, and asks for no config to be loaded.
ResolutionsFetched(t, e) ==
    /\ MayCall(t)
    /\ Goto(t, "idle", "resolutions")
    /\ src' = [src EXCEPT ![t] = e]
    /\ UNCHANGED <<linkVars, cfgShared, initMutex, newStore, newHandles>>

\* storeVideoPortResolutionsForType(), under _configMutex: they join those that
\* are stored, whatever has become of the config and the plugin meanwhile.
ResolutionsStored(t) ==
    /\ Goto(t, "resolutions", "idle")
    /\ resolutions' = resolutions \cup {src[t]}
    /\ leftover' = (leftover \/ src[t] # root)
    /\ LeaveScope(t)
    /\ UNCHANGED <<linkVars, loaded, store, handles, initMutex>>

-----------------------------------------------------------------------------
(* Operational() and Close(), as far as they touch the config *)

\* Operational(true) resets the flag and the handles, and keeps the stores.
Activated ==
    /\ OpMoves("up", "activated")
    /\ loaded' = FALSE
    /\ handles' = NoHandles
    /\ UNCHANGED <<store, resolutions, leftover, initMutex, cfgLocals>>

ActivatedEnd ==
    /\ pc[Notifier] = "idle"
    /\ OpMoves("activated", "idle")
    /\ UNCHANGED cfgVars

\* Operational(false) releases the sub-interfaces before the callback.
DownRelease ==
    /\ OpMoves("down", "release") \/ OpMoves("release", "deactivated")
    /\ UNCHANGED cfgVars

DeactivatedEnd ==
    /\ pc[Notifier] = "idle"
    /\ OpMoves("deactivated", "clear")
    /\ UNCHANGED cfgVars

\* Mutant: VideoPortConfigStore::Clear() forgets the resolutions.
ClearKeepsResolutions ==
    /\ OpMoves("clear", "idle")
    /\ loaded' = FALSE
    /\ store' = EmptyStore
    /\ handles' = NoHandles
    /\ leftover' = FALSE
    /\ UNCHANGED <<resolutions, initMutex, cfgLocals>>

\* Mutant: Operational(false) clears the stores, not the handles.
ClearKeepsHandles ==
    /\ OpMoves("clear", "idle")
    /\ loaded' = FALSE
    /\ store' = EmptyStore
    /\ resolutions' = {}
    /\ leftover' = FALSE
    /\ UNCHANGED <<handles, initMutex, cfgLocals>>

\* Operational(false) clears everything after the callback.
Clear ==
    /\ OpMoves("clear", "idle")
    /\ loaded' = FALSE
    /\ store' = EmptyStore
    /\ handles' = NoHandles
    /\ resolutions' = {}
    /\ leftover' = FALSE
    /\ UNCHANGED <<initMutex, cfgLocals>>

Operational == Activated \/ ActivatedEnd \/ DownRelease \/ DeactivatedEnd \/ Clear

\* Close() leaves the config alone, on its way and when it is done; only a
\* deactivation that BaseClass::Close() reports would clear it.
CloseSteps ==
    /\ CloseMoves("open", "swapped") \/ CloseMoves("swapped", "close")
    /\ UNCHANGED cfgVars

CloseEnds ==
    /\ BaseClose
    /\ leftover' = (leftover \/ loaded \/ store # EmptyStore \/ resolutions # {})
    /\ UNCHANGED <<loaded, store, handles, resolutions, initMutex, cfgLocals>>

LinkChanges ==
    /\ PluginUp \/ PluginDown \/ Open \/ OpenReturn
    /\ UNCHANGED cfgVars

-----------------------------------------------------------------------------
(* Specification *)

Accessor(t) ==
    \/ EnsureFast(t) \/ EnsureSlow(t) \/ EnsureSkip(t) \/ EnsureLoad(t)
    \/ Read(t) \/ PeekBegin(t) \/ PeekEnd(t)

Load(t) ==
    \/ LoadFails(t) \/ LoadAnswer(t)
    \/ \E p \in DOMAIN AfterPart, e \in 0 .. epoch : LoadHandles(t, p, e)
    \/ Commit(t) \/ LoadReturn(t)

Reload(t) ==
    \/ ReloadCall(t) \/ ReloadFails(t) \/ ReloadAnswer(t)
    \/ \E e \in 0 .. epoch : ReloadHandles(t, e)
    \/ ReloadCommit(t) \/ ReloadReturn(t)

Resolutions(t) ==
    \/ \E e \in 1 .. epoch : ResolutionsFetched(t, e)
    \/ ResolutionsStored(t)

Next ==
    \/ LinkChanges \/ CloseEnds \/ CloseSteps
    \/ Operational
    \/ \E t \in Threads : Accessor(t) \/ Load(t) \/ Reload(t) \/ Resolutions(t)

Spec == Init /\ [][Next]_vars

\* A load that has begun goes on: the COM-RPC calls it makes return or time out.
LiveSpec == Spec /\ \A t \in Threads : WF_vars(Load(t)) /\ WF_vars(EnsureSkip(t))

-----------------------------------------------------------------------------
(* Properties *)

\* LoadAllConfigs() runs in one thread at a time, the one that holds _initMutex,
\* and never once a load has committed: a thread that waited for the winner
\* skips the load.  (Comment on _ensureConfigLoaded(); ReloadAudioConfigs() and
\* Operational(), which take no _initMutex, do not upset it.)
OneLoader ==
    \A t \in Threads :
        /\ pc[t] \in LoadStates <=> initMutex = {t}
        /\ pc[t] \in LoadStates \ {"log"} => ~loaded

\* Except while Operational(false) runs, the stores, with the resolutions that
\* clients have added, are of the activation that Interface() serves or empty, and
\* the flag is set only while there is one, unless a load, a reload or a
\* storeVideoPortResolutionsForType() that straddled a deactivation (or went
\* through a proxy of an earlier activation), or a Close(), left older data behind.
StaleOnlyLeftover ==
    op \in {"idle", "up", "activated"} /\ ~leftover =>
        /\ loaded => root # 0
        /\ \A p \in Parts : store[p] \in {0, root}
        /\ resolutions \subseteq {root}

\* Handles are kept only for a part whose config is kept, whichever way loads,
\* reloads, resets and clears overtake each other.
HandlesHaveConfig ==
    \A p \in Parts \cap HandleParts : handles[p] # 0 => store[p] # 0

\* What a call has built so far is of the one activation that answered it, and it
\* has handles only for parts with config.
Building == {"videoPort", "audio", "videoDevice", "commit", "raudio", "rcommit"}

LocalsOf(t) ==
    /\ pc[t] \notin Building => newHandles[t] = NoHandles
    /\ pc[t] \in {"videoPort", "audio", "videoDevice", "commit"} =>
          /\ src[t] # 0
          /\ newStore[t] \in [Parts -> {0, src[t]}]
          /\ \A p \in Parts \cap HandleParts : newHandles[t][p] # 0 => newStore[t][p] # 0
    /\ pc[t] \in {"raudio", "rcommit"} => src[t] # 0 /\ newStore[t]["audio"] = src[t]
    /\ pc[t] = "rcommit" => newHandles[t]["audio"] # 0
    /\ pc[t] = "resolutions" => src[t] # 0

LocalsInv == \A t \in Threads : LocalsOf(t)

\* The inductive invariant.
CInv ==
    /\ TypeOK
    /\ LinkInv
    /\ LocalsInv
    /\ OneLoader
    /\ StaleOnlyLeftover
    /\ HandlesHaveConfig

\* "The commit is skipped entirely if the returned audio config or the
\* re-acquired handles are empty" (ReloadAudioConfigs()): once audio handles are
\* there, only Operational() or a whole new load takes them away.
AudioLost == handles["audio"] # 0 /\ handles'["audio"] = 0
AudioKeptByReload == [][ AudioLost => op # op' \/ (~loaded /\ loaded') ]_vars

\* Whatever the threads do, the configuration a client sees is filled once per
\* reset, in one piece of one activation, and lost in one piece; only resolutions
\* may join it piece by piece, and they too go only when all of it is replaced or
\* lost.
Abs == INSTANCE DSConfigAbs
         WITH available <- loaded, contents <- store, portHandles <- handles
ImplementsAbs == Abs!AbsSpec

\* _initMutex is released by whoever holds it, whatever fails and whatever the
\* plugin does meanwhile.
MutexReleased == \A t \in Threads : initMutex = {t} ~> initMutex # {t}

\* "all other concurrent callers wait and then skip the load once the winner
\* completes": nobody waits forever for a config that stays loaded.
WaitersSkip == \A t \in Threads : <>[]loaded => (pc[t] = "ensure" ~> pc[t] = "read")

\* "guards stores, handle maps and _configLoaded" (the comment on _configMutex):
\* what a thread reads does not change under it.
ReadersUndisturbed ==
    [][ \A t \in Threads :
            pc[t] \in {"peek", "log", "rlog"} /\ pc'[t] = pc[t] => UNCHANGED <<store, handles>>
      ]_vars

\* "deactivated - clearing sub-interfaces and config" (Operational(false)): once
\* DeviceSettings is gone and the callback done, no config counts as loaded.
ClearedWhenDown == link /\ ~up /\ op = "idle" => ~loaded
=============================================================================
